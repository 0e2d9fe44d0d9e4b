------------------------------ MODULE Decider ------------------------------
(***************************************************************************)
(* The pure part of the orchestration engine: which events a command       *)
(* yields against a read model (decider.ts, commandInvariants.ts), and     *)
(* what an event does to the part of the read model the decider looks at   *)
(* (projector.ts): which projects and threads exist, which threads are     *)
(* archived, and which proposed plans a thread owns.  Titles, models,      *)
(* branches, timestamps and messages never decide a command and are left   *)
(* out; turns and checkpoints are in TurnFlow and CheckpointFlow.          *)
(***************************************************************************)
EXTENDS Naturals, Sequences

CONSTANTS
    Projects,   \* project ids
    Threads,    \* thread ids
    Plans,      \* proposed-plan ids
    None        \* an id a command or an event does not carry

ASSUME NoneAssumption == None \notin Projects \cup Threads \cup Plans

Presence == {"absent", "present", "deleted"}

ThreadState ==
    [presence : Presence, project : Projects \cup {None},
     archived : BOOLEAN, plans : SUBSET Plans]

\* The read model; seq is its snapshotSequence.
ReadModel ==
    [seq : Nat, projects : [Projects -> Presence], threads : [Threads -> ThreadState]]

FreshThread(p) ==
    [presence |-> "present", project |-> p, archived |-> FALSE, plans |-> {}]

EmptyReadModel ==
    [seq      |-> 0,
     projects |-> [p \in Projects |-> "absent"],
     threads  |-> [t \in Threads |->
                     [presence |-> "absent", project |-> None,
                      archived |-> FALSE, plans |-> {}]]]

---------------------------------------------------------------------------
(* Commands and events.  A command names at most a project, a thread and a *)
(* plan; sourceThread is the thread a turn's source plan is taken from.    *)
(* The plan of "thread.revert.complete" is one the revert drops.           *)

ProjectCommandTypes == {"project.create", "project.meta.update", "project.delete"}

\* Commands that only need their thread to exist.
PlainThreadCommandTypes ==
    {"thread.meta.update", "thread.runtime-mode.set", "thread.interaction-mode.set",
     "thread.turn.interrupt", "thread.approval.respond", "thread.user-input.respond",
     "thread.checkpoint.revert", "thread.session.stop", "thread.session.set",
     "thread.message.assistant.delta", "thread.message.assistant.complete",
     "thread.proposed-plan.upsert", "thread.turn.diff.complete",
     "thread.revert.complete", "thread.activity.append"}

CommandTypes ==
    ProjectCommandTypes \cup PlainThreadCommandTypes \cup
    {"thread.create", "thread.delete", "thread.archive", "thread.unarchive",
     "thread.turn.start"}

Command ==
    [type : CommandTypes, project : Projects \cup {None}, thread : Threads \cup {None},
     plan : Plans \cup {None}, sourceThread : Threads \cup {None}]

EventTypes ==
    {"project.created", "project.meta-updated", "project.deleted",
     "thread.created", "thread.deleted", "thread.archived", "thread.unarchived",
     "thread.message-sent", "thread.turn-start-requested",
     "thread.meta-updated", "thread.runtime-mode-set", "thread.interaction-mode-set",
     "thread.turn-interrupt-requested", "thread.approval-response-requested",
     "thread.user-input-response-requested", "thread.checkpoint-revert-requested",
     "thread.session-stop-requested", "thread.session-set",
     "thread.proposed-plan-upserted", "thread.turn-diff-completed",
     "thread.reverted", "thread.activity-appended"}

Event ==
    [type : EventTypes, project : Projects \cup {None}, thread : Threads \cup {None},
     plan : Plans \cup {None}]

---------------------------------------------------------------------------
(* The checks of commandInvariants.ts.  A deleted project or thread is     *)
(* still found: deletedAt is never looked at.                              *)

ProjectExists(m, p)     == p \in Projects /\ m.projects[p] # "absent"
ThreadExists(m, t)      == t \in Threads /\ m.threads[t].presence # "absent"
ThreadArchived(m, t)    == ThreadExists(m, t) /\ m.threads[t].archived
ThreadNotArchived(m, t) == ThreadExists(m, t) /\ ~m.threads[t].archived

\* The source plan of a turn, when there is one, must be on its thread, and
\* that thread must belong to the project of the thread the turn runs on.
SourcePlanUsable(m, c) ==
    \/ c.sourceThread = None
    \/ /\ ThreadExists(m, c.sourceThread)
       /\ c.plan \in m.threads[c.sourceThread].plans
       /\ m.threads[c.sourceThread].project = m.threads[c.thread].project

\* The condition under which the decider accepts command c.
Accepts(m, c) ==
    \/ c.type = "project.create" /\ c.project \in Projects /\ ~ProjectExists(m, c.project)
    \/ c.type \in {"project.meta.update", "project.delete"} /\ ProjectExists(m, c.project)
    \/ /\ c.type = "thread.create"
       /\ ProjectExists(m, c.project)
       /\ c.thread \in Threads
       /\ ~ThreadExists(m, c.thread)
    \/ c.type \in {"thread.delete", "thread.archive"} /\ ThreadNotArchived(m, c.thread)
    \/ c.type = "thread.unarchive" /\ ThreadArchived(m, c.thread)
    \/ /\ c.type = "thread.turn.start"
       /\ ThreadExists(m, c.thread)
       /\ SourcePlanUsable(m, c)
    \/ c.type \in PlainThreadCommandTypes /\ ThreadExists(m, c.thread)

\* The type of the event a command yields (a turn start yields two).
EventTypeOf(type) ==
    CASE type = "project.create"                    -> "project.created"
      [] type = "project.meta.update"               -> "project.meta-updated"
      [] type = "project.delete"                    -> "project.deleted"
      [] type = "thread.create"                     -> "thread.created"
      [] type = "thread.delete"                     -> "thread.deleted"
      [] type = "thread.archive"                    -> "thread.archived"
      [] type = "thread.unarchive"                  -> "thread.unarchived"
      [] type = "thread.meta.update"                -> "thread.meta-updated"
      [] type = "thread.runtime-mode.set"           -> "thread.runtime-mode-set"
      [] type = "thread.interaction-mode.set"       -> "thread.interaction-mode-set"
      [] type = "thread.turn.interrupt"             -> "thread.turn-interrupt-requested"
      [] type = "thread.approval.respond"           -> "thread.approval-response-requested"
      [] type = "thread.user-input.respond"         -> "thread.user-input-response-requested"
      [] type = "thread.checkpoint.revert"          -> "thread.checkpoint-revert-requested"
      [] type = "thread.session.stop"               -> "thread.session-stop-requested"
      [] type = "thread.session.set"                -> "thread.session-set"
      [] type = "thread.message.assistant.delta"    -> "thread.message-sent"
      [] type = "thread.message.assistant.complete" -> "thread.message-sent"
      [] type = "thread.proposed-plan.upsert"       -> "thread.proposed-plan-upserted"
      [] type = "thread.turn.diff.complete"         -> "thread.turn-diff-completed"
      [] type = "thread.revert.complete"            -> "thread.reverted"
      [] OTHER                                      -> "thread.activity-appended"

EventFor(c, type) ==
    [type |-> type, project |-> c.project, thread |-> c.thread, plan |-> c.plan]

\* Mutant: a turn start asks for the turn before it records the message.
DecideSwapped(m, c) ==
    IF ~Accepts(m, c) THEN <<>>
    ELSE IF c.type = "thread.turn.start"
         THEN << EventFor(c, "thread.turn-start-requested"),
                 EventFor(c, "thread.message-sent") >>
         ELSE << EventFor(c, EventTypeOf(c.type)) >>

\* decideOrchestrationCommand: the events of an accepted command; the empty
\* sequence stands for OrchestrationCommandInvariantError.
Decide(m, c) ==
    IF ~Accepts(m, c) THEN <<>>
    ELSE IF c.type = "thread.turn.start"
         THEN << EventFor(c, "thread.message-sent"),
                 EventFor(c, "thread.turn-start-requested") >>
         ELSE << EventFor(c, EventTypeOf(c.type)) >>

---------------------------------------------------------------------------
(* projectEvent.  An update of a thread or project that is absent changes  *)
(* nothing but the sequence; a creation overwrites what was there.         *)

UpdateThread(ts, t, new) ==
    IF t \in Threads /\ ts[t].presence # "absent" THEN [ts EXCEPT ![t] = new] ELSE ts

ProjectsAfter(ps, e) ==
    IF e.project \notin Projects THEN ps
    ELSE CASE e.type = "project.created" -> [ps EXCEPT ![e.project] = "present"]
           [] e.type = "project.deleted" /\ ps[e.project] # "absent"
                                         -> [ps EXCEPT ![e.project] = "deleted"]
           [] OTHER                      -> ps

ThreadsAfter(ts, e) ==
    IF e.thread \notin Threads THEN ts
    ELSE LET th == ts[e.thread] IN
         CASE e.type = "thread.created"    -> [ts EXCEPT ![e.thread] = FreshThread(e.project)]
           [] e.type = "thread.deleted"    -> UpdateThread(ts, e.thread, [th EXCEPT !.presence = "deleted"])
           [] e.type = "thread.archived"   -> UpdateThread(ts, e.thread, [th EXCEPT !.archived = TRUE])
           [] e.type = "thread.unarchived" -> UpdateThread(ts, e.thread, [th EXCEPT !.archived = FALSE])
           [] e.type = "thread.proposed-plan-upserted"
                -> UpdateThread(ts, e.thread, [th EXCEPT !.plans = @ \cup ({e.plan} \ {None})])
           [] e.type = "thread.reverted"
                -> UpdateThread(ts, e.thread, [th EXCEPT !.plans = @ \ {e.plan}])
           [] OTHER -> ts

ProjectEvent(m, e, seq) ==
    [seq      |-> seq,
     projects |-> ProjectsAfter(m.projects, e),
     threads  |-> ThreadsAfter(m.threads, e)]
=============================================================================
