---------------------------- MODULE CheckpointFlow ----------------------------
(***************************************************************************)
(* The checkpoints of one thread in a git workspace.  A provider runs      *)
(* turns that edit the files and tells what it does in runtime events; two *)
(* workers read those events, each at its own pace: the ingestion          *)
(* (ProviderRuntimeIngestion.ts), which records the running turn and a     *)
(* placeholder checkpoint, and the checkpoint reactor                      *)
(* (CheckpointReactor.ts), which captures the files in git refs, replaces  *)
(* placeholders and carries out reverts.  What they record reaches the     *)
(* thread in memory (projector.ts) and its rows in the database            *)
(* (ProjectionPipeline.ts), and comes back to the reactor as events.       *)
(*                                                                         *)
(* A dispatch is one step: OrchestrationEngine implements that.  Two       *)
(* awaits of a worker are two steps.  Files are the set of the edits they  *)
(* hold; HEAD holds none.  Paths, diffs, messages and the limit of 500     *)
(* checkpoints are left out.                                               *)
(***************************************************************************)
EXTENDS Naturals, Sequences, FiniteSets

CONSTANTS
    MaxTurns,     \* bounds: turns,
    MaxEdits,     \* edits of all turns together,
    MaxReverts,   \* reverts asked for,
    MaxTroubles,  \* crashes, and steps that fail in git, the provider or a dispatch (telling
                  \* of a step that has failed may fail with it at no further cost),
    MaxBacklog,   \* runtime events told ahead of the ingestion
    Outcome       \* how each turn ends

ASSUME CheckpointAssumption ==
    /\ MaxTurns \in Nat
    /\ MaxEdits \in Nat
    /\ MaxReverts \in Nat
    /\ MaxTroubles \in Nat
    /\ MaxBacklog \in Nat
    /\ Outcome \in [1 .. MaxTurns -> {"completed", "failed", "interrupted"}]

VARIABLES
    provider,   \* the provider's session: alive, running turn, turns asked for, conversation
    files,      \* the work tree: the edits it holds
    refs        \* refs/t3/checkpoints/<thread>/turn/<count>: the files captured there
VARIABLES
    memory,     \* the thread in the read model: checkpoints and active turn
    database,   \* its rows in projection_turns that have a checkpoint
    ingestion,  \* the ingestion's queue, and the event it has read the thread for
    reactor,    \* the reactor's two streams, and what its worker is doing
    past,       \* history, for the properties
    budget      \* what is left of the bounds

vars == <<provider, files, refs, memory, database, ingestion, reactor, past, budget>>

---------------------------------------------------------------------------
Turns == 1 .. MaxTurns

Files == SUBSET (Turns \X (1 .. MaxEdits))

HeadFiles == {}                 \* HEAD

\* captured: checkpointRef names a git ref, not a provider-diff of a placeholder.
Checkpoint ==
    [turn : Turns, count : Nat, status : {"ready", "missing", "error"}, captured : BOOLEAN]

RuntimeEvent == [type : {"turn.started", "turn.diff.updated", "turn.completed"}, turn : Turns,
                 state : {"completed", "failed", "interrupted"}]

Runtime(type, t, state) == [type |-> type, turn |-> t, state |-> state]

\* Events of the engine the reactor reads; a message and the request for its
\* turn do the same to it and are one.
DomainEvent ==
    [type : {"thread.turn-start-requested"}] \cup
    [type : {"thread.turn-diff-completed"}, checkpoint : Checkpoint] \cup
    [type : {"thread.checkpoint-revert-requested"}, turnCount : Nat]

Idle == [op |-> "idle"]

\* What the worker holds between two awaits.
Work ==
    {Idle} \cup
    [op : {"baseline"}, count : Nat] \cup
    [op : {"capture", "record"}, checkpoint : Checkpoint] \cup
    [op : {"restore", "rollback", "delete", "complete"}, turnCount : Nat,
     seen : SUBSET Checkpoint, calm : BOOLEAN]

\* The reduce over thread.checkpoints: the largest turn count, or 0.
CurrentTurnCount(cs) ==
    IF \E c \in cs : \A d \in cs : d.count <= c.count
    THEN (CHOOSE c \in cs : \A d \in cs : d.count <= c.count).count
    ELSE 0

OfTurn(cs, t) == {c \in cs : c.turn = t}

\* The turn count a checkpoint of turn t is given: the turn's own, or the next.
CountsFor(cs, t) ==
    IF OfTurn(cs, t) # {} THEN {c.count : c \in OfTurn(cs, t)} ELSE {CurrentTurnCount(cs) + 1}

\* Mutant: a placeholder passes for a capture.
HasAny(cs, t) == OfTurn(cs, t) # {}

HasCaptured(cs, t) == \E c \in OfTurn(cs, t) : c.status # "missing"

\* Mutant: a ref that is there is left as it is.
WithRefOnce(count, tree) ==
    [n \in DOMAIN refs \cup {count} |-> IF n \in DOMAIN refs THEN refs[n] ELSE tree]

\* captureCheckpoint: commit-tree of the whole work tree, update-ref.
WithRef(count, tree) ==
    [n \in DOMAIN refs \cup {count} |-> IF n = count THEN tree ELSE refs[n]]

---------------------------------------------------------------------------
(* thread.turn-diff-completed and thread.reverted in the two projections.  *)

\* projector.ts: a placeholder never replaces what was captured.
InMemory(cs, c) ==
    IF c.status = "missing" /\ HasCaptured(cs, c.turn)
    THEN cs
    ELSE {d \in cs : d.turn # c.turn} \cup {c}

\* Mutant: clearCheckpointTurnConflict is forgotten.
InDatabaseUncleared(cs, c) == {d \in cs : d.turn # c.turn} \cup {c}

\* applyThreadTurnsProjection: a turn count belongs to the turn that took it last.
InDatabase(cs, c) == {d \in cs : d.turn # c.turn /\ d.count # c.count} \cup {c}

\* Mutant: the revert keeps the first turn it rolls back.
KeptOneMore(cs, n) == {c \in cs : c.count <= n + 1}

\* thread.reverted in memory ...
Kept(cs, n) == {c \in cs : c.count <= n}

\* Mutant: the rows lose the turn reverted to.
KeptRowsOneLess(rows, n) == {c \in rows : c.count < n}

\* ... and in the database.
KeptRows(rows, n) == {c \in rows : c.count <= n}

\* A dispatched thread.turn.diff.complete.  The two projections part when the
\* placeholder comes late, and when another turn has the count already.
RecordCheckpoint(c) ==
    /\ memory' = [memory EXCEPT !.checkpoints = InMemory(@, c)]
    /\ database' = InDatabase(database, c)
    /\ past' = [past EXCEPT
                  !.parted = @ \cup (IF c.status = "missing" /\ HasCaptured(memory.checkpoints, c.turn)
                                     THEN {c.turn} ELSE {})
                               \cup {d.turn : d \in {e \in memory.checkpoints :
                                       e.turn # c.turn /\ e.count = c.count}}]

\* The event of c for the reactor, which ignores all but placeholders.
Told(c) ==
    IF c.status # "missing" THEN reactor
    ELSE [reactor EXCEPT !.domain = Append(@, [type |-> "thread.turn-diff-completed",
                                               checkpoint |-> c])]

---------------------------------------------------------------------------
Init ==
    /\ provider = [alive |-> FALSE, turn |-> 0, last |-> 0, asked |-> 0,
                   edits |-> [t \in Turns |-> 0], conversation |-> <<>>]
    /\ files = HeadFiles
    /\ refs = [n \in {} |-> HeadFiles]
    /\ memory = [checkpoints |-> {}, active |-> 0]
    /\ database = {}
    /\ ingestion = [queue |-> <<>>, reading |-> <<>>]
    /\ reactor = [domain |-> <<>>, runtime |-> <<>>, work |-> Idle]
    /\ past = [parted |-> {}, told |-> {}, untold |-> {}, orphaned |-> {}, deleted |-> {},
               early |-> {}, asked |-> 0, settled |-> 0, lost |-> 0]
    /\ budget = [edits |-> MaxEdits, reverts |-> MaxReverts, troubles |-> MaxTroubles]

Fault == budget.troubles > 0 /\ budget' = [budget EXCEPT !.troubles = @ - 1]

\* The worker's revert is no longer undisturbed.
Disturbed(r) ==
    IF "calm" \in DOMAIN r.work THEN [r EXCEPT !.work.calm = FALSE] ELSE r

---------------------------------------------------------------------------
(* The user and the provider.                                              *)

\* thread.turn.start, up to the events the reactor reads; the user is at most one
\* turn ahead of the provider.
RequestTurn ==
    /\ provider.asked < MaxTurns
    /\ provider.asked = provider.last
    /\ provider' = [provider EXCEPT !.asked = @ + 1]
    /\ reactor' = [reactor EXCEPT
                     !.domain = Append(@, [type |-> "thread.turn-start-requested"])]
    /\ UNCHANGED <<files, refs, memory, database, ingestion, past, budget>>

\* Both subscribers of the runtime events get e.
Emit(r, e) ==
    /\ ingestion' = [ingestion EXCEPT !.queue = Append(@, e)]
    /\ reactor' = [r EXCEPT !.runtime = IF e.type = "turn.diff.updated" THEN @ ELSE Append(@, e)]

\* Bound.
MayTell == Len(ingestion.queue) < MaxBacklog

\* The provider runs one turn at a time.  Its session is started when there is
\* none, and recorded without an active turn.
StartTurn ==
    LET t == provider.last + 1 IN
    /\ provider.turn = 0
    /\ MayTell
    /\ provider.last < provider.asked
    /\ provider' = [provider EXCEPT !.alive = TRUE, !.turn = t, !.last = t,
                                    !.conversation = Append(@, t)]
    /\ memory' = [memory EXCEPT !.active = IF provider.alive THEN @ ELSE 0]
    /\ Emit(Disturbed(reactor), Runtime("turn.started", t, "completed"))
    /\ UNCHANGED <<files, refs, database, past, budget>>

\* The running turn edits files; only some providers tell (turn.diff.updated).
Edit ==
    LET t == provider.turn IN
    /\ t # 0
    /\ budget.edits > 0
    /\ budget' = [budget EXCEPT !.edits = @ - 1]
    /\ provider' = [provider EXCEPT !.edits[t] = @ + 1]
    /\ files' = files \cup {<<t, provider.edits[t] + 1>>}
    /\ \/ MayTell /\ Emit(Disturbed(reactor), Runtime("turn.diff.updated", t, "completed"))
       \/ reactor' = Disturbed(reactor) /\ UNCHANGED ingestion
    /\ UNCHANGED <<refs, memory, database, past>>

EndTurn ==
    /\ provider.turn # 0
    /\ MayTell
    /\ provider' = [provider EXCEPT !.turn = 0]
    /\ Emit(reactor, Runtime("turn.completed", provider.turn, Outcome[provider.turn]))
    /\ UNCHANGED <<files, refs, memory, database, past, budget>>

\* thread.checkpoint.revert: the decider asks only for the thread.
RequestRevert ==
    /\ budget.reverts > 0
    /\ budget' = [budget EXCEPT !.reverts = @ - 1]
    /\ \E n \in 0 .. MaxTurns - 1 :
          reactor' = [reactor EXCEPT
                        !.domain = Append(@, [type |-> "thread.checkpoint-revert-requested",
                                              turnCount |-> n])]
    /\ past' = [past EXCEPT !.asked = @ + 1]
    /\ UNCHANGED <<provider, files, refs, memory, database, ingestion>>

---------------------------------------------------------------------------
(* ProviderRuntimeIngestion.                                               *)

\* thread.session.set: a turn event is applied unless another turn is active.
IngestLifecycle ==
    /\ ingestion.reading = <<>>
    /\ ingestion.queue # <<>>
    /\ Head(ingestion.queue).type \in {"turn.started", "turn.completed"}
    /\ ingestion' = [ingestion EXCEPT !.queue = Tail(@)]
    /\ LET e == Head(ingestion.queue) IN
       \/ /\ memory' = [memory EXCEPT
                          !.active = IF @ \notin {0, e.turn} THEN @
                                     ELSE IF e.type = "turn.started" THEN e.turn ELSE 0]
          /\ UNCHANGED budget
       \/ Fault /\ UNCHANGED memory
    /\ UNCHANGED <<provider, files, refs, database, reactor, past>>

\* The thread is read at the start of the event, which is over if the turn has a
\* checkpoint ...
IngestDiffRead ==
    /\ ingestion.reading = <<>>
    /\ ingestion.queue # <<>>
    /\ Head(ingestion.queue).type = "turn.diff.updated"
    /\ LET t    == Head(ingestion.queue).turn
           seen == memory.checkpoints
       IN  ingestion' = [queue   |-> Tail(ingestion.queue),
                         reading |-> IF OfTurn(seen, t) # {} THEN <<>>
                                     ELSE <<[turn |-> t, count |-> CurrentTurnCount(seen) + 1]>>]
    /\ UNCHANGED <<provider, files, refs, memory, database, reactor, past, budget>>

\* ... and isGitRepoForThread awaited before the placeholder is recorded, maybe
\* with a number that the turn would not be given any more.
IngestDiffRecord ==
    /\ ingestion.reading # <<>>
    /\ ingestion' = [ingestion EXCEPT !.reading = <<>>]
    /\ LET c == [turn |-> Head(ingestion.reading).turn, count |-> Head(ingestion.reading).count,
                 status |-> "missing", captured |-> FALSE]
           late == c.count \notin CountsFor(memory.checkpoints, c.turn)
       IN  \/ /\ RecordCheckpoint(c)
              /\ reactor' = IF late THEN Disturbed(Told(c)) ELSE Told(c)
              /\ UNCHANGED budget
           \/ Fault /\ UNCHANGED <<memory, database, past, reactor>>
    /\ UNCHANGED <<provider, files, refs>>

---------------------------------------------------------------------------
(* CheckpointReactor: one worker, fed by two streams in any order.         *)

Busy(work) == reactor' = [reactor EXCEPT !.work = work]

FromDomain(type) ==
    /\ reactor.work = Idle
    /\ reactor.domain # <<>>
    /\ Head(reactor.domain).type = type

FromRuntime(type) ==
    /\ reactor.work = Idle
    /\ reactor.runtime # <<>>
    /\ Head(reactor.runtime).type = type

DomainDone(work) == reactor' = [reactor EXCEPT !.domain = Tail(@), !.work = work]

RuntimeDone(work) == reactor' = [reactor EXCEPT !.runtime = Tail(@), !.work = work]

\* ensurePreTurnBaseline...: the read, then the capture where there is no ref yet
\* (only this worker writes refs).
TakeBaseline ==
    LET n    == CurrentTurnCount(memory.checkpoints)
        work == IF n \in DOMAIN refs THEN Idle ELSE [op |-> "baseline", count |-> n]
    IN
    /\ \/ FromDomain("thread.turn-start-requested") /\ DomainDone(work)
       \/ FromRuntime("turn.started") /\ RuntimeDone(work)
    /\ UNCHANGED <<provider, files, refs, memory, database, ingestion, past, budget>>

CaptureBaseline ==
    /\ reactor.work.op = "baseline"
    /\ Busy(Idle)
    /\ \/ refs' = WithRef(reactor.work.count, files) /\ UNCHANGED budget
       \/ Fault /\ UNCHANGED refs
    /\ UNCHANGED <<provider, files, memory, database, ingestion, past>>

\* Mutant: the state of the turn is taken for the status of its checkpoint.
StatusAsReported(state) == state

\* checkpointStatusFromRuntime.
StatusFromRuntime(state) ==
    CASE state = "failed" -> "error" [] state = "interrupted" -> "missing" [] OTHER -> "ready"

\* captureCheckpointFromTurnCompletion, up to the capture.
TakeCompletion ==
    LET e     == Head(reactor.runtime)
        cs    == memory.checkpoints
        other == memory.active \notin {0, e.turn}
    IN
    /\ FromRuntime("turn.completed")
    /\ IF other \/ HasCaptured(cs, e.turn)
       THEN RuntimeDone(Idle)
       ELSE \E n \in CountsFor(cs, e.turn) :
               RuntimeDone([op |-> "capture",
                            checkpoint |-> [turn |-> e.turn, count |-> n, captured |-> TRUE,
                                            status |-> StatusFromRuntime(e.state)]])
    /\ UNCHANGED <<provider, files, refs, memory, database, ingestion, past, budget>>

\* captureCheckpointFromPlaceholder, up to the capture: whatever has become of
\* the turn since.
TakePlaceholder ==
    LET c == Head(reactor.domain).checkpoint IN
    /\ FromDomain("thread.turn-diff-completed")
    /\ DomainDone(IF HasCaptured(memory.checkpoints, c.turn)
                  THEN Idle
                  ELSE [op |-> "capture",
                        checkpoint |-> [c EXCEPT !.status = "ready", !.captured = TRUE]])
    /\ UNCHANGED <<provider, files, refs, memory, database, ingestion, past, budget>>

\* The capture is given up, and appendCaptureFailureActivity told, or swallowed where
\* that dispatch fails as well.
CaptureFails ==
    LET t == reactor.work.checkpoint.turn IN
    /\ Fault
    /\ Busy(Idle)
    /\ past' \in {[past EXCEPT !.told = @ \cup {t}], [past EXCEPT !.untold = @ \cup {t}]}

\* captureAndDispatchCheckpoint: the ref ...
CaptureFiles ==
    /\ reactor.work.op = "capture"
    /\ \/ /\ refs' = WithRef(reactor.work.checkpoint.count, files)
          /\ Busy([reactor.work EXCEPT !.op = "record"])
          /\ past' = [past EXCEPT !.deleted = @ \ {reactor.work.checkpoint.count},
                                  !.early = @ \cup ({reactor.work.checkpoint.turn}
                                                     \cap {provider.turn})]
          /\ UNCHANGED budget
       \/ CaptureFails /\ UNCHANGED refs
    /\ UNCHANGED <<provider, files, memory, database, ingestion>>

\* ... and what is recorded of it, which the reactor will read too.
RecordCapture ==
    LET c == reactor.work.checkpoint IN
    /\ reactor.work.op = "record"
    /\ \/ /\ RecordCheckpoint(c)
          /\ reactor' = [Told(c) EXCEPT !.work = Idle]
          /\ UNCHANGED budget
       \/ CaptureFails /\ UNCHANGED <<memory, database>>
    /\ UNCHANGED <<provider, files, refs, ingestion>>

\* The revert is answered: recorded, or told as a failure ...
Settled(p) == [p EXCEPT !.settled = @ + 1]

\* ... or neither: the dispatch that tells it fails, which is swallowed.
Lost(p) == [p EXCEPT !.lost = @ + 1]

\* appendRevertFailureActivity of a revert that is refused ...
TellRefused ==
    \/ past' = Settled(past) /\ UNCHANGED budget
    \/ past' = Lost(past) /\ Fault

\* ... and of one that fails on the way.
RevertFails == Fault /\ Busy(Idle) /\ past' \in {Settled(past), Lost(past)}

\* Checkpoints and conversation are in step: turn by turn, each captured.
InStep ==
    /\ provider.turn = 0
    /\ {<<c.turn, c.count>> : c \in memory.checkpoints}
         = {<<provider.conversation[i], i>> : i \in 1 .. Len(provider.conversation)}
    /\ \A c \in memory.checkpoints : c.captured /\ c.count \in DOMAIN refs

\* handleRevertRequested, up to the restore: what is decided on the thread read now.
TakeRevert ==
    LET n  == Head(reactor.domain).turnCount
        cs == memory.checkpoints
        refused == \/ ~provider.alive
                   \/ n > CurrentTurnCount(cs)
                   \/ n # 0 /\ \A c \in cs : c.count # n
    IN
    /\ FromDomain("thread.checkpoint-revert-requested")
    /\ IF refused
       THEN DomainDone(Idle) /\ TellRefused
       ELSE /\ DomainDone([op |-> "restore", turnCount |-> n, seen |-> cs, calm |-> InStep])
            /\ UNCHANGED <<past, budget>>
    /\ UNCHANGED <<provider, files, refs, memory, database, ingestion>>

Restored(n) == IF n \in DOMAIN refs THEN refs[n] ELSE HeadFiles

\* restoreCheckpoint: the baseline falls back to HEAD; a git command that fails
\* may have written the files already.
RestoreFiles ==
    LET n == reactor.work.turnCount IN
    /\ reactor.work.op = "restore"
    /\ \/ /\ n = 0 \/ (n \in DOMAIN refs /\ \E c \in reactor.work.seen : c.count = n /\ c.captured)
          /\ files' = Restored(n)
          /\ Busy([reactor.work EXCEPT !.op = "rollback"])
          /\ UNCHANGED <<past, budget>>
       \/ /\ n # 0
          /\ n \notin DOMAIN refs \/ \E c \in reactor.work.seen : c.count = n /\ ~c.captured
          /\ Busy(Idle) /\ TellRefused
          /\ UNCHANGED files
       \/ RevertFails /\ files' \in {files, Restored(n)}
    /\ UNCHANGED <<provider, refs, memory, database, ingestion>>

\* Mutant: one turn too many is rolled back.
TurnsToRollBackTooMany(seen, n) == CurrentTurnCount(seen) + 1 - n

\* rolledBackTurns; n is not above the current turn count.
TurnsToRollBack(seen, n) == CurrentTurnCount(seen) - n

\* rollbackConversation.
RollbackConversation ==
    LET len == Len(provider.conversation)
        num == TurnsToRollBack(reactor.work.seen, reactor.work.turnCount)
    IN
    /\ reactor.work.op = "rollback"
    /\ \/ /\ provider' = [provider EXCEPT
                            !.conversation = IF num >= len THEN <<>> ELSE SubSeq(@, 1, len - num)]
          /\ Busy([reactor.work EXCEPT !.op = "delete"])
          /\ UNCHANGED <<past, budget>>
       \/ num > 0 /\ RevertFails /\ UNCHANGED provider
    /\ UNCHANGED <<files, refs, memory, database, ingestion>>

StaleCounts(seen, n) == {c.count : c \in {d \in seen : d.count > n /\ d.captured}}

\* deleteCheckpointRefs, of the checkpoints seen when the revert began, ref by ref: a
\* command that fails leaves its ref and goes on (allowNonZeroExit), one that cannot be
\* run ends the revert.
DeleteRefs ==
    LET stale == StaleCounts(reactor.work.seen, reactor.work.turnCount) IN
    /\ reactor.work.op = "delete"
    /\ \E gone \in SUBSET stale :
          /\ refs' = [n \in DOMAIN refs \ gone |-> refs[n]]
          /\ LET after == [past EXCEPT !.deleted = @ \cup gone] IN
             \/ /\ Busy([reactor.work EXCEPT !.op = "complete"])
                /\ past' = after
                /\ IF gone = stale THEN UNCHANGED budget ELSE Fault
             \/ /\ gone # stale
                /\ Fault /\ Busy(Idle)
                /\ past' \in {Settled(after), Lost(after)}
    /\ UNCHANGED <<provider, files, memory, database, ingestion>>

\* thread.revert.complete; its failure is told at once, or by the handler around it.
CompleteRevert ==
    LET n == reactor.work.turnCount IN
    /\ reactor.work.op = "complete"
    /\ \/ /\ memory' = [memory EXCEPT !.checkpoints = Kept(@, n)]
          /\ database' = KeptRows(database, n)
          /\ past' = [Settled(past) EXCEPT !.deleted = {m \in @ : m <= n}]
          /\ Busy(Idle)
          /\ UNCHANGED budget
       \/ RevertFails /\ UNCHANGED <<memory, database>>
    /\ UNCHANGED <<provider, files, refs, ingestion>>

---------------------------------------------------------------------------
\* The reverts asked for that the reactor still has to read, and the one it carries out.
Reverting == {"restore", "rollback", "delete", "complete"}

RevertsIn(s) == {i \in 1 .. Len(s) : s[i].type = "thread.checkpoint-revert-requested"}

PendingReverts ==
    Cardinality(RevertsIn(reactor.domain)) + (IF reactor.work.op \in Reverting THEN 1 ELSE 0)

Placeholders == {c \in memory.checkpoints : c.status = "missing"}

\* The server dies, and the provider with it; queues are lost, nothing is
\* replayed to the workers; the thread is read back from its events.
Crash ==
    /\ Fault
    /\ provider' = [provider EXCEPT !.alive = FALSE, !.turn = 0]
    /\ ingestion' = [queue |-> <<>>, reading |-> <<>>]
    /\ reactor' = [domain |-> <<>>, runtime |-> <<>>, work |-> Idle]
    /\ past' = [past EXCEPT !.orphaned = @ \cup {c.turn : c \in Placeholders},
                            !.lost = @ + PendingReverts]
    /\ UNCHANGED <<files, refs, memory, database>>

\* The worker of ProviderRuntimeIngestion, and the worker of CheckpointReactor.
Ingest == IngestLifecycle \/ IngestDiffRead \/ IngestDiffRecord

React ==
    \/ TakeBaseline \/ CaptureBaseline
    \/ TakeCompletion \/ TakePlaceholder \/ CaptureFiles \/ RecordCapture
    \/ TakeRevert \/ RestoreFiles \/ RollbackConversation \/ DeleteRefs \/ CompleteRevert

Next ==
    \/ RequestTurn \/ StartTurn \/ Edit \/ EndTurn \/ RequestRevert
    \/ Ingest \/ React
    \/ Crash

Spec == Init /\ [][Next]_vars

---------------------------------------------------------------------------
TypeOK ==
    /\ provider \in [alive : BOOLEAN, turn : 0 .. MaxTurns, last : 0 .. MaxTurns,
                     asked : 0 .. MaxTurns, edits : [Turns -> 0 .. MaxEdits],
                     conversation : Seq(Turns)]
    /\ files \in Files
    /\ DOMAIN refs \subseteq Nat /\ \A n \in DOMAIN refs : refs[n] \in Files
    /\ memory.checkpoints \subseteq Checkpoint /\ memory.active \in 0 .. MaxTurns
    /\ database \subseteq Checkpoint
    /\ ingestion.queue \in Seq(RuntimeEvent)
    /\ reactor.domain \in Seq(DomainEvent) /\ reactor.runtime \in Seq(RuntimeEvent)
    /\ reactor.work.op = "baseline" => reactor.work.count \in Nat

\* Two checkpoints of a thread never share a turn count in the database, which
\* has a unique index on it (005_Projections.ts), although the two workers
\* number checkpoints from threads they read before an await.
CountsDistinct ==
    \A c, d \in database : c.count = d.count => c = d

\* What the thread in memory says was captured can be restored: its ref is
\* there, unless a revert has deleted it and could not be recorded (yet).
CapturedHaveRefs ==
    \A c \in memory.checkpoints :
        c.captured => c.count \in DOMAIN refs \cup past.deleted

\* The snapshot served after a reload or restart and the thread in memory hold
\* the same checkpoints, except those of turns whose placeholder came after
\* their capture, or whose count another turn was given.
ProjectionsAgree ==
    {c \in memory.checkpoints : c.turn \notin past.parted}
        = {c \in database : c.turn \notin past.parted}

\* A revert that began in step, and met neither a new turn nor a placeholder whose
\* number was out of date, leaves files, conversation and checkpoints all at its
\* turn, whatever else was recorded meanwhile.
RevertIsWhole ==
    [][CompleteRevert /\ UNCHANGED budget /\ reactor.work.calm =>
         /\ files = Restored(reactor.work.turnCount)
         /\ {<<c.turn, c.count>> : c \in memory'.checkpoints}
              = {<<provider.conversation[i], i>> : i \in 1 .. Len(provider.conversation)}]_vars

\* Both workers have drained their queues.
Drained ==
    /\ ingestion.queue = <<>> /\ ingestion.reading = <<>>
    /\ reactor.domain = <<>> /\ reactor.runtime = <<>> /\ reactor.work = Idle

\* Nothing is left open when the workers have drained: each placeholder has been
\* replaced by a capture or the failure of its capture is told, and each revert asked
\* for is recorded or told as a failure.  The exceptions: a dispatch that was to tell a
\* failure and failed itself, which the reactor swallows (untold, lost), and what a
\* crash found unfinished, which nothing takes up again (orphaned, lost).
NothingLeftOpen ==
    Drained =>
      /\ \A c \in Placeholders : c.turn \in past.told \cup past.untold \cup past.orphaned
      /\ past.asked = past.settled + past.lost

\* A checkpoint that was not taken while its turn ran holds all the edits of its
\* turn, as long as nothing is reverted.
CapturesAreComplete ==
    \A c \in memory.checkpoints :
        c.captured /\ c.turn # provider.turn /\ c.turn \notin past.early /\ past.asked = 0 =>
            {c.turn} \X (1 .. provider.edits[c.turn]) \subseteq refs[c.count]

=============================================================================
