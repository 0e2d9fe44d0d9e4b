------------------------ MODULE OrchestrationEngine ------------------------
(***************************************************************************)
(* The command worker of OrchestrationEngine.ts over its SQLite store.     *)
(*                                                                         *)
(* Clients and reactors dispatch commands into an unbounded queue; one     *)
(* worker takes them one at a time, answers a command it has already       *)
(* settled from its receipt, and otherwise decides it, appends its events, *)
(* projects them and writes the receipt in one transaction, then installs  *)
(* the new read model, publishes the events and answers.  Every store      *)
(* call is a step of its own, so that it can fail and the process can die  *)
(* between any two.                                                        *)
(***************************************************************************)
EXTENDS Decider

CONSTANTS
    CommandIds,     \* command ids; a client sends one id once or several times
    Body,           \* the command each id stands for
    NumProjectors,  \* projectors of the pipeline (nine in ProjectionPipeline.ts)
    ReadLimit,      \* DEFAULT_READ_FROM_SEQUENCE_LIMIT (1000 in the code)
    Transactional,  \* TRUE for SQLite; FALSE for an event store whose append
                    \* survives a rollback, which the engine must reconcile with
    \* Bounds of the model, none of them in the code:
    MaxRequests, MaxFaults, MaxCrashes, MaxUpgrades

ASSUME EngineAssumption ==
    /\ Body \in [CommandIds -> Command]
    /\ \A c \in CommandIds : Body[c].type \in ProjectCommandTypes => Body[c].thread = None
    /\ NumProjectors \in Nat
    /\ ReadLimit \in Nat /\ ReadLimit >= 2   \* a command yields at most two events
    /\ Transactional \in BOOLEAN
    /\ {MaxRequests, MaxFaults, MaxCrashes, MaxUpgrades} \subseteq Nat

Projectors == 1 .. NumProjectors

VARIABLES
    \* On disk.
    log,        \* orchestration_events; an event's sequence is its position
    receipts,   \* orchestration_command_receipts
    cursor,     \* projection_state.last_applied_sequence, 0 for a missing row
    applied,    \* the sequences each projector has applied to its tables
    \* In the process.
    pc,         \* the step the process is about to take
    readModel,  \* the in-memory read model
    queue,      \* commandQueue: positions in requests
    cur,        \* the request being processed, 0 for none
    startSeq,   \* dispatchStartSequence
    tx,         \* the open transaction, or the replay of a reconciliation
    err,        \* why the command being processed failed
    outbox,     \* sequences still to publish
    published,  \* sequences published since the process started
    bootLength, \* length of the log when the worker started
    boot,       \* progress of projectionPipeline.bootstrap
    \* At the callers.
    requests,   \* the command id of each dispatch call
    answers,    \* what each dispatch call has returned
    \* Bounds.
    budget

disk     == <<log, receipts, cursor, applied>>
work     == <<cur, startSeq, tx, err>>
delivery == <<outbox, published, bootLength>>
callers  == <<requests, answers>>
vars     == <<disk, pc, readModel, queue, work, delivery, boot, callers, budget>>

Entry   == [command : CommandIds, event : Event]
Receipt == [status : {"none", "accepted", "rejected"}, seq : Nat]
Answer  == [status : {"pending", "accepted", "rejected", "previouslyRejected",
                      "storeFailed", "lost"},
            seq : Nat]
Tx      == [todo : Seq(Entry), done : Seq(Entry), model : ReadModel, receipt : Receipt]

NoReceipt   == [status |-> "none", seq |-> 0]
NoTx        == [todo |-> <<>>, done |-> <<>>, model |-> EmptyReadModel, receipt |-> NoReceipt]
Outcome(s)  == [status |-> s, seq |-> 0]
Accepted(n) == [status |-> "accepted", seq |-> n]

Starting == {"bootstrap", "load"}
Serving  == {"idle", "lookup", "append", "project", "receipt", "commit", "install",
             "publish", "reconcile", "replay", "reject", "fail"}

\* The command of the request being processed.
CurrentCommand == requests[cur]

\* The sequences of the events of s when the first one has sequence n + 1.
SequencesFrom(n, s) == [i \in 1 .. Len(s) |-> n + i]

---------------------------------------------------------------------------
Init ==
    /\ log = <<>>
    /\ receipts = [c \in CommandIds |-> NoReceipt]
    /\ cursor = [p \in Projectors |-> 0]
    /\ applied = [p \in Projectors |-> {}]
    /\ pc = "down"
    /\ readModel = EmptyReadModel
    /\ queue = <<>>
    /\ cur = 0 /\ startSeq = 0 /\ tx = NoTx /\ err = "none"
    /\ outbox = <<>> /\ published = <<>> /\ bootLength = 0
    /\ boot = [projector |-> 1, read |-> 0]
    /\ requests = <<>> /\ answers = <<>>
    /\ budget = [faults |-> MaxFaults, crashes |-> MaxCrashes, upgrades |-> MaxUpgrades]

---------------------------------------------------------------------------
(* Startup: makeOrchestrationEngine before the worker is forked.           *)

Restart ==
    /\ pc = "down"
    /\ pc' = "bootstrap"
    /\ boot' = [projector |-> 1, read |-> 0]
    /\ UNCHANGED <<disk, readModel, queue, work, delivery, callers, budget>>

\* bootstrapProjector: one event of the stream readFromSequence(cursor), each
\* in its own transaction.  The stream ends at the log's end or at ReadLimit.
BootstrapEvent ==
    LET p == boot.projector IN
    /\ pc = "bootstrap"
    /\ p \in Projectors
    /\ boot.read < ReadLimit
    /\ cursor[p] < Len(log)
    /\ cursor' = [cursor EXCEPT ![p] = @ + 1]
    /\ applied' = [applied EXCEPT ![p] = @ \cup {cursor[p] + 1}]
    /\ boot' = [boot EXCEPT !.read = @ + 1]
    /\ UNCHANGED <<log, receipts, pc, readModel, queue, work, delivery, callers, budget>>

\* Mutant: the stream is left before its end.
BootstrapSkipsProjector ==
    /\ pc = "bootstrap"
    /\ boot.projector \in Projectors
    /\ boot' = [projector |-> boot.projector + 1, read |-> 0]
    /\ UNCHANGED <<disk, pc, readModel, queue, work, delivery, callers, budget>>

BootstrapNextProjector ==
    LET p == boot.projector IN
    /\ pc = "bootstrap"
    /\ p \in Projectors
    /\ boot.read >= ReadLimit \/ cursor[p] >= Len(log)
    /\ boot' = [projector |-> p + 1, read |-> 0]
    /\ UNCHANGED <<disk, pc, readModel, queue, work, delivery, callers, budget>>

BootstrapDone ==
    /\ pc = "bootstrap"
    /\ boot.projector \notin Projectors
    /\ pc' = "load"
    /\ UNCHANGED <<disk, readModel, queue, work, delivery, boot, callers, budget>>

\* Stream.runForEach(eventStore.readAll()): readAll has no limit.
LoadEvent ==
    /\ pc = "load"
    /\ readModel.seq < Len(log)
    /\ readModel' = ProjectEvent(readModel, log[readModel.seq + 1].event, readModel.seq + 1)
    /\ UNCHANGED <<disk, pc, queue, work, delivery, boot, callers, budget>>

\* Mutant: the worker is forked without waiting for the read model.
StartWorkerEarly ==
    /\ pc = "load"
    /\ pc' = "idle"
    /\ bootLength' = Len(log)
    /\ UNCHANGED <<disk, readModel, queue, work, outbox, published, boot, callers, budget>>

StartWorker ==
    /\ pc = "load"
    /\ readModel.seq >= Len(log)
    /\ pc' = "idle"
    /\ bootLength' = Len(log)
    /\ UNCHANGED <<disk, readModel, queue, work, outbox, published, boot, callers, budget>>

---------------------------------------------------------------------------
(* Callers.                                                                *)

\* Mutant: a command is queued without a Deferred to answer.
DispatchWithoutDeferred(c) ==
    /\ pc \in Serving
    /\ Len(requests) < MaxRequests
    /\ requests' = Append(requests, c)
    /\ queue' = Append(queue, Len(requests) + 1)
    /\ UNCHANGED <<disk, pc, readModel, work, answers, delivery, boot, budget>>

\* dispatch: a new Deferred and a place in the queue.  Nothing stops a caller
\* from sending a command id again, answered or not.
Dispatch(c) ==
    /\ pc \in Serving
    /\ Len(requests) < MaxRequests
    /\ requests' = Append(requests, c)
    /\ answers' = Append(answers, Outcome("pending"))
    /\ queue' = Append(queue, Len(requests) + 1)
    /\ UNCHANGED <<disk, pc, readModel, work, delivery, boot, budget>>

\* Deferred.succeed or Deferred.fail, which ends processEnvelope.
Settle(answer) ==
    /\ answers' = [answers EXCEPT ![cur] = answer]
    /\ pc' = "idle"
    /\ cur' = 0 /\ startSeq' = 0 /\ tx' = NoTx /\ err' = "none"

---------------------------------------------------------------------------
(* processEnvelope, the path of a command that succeeds.                   *)

TakeEnvelope ==
    /\ pc = "idle"
    /\ queue # <<>>
    /\ cur' = Head(queue)
    /\ queue' = Tail(queue)
    /\ startSeq' = readModel.seq
    /\ pc' = "lookup"
    /\ UNCHANGED <<disk, readModel, tx, err, delivery, boot, callers, budget>>

\* Mutant: a repeated command is answered with the head of the log.
AnswerWithHead ==
    /\ pc = "lookup"
    /\ receipts[CurrentCommand].status # "none"
    /\ IF receipts[CurrentCommand].status = "accepted"
       THEN Settle(Accepted(readModel.seq))
       ELSE Settle(Outcome("previouslyRejected"))
    /\ UNCHANGED <<disk, readModel, queue, delivery, boot, requests, budget>>

\* The command has a receipt: answer from it.
AnswerFromReceipt ==
    /\ pc = "lookup"
    /\ receipts[CurrentCommand].status # "none"
    /\ IF receipts[CurrentCommand].status = "accepted"
       THEN Settle(Accepted(receipts[CurrentCommand].seq))
       ELSE Settle(Outcome("previouslyRejected"))
    /\ UNCHANGED <<disk, readModel, queue, delivery, boot, requests, budget>>

\* Mutant: the receipt lookup is ignored.
DecideWithoutLookup ==
    LET events == Decide(readModel, Body[CurrentCommand]) IN
    /\ pc = "lookup"
    /\ \/ /\ events = <<>>
          /\ err' = "invariant"
          /\ pc' = "reconcile"
          /\ UNCHANGED tx
       \/ /\ events # <<>>
          /\ tx' = [NoTx EXCEPT !.todo = [i \in 1 .. Len(events) |->
                                            [command |-> CurrentCommand, event |-> events[i]]],
                                !.model = readModel]
          /\ pc' = "append"
          /\ UNCHANGED err
    /\ UNCHANGED <<disk, readModel, queue, cur, startSeq, delivery, boot, callers, budget>>

\* No receipt: decide the command against the in-memory read model and open
\* the transaction, or leave through the error path.
DecideCommand ==
    LET events == Decide(readModel, Body[CurrentCommand]) IN
    /\ pc = "lookup"
    /\ receipts[CurrentCommand].status = "none"
    /\ \/ /\ events = <<>>
          /\ err' = "invariant"
          /\ pc' = "reconcile"
          /\ UNCHANGED tx
       \/ /\ events # <<>>
          /\ tx' = [NoTx EXCEPT !.todo = [i \in 1 .. Len(events) |->
                                            [command |-> CurrentCommand, event |-> events[i]]],
                                !.model = readModel]
          /\ pc' = "append"
          /\ UNCHANGED err
    /\ UNCHANGED <<disk, readModel, queue, cur, startSeq, delivery, boot, callers, budget>>

\* The sequence of the event the transaction appends next.
NextSequence == IF Transactional THEN Len(log) + Len(tx.done) + 1 ELSE Len(log) + 1

\* eventStore.append and the in-memory projectEvent.
AppendEvent ==
    /\ pc = "append"
    /\ tx' = [tx EXCEPT !.todo = Tail(@),
                        !.done = Append(@, Head(tx.todo)),
                        !.model = ProjectEvent(@, Head(tx.todo).event, NextSequence)]
    /\ log' = IF Transactional THEN log ELSE Append(log, Head(tx.todo))
    /\ pc' = "project"
    /\ UNCHANGED <<receipts, cursor, applied, readModel, queue, cur, startSeq, err,
                   delivery, boot, callers, budget>>

\* projectionPipeline.projectEvent: rows and cursors are part of the
\* transaction and reach the disk with it (Commit).
ProjectAppended ==
    /\ pc = "project"
    /\ pc' = IF tx.todo = <<>> THEN "receipt" ELSE "append"
    /\ UNCHANGED <<disk, readModel, queue, work, delivery, boot, callers, budget>>

\* Mutant: the receipt is written outside the transaction.
WriteReceiptOutside ==
    /\ pc = "receipt"
    /\ tx' = [tx EXCEPT !.receipt = [status |-> "accepted", seq |-> tx.model.seq]]
    /\ receipts' = [receipts EXCEPT ![CurrentCommand] = tx'.receipt]
    /\ pc' = "commit"
    /\ UNCHANGED <<log, cursor, applied, readModel, queue, cur, startSeq, err, delivery, boot,
                   callers, budget>>

WriteReceipt ==
    /\ pc = "receipt"
    /\ tx' = [tx EXCEPT !.receipt = [status |-> "accepted", seq |-> tx.model.seq]]
    /\ pc' = "commit"
    /\ UNCHANGED <<disk, readModel, queue, cur, startSeq, err, delivery, boot, callers, budget>>

\* Mutant: the receipt is left out of the transaction.
CommitWithoutReceipt ==
    LET first == tx.model.seq - Len(tx.done) IN
    /\ pc = "commit"
    /\ log' = IF Transactional THEN log \o tx.done ELSE log
    /\ cursor' = [p \in Projectors |-> tx.model.seq]
    /\ applied' = [p \in Projectors |-> applied[p] \cup (first + 1 .. tx.model.seq)]
    /\ pc' = "install"
    /\ UNCHANGED <<receipts, readModel, queue, work, delivery, boot, callers, budget>>

Commit ==
    LET first == tx.model.seq - Len(tx.done) IN
    /\ pc = "commit"
    /\ log' = IF Transactional THEN log \o tx.done ELSE log
    /\ receipts' = [receipts EXCEPT ![CurrentCommand] = tx.receipt]
    /\ cursor' = [p \in Projectors |-> tx.model.seq]
    /\ applied' = [p \in Projectors |-> applied[p] \cup (first + 1 .. tx.model.seq)]
    /\ pc' = "install"
    /\ UNCHANGED <<readModel, queue, work, delivery, boot, callers, budget>>

\* readModel = committedCommand.nextReadModel, after the commit returned.
InstallReadModel ==
    /\ pc = "install"
    /\ readModel' = tx.model
    /\ outbox' = SequencesFrom(tx.model.seq - Len(tx.done), tx.done)
    /\ pc' = "publish"
    /\ UNCHANGED <<disk, queue, work, published, bootLength, boot, callers, budget>>

PublishEvent ==
    /\ pc = "publish"
    /\ outbox # <<>>
    /\ published' = Append(published, Head(outbox))
    /\ outbox' = Tail(outbox)
    /\ UNCHANGED <<disk, pc, readModel, queue, work, bootLength, boot, callers, budget>>

AnswerAccepted ==
    /\ pc = "publish"
    /\ outbox = <<>>
    /\ err = "none"
    /\ Settle(Accepted(readModel.seq))
    /\ UNCHANGED <<disk, readModel, queue, delivery, boot, requests, budget>>

---------------------------------------------------------------------------
(* processEnvelope, the error path (Effect.catch).                         *)

HasFault  == budget.faults > 0
SpendFault == budget' = [budget EXCEPT !.faults = @ - 1]

\* A store call fails; the transaction, if one is open, rolls back.
StoreFault ==
    /\ pc \in {"lookup", "append", "project", "receipt", "commit"}
    /\ HasFault /\ SpendFault
    /\ err' = "store"
    /\ tx' = NoTx
    /\ pc' = "reconcile"
    /\ UNCHANGED <<disk, readModel, queue, cur, startSeq, delivery, boot, callers>>

\* reconcileReadModelAfterDispatchFailure: read what was persisted since the
\* dispatch started.
ReadPersisted ==
    LET upTo == IF Len(log) < startSeq + ReadLimit THEN Len(log) ELSE startSeq + ReadLimit IN
    /\ pc = "reconcile"
    /\ tx' = [NoTx EXCEPT !.todo = SubSeq(log, startSeq + 1, upTo), !.model = readModel]
    /\ pc' = "replay"
    /\ UNCHANGED <<disk, readModel, queue, cur, startSeq, err, delivery, boot, callers, budget>>

\* The read fails: the reconciliation is skipped with a warning.
ReconcileFault ==
    /\ pc = "reconcile"
    /\ HasFault /\ SpendFault
    /\ pc' = "publish"
    /\ UNCHANGED <<disk, readModel, queue, work, delivery, boot, callers>>

ReplayPersisted ==
    /\ pc = "replay"
    /\ tx.todo # <<>>
    /\ tx' = [tx EXCEPT !.todo = Tail(@),
                        !.done = Append(@, Head(tx.todo)),
                        !.model = ProjectEvent(@, Head(tx.todo).event,
                                               startSeq + Len(tx.done) + 1)]
    /\ UNCHANGED <<disk, pc, readModel, queue, cur, startSeq, err, delivery, boot,
                   callers, budget>>

\* Mutant: the replayed read model is dropped, its events are published.
PublishReplayedOnly ==
    /\ pc = "replay"
    /\ tx.todo = <<>>
    /\ outbox' = SequencesFrom(startSeq, tx.done)
    /\ pc' = "publish"
    /\ UNCHANGED <<disk, readModel, queue, work, published, bootLength, boot, callers, budget>>

\* Mutant: the replayed read model is installed, its events are not published.
InstallReplayedSilently ==
    /\ pc = "replay"
    /\ tx.todo = <<>>
    /\ readModel' = tx.model
    /\ outbox' = <<>>
    /\ pc' = "publish"
    /\ UNCHANGED <<disk, queue, work, published, bootLength, boot, callers, budget>>

InstallReplayed ==
    /\ pc = "replay"
    /\ tx.todo = <<>>
    /\ readModel' = tx.model
    /\ outbox' = SequencesFrom(startSeq, tx.done)
    /\ pc' = "publish"
    /\ UNCHANGED <<disk, queue, work, published, bootLength, boot, callers, budget>>

ReconcileDone ==
    /\ pc = "publish"
    /\ outbox = <<>>
    /\ err # "none"
    /\ pc' = IF err = "invariant" THEN "reject" ELSE "fail"
    /\ UNCHANGED <<disk, readModel, queue, work, delivery, boot, callers, budget>>

\* The rejected receipt; a failure to write it is swallowed.
WriteRejectedReceipt ==
    /\ pc = "reject"
    /\ \/ /\ receipts' = [receipts EXCEPT ![CurrentCommand] =
                            [status |-> "rejected", seq |-> readModel.seq]]
          /\ UNCHANGED budget
       \/ HasFault /\ SpendFault /\ UNCHANGED receipts
    /\ pc' = "fail"
    /\ UNCHANGED <<log, cursor, applied, readModel, queue, work, delivery, boot, callers>>

\* Mutant: a failed command is logged and nobody is told.
AnswerNobody ==
    /\ pc = "fail"
    /\ pc' = "idle"
    /\ cur' = 0 /\ startSeq' = 0 /\ tx' = NoTx /\ err' = "none"
    /\ UNCHANGED <<disk, readModel, queue, delivery, boot, callers, budget>>

AnswerFailed ==
    /\ pc = "fail"
    /\ Settle(Outcome(IF err = "invariant" THEN "rejected" ELSE "storeFailed"))
    /\ UNCHANGED <<disk, readModel, queue, delivery, boot, requests, budget>>

---------------------------------------------------------------------------
(* The process dies, or is replaced by a newer release.                    *)

\* Everything in memory is gone; a caller without an answer never gets one.
Crash ==
    /\ pc # "down"
    /\ budget.crashes > 0
    /\ budget' = [budget EXCEPT !.crashes = @ - 1]
    /\ pc' = "down"
    /\ readModel' = EmptyReadModel
    /\ queue' = <<>>
    /\ cur' = 0 /\ startSeq' = 0 /\ tx' = NoTx /\ err' = "none"
    /\ outbox' = <<>> /\ published' = <<>> /\ bootLength' = 0
    /\ boot' = [projector |-> 1, read |-> 0]
    /\ answers' = [r \in 1 .. Len(answers) |->
                     IF answers[r].status = "pending" THEN Outcome("lost") ELSE answers[r]]
    /\ UNCHANGED <<disk, requests>>

\* A release adds a projector: a migration creates its empty table and there is
\* no projection_state row for it yet (013_ProjectionThreadProposedPlans.ts).
Upgrade(p) ==
    /\ pc = "down"
    /\ budget.upgrades > 0
    /\ budget' = [budget EXCEPT !.upgrades = @ - 1]
    /\ cursor' = [cursor EXCEPT ![p] = 0]
    /\ applied' = [applied EXCEPT ![p] = {}]
    /\ UNCHANGED <<log, receipts, pc, readModel, queue, work, delivery, boot, callers>>

---------------------------------------------------------------------------
Startup == Restart \/ BootstrapEvent \/ BootstrapNextProjector \/ BootstrapDone
           \/ LoadEvent \/ StartWorker

Worker  == TakeEnvelope \/ AnswerFromReceipt \/ DecideCommand \/ AppendEvent
           \/ ProjectAppended \/ WriteReceipt \/ Commit \/ InstallReadModel
           \/ PublishEvent \/ AnswerAccepted \/ ReadPersisted \/ ReplayPersisted
           \/ InstallReplayed \/ ReconcileDone \/ WriteRejectedReceipt \/ AnswerFailed

Environment == (\E c \in CommandIds : Dispatch(c)) \/ StoreFault \/ ReconcileFault
               \/ Crash \/ (\E p \in Projectors : Upgrade(p))

Next == Startup \/ Worker \/ Environment

Spec == Init /\ [][Next]_vars

\* The worker fiber always runs on, and the supervisor starts a process that
\* exited (serverSupervisor.ts, deploy/systemd).
FairSpec == Spec /\ WF_vars(Startup) /\ WF_vars(Worker)
---------------------------------------------------------------------------
(* Properties.                                                             *)

TypeOK ==
    /\ log \in Seq(Entry)
    /\ receipts \in [CommandIds -> Receipt]
    /\ cursor \in [Projectors -> Nat]
    /\ applied \in [Projectors -> SUBSET Nat]
    /\ pc \in {"down"} \cup Starting \cup Serving
    /\ readModel \in ReadModel
    /\ requests \in Seq(CommandIds)
    /\ answers \in Seq(Answer)
    /\ Len(answers) = Len(requests)
    /\ queue \in Seq(1 .. Len(requests))
    /\ cur \in 0 .. Len(requests)
    /\ startSeq \in Nat
    /\ tx \in Tx
    /\ err \in {"none", "invariant", "store"}
    /\ outbox \in Seq(Nat)
    /\ published \in Seq(Nat)
    /\ bootLength \in Nat
    /\ boot \in [projector : Nat, read : Nat]
    /\ budget \in [faults : Nat, crashes : Nat, upgrades : Nat]

\* The read model after the first n events of the log.
Replay(n) ==
    LET m[i \in 0 .. n] ==
          IF i = 0 THEN EmptyReadModel ELSE ProjectEvent(m[i - 1], log[i].event, i)
    IN  m[n]

\* The positions command c's events have in the log.
PositionsOf(c) == {i \in 1 .. Len(log) : log[i].command = c}

\* Receipts and log agree: a command has events exactly when its receipt says
\* accepted, and the receipt points at the last of them, at every instant and
\* so at every crash.  A lookup can therefore never answer for a command that
\* left no events, nor let one that did run again.
ReceiptsMatchLog ==
    Transactional =>
      \A c \in CommandIds :
        /\ (receipts[c].status = "accepted") <=> (PositionsOf(c) # {})
        /\ receipts[c].status = "accepted" =>
             /\ receipts[c].seq \in PositionsOf(c)
             /\ \A i \in PositionsOf(c) : i <= receipts[c].seq

\* However often a command id is dispatched, and whatever fails or crashes in
\* between, its events are in the log at most once.
AppliedAtMostOnce ==
    Transactional =>
      \A i, j \in 1 .. Len(log) :
        (log[i].command = log[j].command /\ i # j) => log[i].event.type # log[j].event.type

\* The two events of a turn start reach the log together: a user message never
\* stands there without the request for its turn next to it.
TurnStartIsWhole ==
    Transactional =>
      \A i \in 1 .. Len(log) :
        Body[log[i].command].type = "thread.turn.start" =>
          IF log[i].event.type = "thread.message-sent"
          THEN /\ i < Len(log)
               /\ log[i + 1].command = log[i].command
               /\ log[i + 1].event.type = "thread.turn-start-requested"
          ELSE /\ i > 1
               /\ log[i - 1].command = log[i].command
               /\ log[i - 1].event.type = "thread.message-sent"

\* A caller told "accepted, sequence n" can rely on it for good: event n is its
\* command's last, before and after any crash, and every caller of that command
\* is told the same n.
AcceptedAnswersAreDurable ==
    \A r \in 1 .. Len(requests) :
      answers[r].status = "accepted" =>
        /\ answers[r].seq \in PositionsOf(requests[r])
        /\ \A i \in PositionsOf(requests[r]) : i <= answers[r].seq

\* Subscribers see the events committed since the process started, each once,
\* in log order and without a gap; when the worker is idle they have seen all.
PublishedInLogOrder ==
    /\ \A i \in 1 .. Len(published) : published[i] = bootLength + i
    /\ pc = "idle" => bootLength + Len(published) = Len(log)

\* The in-memory read model any reader may fetch at any moment is the replay of
\* a committed prefix of the log, and between commands of the whole log.
ReadModelIsReplay ==
    /\ readModel.seq <= Len(log)
    /\ readModel = Replay(readModel.seq)
    /\ pc = "idle" => readModel.seq = Len(log)

\* While commands are served every projector has applied every event.
ProjectionsComplete ==
    pc \in Serving =>
      \A p \in Projectors : cursor[p] = Len(log) /\ applied[p] = 1 .. Len(log)

\* The log tells a possible story of every thread: it is created once, before
\* anything else happens to it, and it is not archived twice in a row.  This
\* needs every decision to be taken on the state the log really is in.
LifecycleRespected ==
    \A i \in 1 .. Len(log) :
      LET e == log[i].event
          Earlier(type) == {j \in 1 .. i - 1 : /\ log[j].event.type = type
                                               /\ log[j].event.thread = e.thread}
      IN  /\ e.type = "thread.created" => Earlier("thread.created") = {}
          /\ (e.thread # None /\ e.type # "thread.created") => Earlier("thread.created") # {}
          /\ e.type = "thread.archived" =>
               \A j \in Earlier("thread.archived") :
                 \E k \in Earlier("thread.unarchived") : j < k

\* Nothing that was committed is ever taken back: the log only grows at its end
\* and a receipt, once written, never changes.
HistoryIsImmutable ==
    [][/\ Len(log) <= Len(log')
       /\ \A i \in 1 .. Len(log) : log'[i] = log[i]
       /\ \A c \in CommandIds : receipts[c].status # "none" => receipts'[c] = receipts[c]]_vars

\* Every dispatch call returns, or its process dies under it: no failure of the
\* store stops the worker from serving the commands queued behind it.
EveryDispatchSettles ==
    \A r \in 1 .. MaxRequests :
      (r <= Len(answers)) ~> (r <= Len(answers) /\ answers[r].status # "pending")
=============================================================================
