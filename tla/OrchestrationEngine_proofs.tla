--------------------- MODULE OrchestrationEngine_proofs ---------------------
(***************************************************************************)
(* Theorems about OrchestrationEngine, for every set of projects, threads, *)
(* command ids and commands, every number of projectors and every bound.   *)
(*                                                                         *)
(* The invariants come in layers.  TypeInv adds to TypeOK what the worker's *)
(* program counter says about the request and the transaction in hand.     *)
(***************************************************************************)
EXTENDS OrchestrationEngine, SequenceTheorems, TLAPS

---------------------------------------------------------------------------
(* Lemmas about the decider.                                               *)

\* The type of a decided event is one the event store knows.
LEMMA EventTypeOfType == ASSUME NEW type PROVE EventTypeOf(type) \in EventTypes
  BY DEF EventTypeOf, EventTypes

\* A decided event names what its command names.
LEMMA EventForType ==
  ASSUME NEW c \in Command, NEW type \in EventTypes
  PROVE  EventFor(c, type) \in Event
  BY DEF EventFor, Event, Command

\* decideOrchestrationCommand yields no event, one, or the two of a turn start.
LEMMA DecideShape ==
  ASSUME NEW m, NEW c \in Command
  PROVE  /\ Decide(m, c) \in Seq(Event)
         /\ \/ Decide(m, c) = <<>>
            \/ /\ c.type # "thread.turn.start"
               /\ Len(Decide(m, c)) = 1
            \/ /\ c.type = "thread.turn.start"
               /\ Len(Decide(m, c)) = 2
               /\ Decide(m, c)[1].type = "thread.message-sent"
               /\ Decide(m, c)[2].type = "thread.turn-start-requested"
<1> DEFINE d1 == EventFor(c, "thread.message-sent")
           d2 == EventFor(c, "thread.turn-start-requested")
           d  == EventFor(c, EventTypeOf(c.type))
<1>1. d1 \in Event /\ d2 \in Event /\ d \in Event
  BY EventForType, EventTypeOfType DEF EventTypes
<1>2. d1.type = "thread.message-sent" /\ d2.type = "thread.turn-start-requested"
  BY DEF EventFor
<1>3. CASE ~Accepts(m, c)
  BY <1>3 DEF Decide
<1>4. CASE Accepts(m, c) /\ c.type = "thread.turn.start"
  <2>1. Decide(m, c) = <<d1, d2>>
    BY <1>4 DEF Decide
  <2> HIDE DEF d1, d2
  <2> QED BY <2>1, <1>1, <1>2, <1>4
<1>5. CASE Accepts(m, c) /\ c.type # "thread.turn.start"
  <2>1. Decide(m, c) = <<d>>
    BY <1>5 DEF Decide
  <2> HIDE DEF d
  <2> QED BY <2>1, <1>1, <1>5
<1> QED BY <1>3, <1>4, <1>5

---------------------------------------------------------------------------
(* Lemmas about the projector.                                             *)

LEMMA EmptyReadModelType == EmptyReadModel \in ReadModel
  BY DEF EmptyReadModel, ReadModel, ThreadState, Presence

LEMMA ProjectsAfterType ==
  ASSUME NEW ps \in [Projects -> Presence], NEW e \in Event
  PROVE  ProjectsAfter(ps, e) \in [Projects -> Presence]
  BY DEF ProjectsAfter, Presence

LEMMA ThreadsAfterType ==
  ASSUME NEW ts \in [Threads -> ThreadState], NEW e \in Event
  PROVE  ThreadsAfter(ts, e) \in [Threads -> ThreadState]
<1> DEFINE th == ts[e.thread]
<1>1. CASE e.thread \notin Threads
  BY <1>1 DEF ThreadsAfter
<1>2. CASE e.thread \in Threads
  <2>1. th \in ThreadState
    BY <1>2
  <2>2. FreshThread(e.project) \in ThreadState
    BY DEF FreshThread, ThreadState, Presence, Event
  <2>3. [th EXCEPT !.presence = "deleted"] \in ThreadState
    BY <2>1 DEF ThreadState, Presence
  <2>4. \A b \in BOOLEAN : [th EXCEPT !.archived = b] \in ThreadState
    BY <2>1 DEF ThreadState
  <2>5. [th EXCEPT !.plans = @ \cup ({e.plan} \ {None})] \in ThreadState
    BY <2>1 DEF ThreadState, Event
  <2>6. [th EXCEPT !.plans = @ \ {e.plan}] \in ThreadState
    BY <2>1 DEF ThreadState
  <2>7. \A new \in ThreadState : UpdateThread(ts, e.thread, new) \in [Threads -> ThreadState]
    BY DEF UpdateThread
  <2>8. [ts EXCEPT ![e.thread] = FreshThread(e.project)] \in [Threads -> ThreadState]
    BY <2>2
  <2> HIDE DEF th
  <2> QED BY <1>2, <2>3, <2>4, <2>5, <2>6, <2>7, <2>8 DEF ThreadsAfter, th
<1> QED BY <1>1, <1>2

LEMMA ProjectEventType ==
  ASSUME NEW m \in ReadModel, NEW e \in Event, NEW n \in Nat
  PROVE  /\ ProjectEvent(m, e, n) \in ReadModel
         /\ ProjectEvent(m, e, n).seq = n
<1>1. ProjectsAfter(m.projects, e) \in [Projects -> Presence]
  BY ProjectsAfterType DEF ReadModel
<1>2. ThreadsAfter(m.threads, e) \in [Threads -> ThreadState]
  BY ThreadsAfterType DEF ReadModel
<1> QED BY <1>1, <1>2 DEF ProjectEvent, ReadModel

---------------------------------------------------------------------------
(* Lemmas about sequences.                                                 *)

LEMMA TailIn ==
  ASSUME NEW S, NEW s \in Seq(S), s # <<>>
  PROVE  /\ Head(s) \in S
         /\ Tail(s) \in Seq(S)
         /\ Len(Tail(s)) = Len(s) - 1
         /\ Len(s) > 0
  BY HeadTailProperties, LenProperties, EmptySeq

\* The sequences of a transaction's events are numbers.
LEMMA SequencesFromType ==
  ASSUME NEW S, NEW s \in Seq(S), NEW n \in Nat
  PROVE  /\ SequencesFrom(n, s) \in Seq(Nat)
         /\ Len(SequencesFrom(n, s)) = Len(s)
         /\ \A i \in 1 .. Len(s) : SequencesFrom(n, s)[i] = n + i
<1>1. Len(s) \in Nat
  BY LenProperties
<1>2. SequencesFrom(n, s) \in [1 .. Len(s) -> Nat]
  BY <1>1 DEF SequencesFrom
<1> QED BY <1>1, <1>2 DEF SequencesFrom

---------------------------------------------------------------------------
(* Type correctness.                                                       *)

\* The pcs at which a transaction is open, and those at which a request is
\* being processed.
InTx == {"append", "project", "receipt", "commit"}
Busy == Serving \ {"idle"}

\* The request in hand is one that was made.
CurInv == pc \in Busy => cur # 0

\* Before an append something is left to append.
TodoInv == pc = "append" => tx.todo # <<>>

\* The events of the transaction end at the sequence of its read model.
FitInv ==
    pc \in InTx \cup {"install"} =>
      /\ Len(tx.done) <= tx.model.seq
      /\ ~Transactional => Len(tx.done) <= Len(log)

TypeInv == TypeOK /\ CurInv /\ TodoInv /\ FitInv

LEMMA NoTxType == NoTx \in Tx
  BY EmptyReadModelType DEF NoTx, Tx, NoReceipt, Receipt

\* While a request is processed its command is one of CommandIds.
LEMMA CurrentType ==
  ASSUME TypeInv, pc \in Busy
  PROVE  /\ cur \in 1 .. Len(requests)
         /\ CurrentCommand \in CommandIds
         /\ Body[CurrentCommand] \in Command
<1>1. cur \in 1 .. Len(requests)
  BY DEF TypeInv, TypeOK, CurInv
<1>2. CurrentCommand \in CommandIds
  BY <1>1, ElementOfSeq DEF CurrentCommand, TypeInv, TypeOK
<1> QED BY <1>1, <1>2, EngineAssumption

\* The end of processEnvelope keeps the types of what it assigns.
LEMMA SettleType ==
  ASSUME TypeInv, pc \in Busy, NEW a \in Answer, Settle(a)
  PROVE  /\ answers' \in Seq(Answer)
         /\ Len(answers') = Len(answers)
         /\ cur' = 0 /\ startSeq' = 0 /\ tx' \in Tx /\ err' = "none"
         /\ pc' = "idle"
<1>1. answers' = [answers EXCEPT ![cur] = a]
  BY DEF Settle
<1>2. cur \in 1 .. Len(answers)
  BY CurrentType DEF TypeInv, TypeOK
<1>3. answers \in Seq(Answer)
  BY DEF TypeInv, TypeOK
<1>4. answers' \in Seq(Answer) /\ Len(answers') = Len(answers)
  BY <1>1, <1>2, <1>3, ExceptSeq
<1> QED BY <1>4, NoTxType DEF Settle

LEMMA TypeInit == Init => TypeInv
<1> SUFFICES ASSUME Init PROVE TypeInv
  OBVIOUS
<1>1. /\ receipts \in [CommandIds -> Receipt]
      /\ cursor \in [Projectors -> Nat]
      /\ applied \in [Projectors -> SUBSET Nat]
  BY DEF Init, NoReceipt, Receipt
<1>2. budget \in [faults : Nat, crashes : Nat, upgrades : Nat]
  BY EngineAssumption DEF Init
<1>3. /\ log \in Seq(Entry) /\ requests \in Seq(CommandIds) /\ answers \in Seq(Answer)
      /\ Len(answers) = Len(requests) /\ queue \in Seq(1 .. Len(requests))
      /\ outbox \in Seq(Nat) /\ published \in Seq(Nat)
      /\ cur = 0 /\ Len(requests) \in Nat /\ cur \in 0 .. Len(requests)
  BY DEF Init
<1> QED BY <1>1, <1>2, <1>3, EmptyReadModelType, NoTxType
        DEF Init, TypeInv, TypeOK, CurInv, TodoInv, FitInv, Busy, Serving, InTx

\* Every step keeps the types.
LEMMA TypeStep == TypeInv /\ [Next]_vars => TypeInv'
<1> SUFFICES ASSUME TypeInv, [Next]_vars PROVE TypeInv'
  OBVIOUS
<1> USE DEF disk, work, delivery, callers
<1>0. /\ Len(log) \in Nat /\ Len(requests) \in Nat /\ Len(queue) \in Nat
      /\ Len(tx.todo) \in Nat /\ Len(tx.done) \in Nat /\ Len(outbox) \in Nat
      /\ tx.todo \in Seq(Entry) /\ tx.done \in Seq(Entry) /\ tx.model \in ReadModel
      /\ tx.model.seq \in Nat /\ readModel.seq \in Nat
      /\ cur \in Nat /\ startSeq \in Nat /\ Len(answers) = Len(requests)
  BY LenProperties DEF TypeInv, TypeOK, Tx, ReadModel
<1>a. ASSUME HasFault, SpendFault PROVE budget' \in [faults : Nat, crashes : Nat, upgrades : Nat]
  <2>1. budget \in [faults : Nat, crashes : Nat, upgrades : Nat] /\ budget.faults > 0
    BY <1>a DEF HasFault, TypeInv, TypeOK
  <2>2. budget' = [budget EXCEPT !.faults = budget.faults - 1]
    BY <1>a DEF SpendFault
  <2> QED BY <2>1, <2>2
<1>1. CASE Restart
  BY <1>1 DEF Restart, TypeInv, TypeOK, CurInv, TodoInv, FitInv, Busy, Serving, Starting, InTx
<1>2. CASE BootstrapEvent
  <2> DEFINE p == boot.projector
  <2>1. /\ cursor \in [Projectors -> Nat] /\ applied \in [Projectors -> SUBSET Nat]
        /\ boot \in [projector : Nat, read : Nat]
    BY DEF TypeInv, TypeOK
  <2>2. /\ p \in Projectors
        /\ cursor' = [cursor EXCEPT ![p] = cursor[p] + 1]
        /\ applied' = [applied EXCEPT ![p] = applied[p] \cup {cursor[p] + 1}]
        /\ boot' = [boot EXCEPT !.read = boot.read + 1]
    BY <1>2 DEF BootstrapEvent
  <2>3. boot' \in [projector : Nat, read : Nat]
    BY <2>1, <2>2
  <2>4. cursor' \in [Projectors -> Nat]
    BY <2>1, <2>2
  <2>5. applied' \in [Projectors -> SUBSET Nat]
    BY <2>1, <2>2
  <2> QED BY <1>2, <2>3, <2>4, <2>5
          DEF BootstrapEvent, TypeInv, TypeOK, CurInv, TodoInv, FitInv, Busy, Serving, InTx
<1>3. CASE BootstrapNextProjector
  BY <1>3 DEF BootstrapNextProjector, Projectors, TypeInv, TypeOK, CurInv, TodoInv, FitInv,
              Busy, Serving, InTx
<1>4. CASE BootstrapDone
  BY <1>4 DEF BootstrapDone, TypeInv, TypeOK, CurInv, TodoInv, FitInv, Busy, Serving, Starting,
              InTx
<1>5. CASE LoadEvent
  <2>0. /\ log \in Seq(Entry) /\ readModel \in ReadModel /\ readModel.seq < Len(log)
        /\ readModel' = ProjectEvent(readModel, log[readModel.seq + 1].event, readModel.seq + 1)
    BY <1>5 DEF LoadEvent, TypeInv, TypeOK
  <2>1. log[readModel.seq + 1] \in Entry
    BY <2>0, <1>0, ElementOfSeq
  <2>2. readModel' \in ReadModel
    <3>1. log[readModel.seq + 1].event \in Event /\ readModel.seq + 1 \in Nat
      BY <1>0, <2>1 DEF Entry
    <3> QED BY <2>0, <3>1, ProjectEventType
  <2> QED BY <1>5, <2>2 DEF LoadEvent, TypeInv, TypeOK, CurInv, TodoInv, FitInv, Busy, Serving,
                           InTx
<1>6. CASE StartWorker
  BY <1>6, <1>0 DEF StartWorker, TypeInv, TypeOK, CurInv, TodoInv, FitInv, Busy, Serving, InTx
<1>7. ASSUME NEW c \in CommandIds, Dispatch(c) PROVE TypeInv'
  <2>0. /\ requests \in Seq(CommandIds) /\ answers \in Seq(Answer)
        /\ requests' = Append(requests, c) /\ answers' = Append(answers, Outcome("pending"))
        /\ queue' = Append(queue, Len(requests) + 1)
        /\ Outcome("pending") \in Answer
    BY <1>7 DEF Dispatch, TypeInv, TypeOK, Outcome, Answer
  <2>1. /\ requests' \in Seq(CommandIds) /\ Len(requests') = Len(requests) + 1
        /\ answers' \in Seq(Answer) /\ Len(answers') = Len(answers) + 1
    BY <2>0, AppendProperties
  <2>2. queue \in Seq(1 .. Len(requests'))
    BY <2>1, <1>0, SeqMonotonic DEF TypeInv, TypeOK
  <2>3. queue' \in Seq(1 .. Len(requests'))
    BY <1>0, <2>0, <2>1, <2>2, AppendProperties
  <2>4. cur' \in 0 .. Len(requests')
    BY <1>7, <1>0, <2>1 DEF Dispatch, TypeInv, TypeOK
  <2> HIDE <2>0
  <2>5. TypeOK'
    BY <1>7, <1>0, <2>1, <2>3, <2>4 DEF Dispatch, TypeInv, TypeOK
  <2> QED BY <1>7, <2>5 DEF Dispatch, TypeInv, CurInv, TodoInv, FitInv
<1>8. CASE TakeEnvelope
  <2>1. queue' \in Seq(1 .. Len(requests)) /\ cur' \in 1 .. Len(requests)
    BY <1>8, TailIn DEF TakeEnvelope, TypeInv, TypeOK
  <2>2. cur' \in 0 .. Len(requests) /\ cur' # 0
    BY <1>0, <2>1
  <2>3. TypeOK'
    BY <1>8, <1>0, <2>1, <2>2 DEF TakeEnvelope, TypeInv, TypeOK, Serving
  <2> QED BY <1>8, <2>2, <2>3 DEF TakeEnvelope, TypeInv, CurInv, TodoInv, FitInv, InTx
<1>9. CASE AnswerFromReceipt
  <2>1. pc \in Busy
    BY <1>9 DEF AnswerFromReceipt, Busy, Serving
  <2>2. receipts[CurrentCommand].seq \in Nat
    BY <2>1, CurrentType DEF TypeInv, TypeOK, Receipt
  <2>3. PICK a \in Answer : Settle(a)
    BY <1>9, <2>2 DEF AnswerFromReceipt, Accepted, Outcome, Answer
  <2>4. /\ answers' \in Seq(Answer) /\ Len(answers') = Len(answers)
        /\ cur' = 0 /\ startSeq' = 0 /\ tx' \in Tx /\ err' = "none" /\ pc' = "idle"
    BY <2>1, <2>3, SettleType
  <2>5. UNCHANGED <<disk, readModel, queue, delivery, boot, requests, budget>>
    BY <1>9 DEF AnswerFromReceipt
  <2>6. TypeOK'
    BY <1>0, <2>4, <2>5 DEF TypeInv, TypeOK, Serving
  <2> QED BY <2>4, <2>6 DEF TypeInv, CurInv, TodoInv, FitInv, Busy, InTx
<1>10. CASE DecideCommand
  <2> DEFINE c      == CurrentCommand
             events == Decide(readModel, Body[c])
             todo   == [i \in 1 .. Len(events) |-> [command |-> c, event |-> events[i]]]
  <2>1. /\ pc \in Busy /\ c \in CommandIds /\ events \in Seq(Event)
    BY <1>10, CurrentType, DecideShape DEF DecideCommand, Busy, Serving
  <2>2. todo \in Seq(Entry) /\ Len(todo) = Len(events)
    <3>1. Len(events) \in Nat
      BY <2>1, LenProperties
    <3>2. \A i \in 1 .. Len(events) : [command |-> c, event |-> events[i]] \in Entry
      BY <2>1, ElementOfSeq DEF Entry
    <3> HIDE DEF events, c
    <3>3. todo \in [1 .. Len(events) -> Entry]
      BY <3>2
    <3> QED BY <3>1, <3>3
  <2> HIDE DEF todo
  <2>3. CASE events # <<>> /\ tx' = [NoTx EXCEPT !.todo = todo, !.model = readModel]
             /\ pc' = "append" /\ err' = err
    <3>1. todo # <<>>
      BY <2>1, <2>2, <2>3, EmptySeq
    <3>2. /\ tx' \in Tx /\ tx'.todo = todo /\ tx'.done = <<>> /\ tx'.model = readModel
      BY <2>2, <2>3, NoTxType DEF NoTx, Tx, TypeInv, TypeOK
    <3>3. UNCHANGED <<disk, readModel, queue, cur, startSeq, delivery, boot, callers, budget>>
      BY <1>10 DEF DecideCommand
    <3>4. TypeOK' /\ CurInv' /\ TodoInv'
      BY <2>1, <2>3, <3>1, <3>2, <3>3 DEF TypeInv, TypeOK, CurInv, TodoInv, Busy, Serving
    <3>5. FitInv'
      BY <1>0, <3>2, <3>3 DEF FitInv
    <3> QED BY <3>4, <3>5 DEF TypeInv
  <2>4. CASE err' = "invariant" /\ pc' = "reconcile" /\ tx' = tx
    BY <1>10, <2>4 DEF DecideCommand, TypeInv, TypeOK, CurInv, TodoInv, FitInv, Busy, Serving,
                       InTx
  <2> QED BY <1>10, <2>3, <2>4 DEF DecideCommand, todo
<1>11. CASE AppendEvent
  <2> DEFINE n == NextSequence
             e == Head(tx.todo)
  <2>1. e \in Entry /\ Tail(tx.todo) \in Seq(Entry)
    BY <1>11, <1>0, TailIn DEF AppendEvent, TypeInv, TodoInv
  <2>2. n \in Nat
    BY <1>0 DEF NextSequence
  <2>3. /\ Append(tx.done, e) \in Seq(Entry) /\ Len(Append(tx.done, e)) = Len(tx.done) + 1
        /\ Append(log, e) \in Seq(Entry) /\ Len(Append(log, e)) = Len(log) + 1
    BY <1>0, <2>1, AppendProperties DEF TypeInv, TypeOK
  <2>4. /\ ProjectEvent(tx.model, e.event, n) \in ReadModel
        /\ ProjectEvent(tx.model, e.event, n).seq = n
    BY <1>0, <2>1, <2>2, ProjectEventType DEF Entry
  <2>5. /\ tx' = [tx EXCEPT !.todo = Tail(tx.todo), !.done = Append(tx.done, e),
                            !.model = ProjectEvent(tx.model, e.event, n)]
        /\ log' = IF Transactional THEN log ELSE Append(log, e)
        /\ pc' = "project" /\ pc = "append"
        /\ UNCHANGED <<receipts, cursor, applied, readModel, queue, cur, startSeq, err,
                       delivery, boot, callers, budget>>
    BY <1>11 DEF AppendEvent
  <2>6. n = IF Transactional THEN Len(log) + Len(tx.done) + 1 ELSE Len(log) + 1
    BY DEF NextSequence
  <2> HIDE DEF n, e
  <2>7. /\ tx' \in Tx /\ tx'.done = Append(tx.done, e)
        /\ tx'.model = ProjectEvent(tx.model, e.event, n)
    BY <2>1, <2>3, <2>4, <2>5 DEF TypeInv, TypeOK, Tx
  <2>8. FitInv'
    BY <1>0, <2>3, <2>4, <2>5, <2>6, <2>7 DEF TypeInv, FitInv, InTx
  <2> QED BY <1>0, <2>3, <2>5, <2>7, <2>8 DEF TypeInv, TypeOK, CurInv, TodoInv, Busy, Serving
<1>12. CASE ProjectAppended
  BY <1>12 DEF ProjectAppended, TypeInv, TypeOK, CurInv, TodoInv, FitInv, Busy, Serving, InTx
<1>13. CASE WriteReceipt
  <2>1. /\ tx' \in Tx /\ tx'.done = tx.done /\ tx'.model = tx.model
    BY <1>13, <1>0 DEF WriteReceipt, TypeInv, TypeOK, Tx, Receipt
  <2> QED BY <1>13, <2>1 DEF WriteReceipt, TypeInv, TypeOK, CurInv, TodoInv, FitInv, Busy,
                             Serving, InTx
<1>14. CASE Commit
  <2>1. log \o tx.done \in Seq(Entry) /\ Len(log \o tx.done) = Len(log) + Len(tx.done)
    BY <1>0, ConcatProperties DEF TypeInv, TypeOK
  <2>2. log' \in Seq(Entry) /\ Len(log') >= Len(log)
    BY <1>14, <1>0, <2>1 DEF Commit, TypeInv, TypeOK
  <2>3. receipts' \in [CommandIds -> Receipt]
    BY <1>14 DEF Commit, TypeInv, TypeOK, Tx
  <2>4. Len(tx.done) <= tx.model.seq
    BY <1>14 DEF Commit, TypeInv, FitInv, InTx
  <2>5. (tx.model.seq - Len(tx.done)) + 1 .. tx.model.seq \subseteq Nat
    BY <1>0, <2>4
  <2>6. applied' \in [Projectors -> SUBSET Nat] /\ cursor' \in [Projectors -> Nat]
    BY <1>14, <1>0, <2>5 DEF Commit, TypeInv, TypeOK
  <2> QED BY <1>14, <1>0, <2>2, <2>3, <2>4, <2>6
          DEF Commit, TypeInv, TypeOK, CurInv, TodoInv, FitInv, Busy, Serving, InTx
<1>15. CASE InstallReadModel
  <2>1. tx.model.seq - Len(tx.done) \in Nat
    BY <1>15, <1>0 DEF InstallReadModel, TypeInv, FitInv
  <2>2. outbox' \in Seq(Nat)
    BY <1>15, <1>0, <2>1, SequencesFromType DEF InstallReadModel
  <2> QED BY <1>15, <1>0, <2>2
          DEF InstallReadModel, TypeInv, TypeOK, CurInv, TodoInv, FitInv, Busy, Serving, InTx
<1>16. CASE PublishEvent
  <2>1. Head(outbox) \in Nat /\ outbox' \in Seq(Nat)
    BY <1>16, TailIn DEF PublishEvent, TypeInv, TypeOK
  <2>2. published' \in Seq(Nat)
    BY <1>16, <2>1, AppendProperties DEF PublishEvent, TypeInv, TypeOK
  <2> QED BY <1>16, <2>1, <2>2
          DEF PublishEvent, TypeInv, TypeOK, CurInv, TodoInv, FitInv, Busy, Serving, InTx
<1>17. CASE AnswerAccepted
  <2>1. pc \in Busy
    BY <1>17 DEF AnswerAccepted, Busy, Serving
  <2>2. Accepted(readModel.seq) \in Answer
    BY <1>0 DEF Accepted, Answer
  <2>4. /\ answers' \in Seq(Answer) /\ Len(answers') = Len(answers)
        /\ cur' = 0 /\ startSeq' = 0 /\ tx' \in Tx /\ err' = "none" /\ pc' = "idle"
    BY <2>1, <2>2, SettleType, <1>17 DEF AnswerAccepted
  <2>5. UNCHANGED <<disk, readModel, queue, delivery, boot, requests, budget>>
    BY <1>17 DEF AnswerAccepted
  <2>6. TypeOK'
    BY <1>0, <2>4, <2>5 DEF TypeInv, TypeOK, Serving
  <2> QED BY <2>4, <2>6 DEF TypeInv, CurInv, TodoInv, FitInv, Busy, InTx
<1>18. CASE StoreFault
  <2>1. budget' \in [faults : Nat, crashes : Nat, upgrades : Nat]
    BY <1>18, <1>a DEF StoreFault, TypeInv, TypeOK
  <2> QED BY <1>18, <2>1, NoTxType
          DEF StoreFault, TypeInv, TypeOK, CurInv, TodoInv, FitInv, Busy, Serving, InTx
<1>19. CASE ReadPersisted
  <2> DEFINE upTo == IF Len(log) < startSeq + ReadLimit THEN Len(log) ELSE startSeq + ReadLimit
             todo == SubSeq(log, startSeq + 1, upTo)
  <2>1. todo \in Seq(Entry)
    <3>1. log \in Seq(Entry) /\ startSeq + 1 \in Nat \ {0} /\ upTo \in Nat /\ upTo <= Len(log)
      <4>1. log \in Seq(Entry) /\ ReadLimit \in Nat
        BY EngineAssumption DEF TypeInv, TypeOK
      <4> QED BY <1>0, <4>1
    <3> HIDE DEF upTo
    <3> QED BY <1>0, <3>1, SubSeqProperties
  <2>2. tx' = [NoTx EXCEPT !.todo = todo, !.model = readModel]
    BY <1>19 DEF ReadPersisted
  <2> HIDE DEF todo
  <2>3. tx' \in Tx
    BY <2>1, <2>2, NoTxType DEF Tx, TypeInv, TypeOK
  <2> QED BY <1>19, <2>3
          DEF ReadPersisted, TypeInv, TypeOK, CurInv, TodoInv, FitInv, Busy, Serving, InTx
<1>20. CASE ReconcileFault
  <2>1. budget' \in [faults : Nat, crashes : Nat, upgrades : Nat]
    BY <1>20, <1>a DEF ReconcileFault, TypeInv, TypeOK
  <2> QED BY <1>20, <2>1
          DEF ReconcileFault, TypeInv, TypeOK, CurInv, TodoInv, FitInv, Busy, Serving, InTx
<1>21. CASE ReplayPersisted
  <2> DEFINE e == Head(tx.todo)
             n == startSeq + Len(tx.done) + 1
  <2>1. e \in Entry /\ Tail(tx.todo) \in Seq(Entry)
    BY <1>21, <1>0, TailIn DEF ReplayPersisted
  <2>2. Append(tx.done, e) \in Seq(Entry)
    BY <1>0, <2>1, AppendProperties
  <2>3. n \in Nat
    BY <1>0
  <2>4. ProjectEvent(tx.model, e.event, n) \in ReadModel
    BY <1>0, <2>1, <2>3, ProjectEventType DEF Entry
  <2>5. tx' = [tx EXCEPT !.todo = Tail(tx.todo), !.done = Append(tx.done, e),
                         !.model = ProjectEvent(tx.model, e.event, n)]
    BY <1>21 DEF ReplayPersisted
  <2> HIDE DEF e, n
  <2>6. tx' \in Tx
    BY <2>1, <2>2, <2>4, <2>5 DEF TypeInv, TypeOK, Tx
  <2> QED BY <1>21, <2>6
          DEF ReplayPersisted, TypeInv, TypeOK, CurInv, TodoInv, FitInv, Busy, Serving, InTx
<1>22. CASE InstallReplayed
  <2>1. outbox' \in Seq(Nat)
    BY <1>22, <1>0, SequencesFromType DEF InstallReplayed, TypeInv, TypeOK
  <2> QED BY <1>22, <1>0, <2>1
          DEF InstallReplayed, TypeInv, TypeOK, CurInv, TodoInv, FitInv, Busy, Serving, InTx
<1>23. CASE ReconcileDone
  BY <1>23 DEF ReconcileDone, TypeInv, TypeOK, CurInv, TodoInv, FitInv, Busy, Serving, InTx
<1>24. CASE WriteRejectedReceipt
  <2>0. /\ receipts \in [CommandIds -> Receipt]
        /\ [status |-> "rejected", seq |-> readModel.seq] \in Receipt
    BY <1>0 DEF TypeInv, TypeOK, Receipt
  <2>1. receipts' \in [CommandIds -> Receipt]
    BY <1>24, <2>0 DEF WriteRejectedReceipt
  <2>2. budget' \in [faults : Nat, crashes : Nat, upgrades : Nat]
    BY <1>24, <1>a DEF WriteRejectedReceipt, TypeInv, TypeOK
  <2> QED BY <1>24, <2>1, <2>2
          DEF WriteRejectedReceipt, TypeInv, TypeOK, CurInv, TodoInv, FitInv, Busy, Serving, InTx
<1>25. CASE AnswerFailed
  <2>1. pc \in Busy
    BY <1>25 DEF AnswerFailed, Busy, Serving
  <2>2. PICK a \in Answer : Settle(a)
    BY <1>25 DEF AnswerFailed, Outcome, Answer
  <2>4. /\ answers' \in Seq(Answer) /\ Len(answers') = Len(answers)
        /\ cur' = 0 /\ startSeq' = 0 /\ tx' \in Tx /\ err' = "none" /\ pc' = "idle"
    BY <2>1, <2>2, SettleType
  <2>5. UNCHANGED <<disk, readModel, queue, delivery, boot, requests, budget>>
    BY <1>25 DEF AnswerFailed
  <2>6. TypeOK'
    BY <1>0, <2>4, <2>5 DEF TypeInv, TypeOK, Serving
  <2> QED BY <2>4, <2>6 DEF TypeInv, CurInv, TodoInv, FitInv, Busy, InTx
<1>26. CASE Crash
  <2>1. answers' \in Seq(Answer) /\ Len(answers') = Len(answers)
    <3>1. answers' = [r \in 1 .. Len(answers) |->
                        IF answers[r].status = "pending" THEN Outcome("lost") ELSE answers[r]]
      BY <1>26 DEF Crash
    <3>2. answers \in Seq(Answer) /\ Len(answers) \in Nat
      BY LenProperties DEF TypeInv, TypeOK
    <3>3. answers' \in [1 .. Len(answers) -> Answer]
      BY <3>1, <3>2, ElementOfSeq DEF Outcome, Answer
    <3> QED BY <3>2, <3>3
  <2>2. budget' \in [faults : Nat, crashes : Nat, upgrades : Nat]
    <3>1. budget \in [faults : Nat, crashes : Nat, upgrades : Nat] /\ budget.crashes > 0
          /\ budget' = [budget EXCEPT !.crashes = budget.crashes - 1]
      BY <1>26 DEF Crash, TypeInv, TypeOK
    <3> QED BY <3>1
  <2>3. queue' \in Seq(1 .. Len(requests)) /\ outbox' \in Seq(Nat) /\ published' \in Seq(Nat)
    BY <1>26 DEF Crash
  <2>4. boot' \in [projector : Nat, read : Nat] /\ cur' \in 0 .. Len(requests)
    BY <1>26, <1>0 DEF Crash
  <2>5. TypeOK'
    BY <1>26, <1>0, <2>1, <2>2, <2>3, <2>4, EmptyReadModelType, NoTxType
       DEF Crash, TypeInv, TypeOK
  <2> QED BY <1>26, <2>5 DEF Crash, TypeInv, CurInv, TodoInv, FitInv, Busy, Serving, InTx
<1>27. ASSUME NEW p \in Projectors, Upgrade(p) PROVE TypeInv'
  <2>1. budget' \in [faults : Nat, crashes : Nat, upgrades : Nat]
    <3>1. budget \in [faults : Nat, crashes : Nat, upgrades : Nat] /\ budget.upgrades > 0
          /\ budget' = [budget EXCEPT !.upgrades = budget.upgrades - 1]
      BY <1>27 DEF Upgrade, TypeInv, TypeOK
    <3> QED BY <3>1
  <2> QED BY <1>27, <2>1 DEF Upgrade, TypeInv, TypeOK, CurInv, TodoInv, FitInv, Busy, Serving,
                             InTx
<1>28. CASE UNCHANGED vars
  BY <1>28 DEF vars, TypeInv, TypeOK, CurInv, TodoInv, FitInv
<1> QED
  BY <1>1, <1>2, <1>3, <1>4, <1>5, <1>6, <1>7, <1>8, <1>9, <1>10, <1>11, <1>12, <1>13, <1>14,
     <1>15, <1>16, <1>17, <1>18, <1>19, <1>20, <1>21, <1>22, <1>23, <1>24, <1>25, <1>26, <1>27,
     <1>28 DEF Next, Startup, Worker, Environment

\* In every reachable state every variable has its type.
THEOREM TypeCorrect == Spec => []TypeInv
  BY TypeInit, TypeStep, PTL DEF Spec

\* The state of the engine, on disk, in the process and at its callers, is
\* always of the declared shape (OrchestrationEngine.ts as a whole).
THEOREM TypeOKHolds == Spec => []TypeOK
<1>1. TypeInv => TypeOK
  BY DEF TypeInv
<1> QED BY <1>1, TypeCorrect, PTL

\* What TypeInv says of the parts the other invariants talk about.
LEMMA TypeFacts ==
  ASSUME TypeInv
  PROVE  /\ Len(log) \in Nat /\ readModel.seq \in Nat /\ startSeq \in Nat
         /\ Len(tx.todo) \in Nat /\ Len(tx.done) \in Nat /\ tx.model.seq \in Nat
         /\ log \in Seq(Entry) /\ tx.todo \in Seq(Entry) /\ tx.done \in Seq(Entry)
         /\ tx \in Tx /\ readModel \in ReadModel /\ tx.model \in ReadModel
         /\ outbox \in Seq(Nat) /\ Len(outbox) \in Nat /\ bootLength \in Nat
         /\ published \in Seq(Nat) /\ Len(published) \in Nat
  BY LenProperties DEF TypeInv, TypeOK, Tx, ReadModel

\* An append takes the next event, and gives it the next sequence.
LEMMA AppendFacts ==
  ASSUME TypeInv, AppendEvent
  PROVE  /\ tx.todo # <<>> /\ Head(tx.todo) \in Entry
         /\ Tail(tx.todo) \in Seq(Entry) /\ Len(Tail(tx.todo)) = Len(tx.todo) - 1
         /\ tx'.todo = Tail(tx.todo)
         /\ tx'.done = Append(tx.done, Head(tx.todo))
         /\ Len(tx'.done) = Len(tx.done) + 1
         /\ tx'.receipt = tx.receipt
         /\ Transactional => tx'.model.seq = Len(log) + Len(tx.done) + 1
<1>0. /\ tx \in Tx /\ tx.todo \in Seq(Entry) /\ tx.done \in Seq(Entry) /\ tx.model \in ReadModel
      /\ Len(log) \in Nat /\ Len(tx.done) \in Nat
  BY TypeFacts
<1>1. tx.todo # <<>> /\ pc = "append"
  BY DEF TypeInv, TodoInv, AppendEvent
<1>2. /\ Head(tx.todo) \in Entry
      /\ Tail(tx.todo) \in Seq(Entry) /\ Len(Tail(tx.todo)) = Len(tx.todo) - 1
  BY <1>0, <1>1, TailIn
<1>3. tx' = [tx EXCEPT !.todo = Tail(tx.todo), !.done = Append(tx.done, Head(tx.todo)),
                       !.model = ProjectEvent(tx.model, Head(tx.todo).event, NextSequence)]
  BY DEF AppendEvent
<1>4. /\ tx'.todo = Tail(tx.todo) /\ tx'.done = Append(tx.done, Head(tx.todo))
      /\ tx'.receipt = tx.receipt
      /\ tx'.model = ProjectEvent(tx.model, Head(tx.todo).event, NextSequence)
  BY <1>0, <1>3 DEF Tx
<1>5. Len(tx'.done) = Len(tx.done) + 1
  BY <1>0, <1>2, <1>4, AppendProperties
<1>6. ProjectEvent(tx.model, Head(tx.todo).event, NextSequence).seq = NextSequence
  BY DEF ProjectEvent
<1> QED BY <1>1, <1>2, <1>4, <1>5, <1>6 DEF NextSequence

\* What the transaction a decided command opens holds.
LEMMA DecideFacts ==
  ASSUME TypeInv, DecideCommand, pc' = "append"
  PROVE  LET events == Decide(readModel, Body[CurrentCommand])
         IN  /\ events \in Seq(Event) /\ events # <<>> /\ Len(events) \in Nat
             /\ tx'.todo = [i \in 1 .. Len(events) |->
                              [command |-> CurrentCommand, event |-> events[i]]]
             /\ tx'.done = <<>> /\ tx'.model = readModel /\ err' = err
<1> DEFINE events == Decide(readModel, Body[CurrentCommand])
           todo   == [i \in 1 .. Len(events) |-> [command |-> CurrentCommand, event |-> events[i]]]
<1>1. pc \in Busy
  BY DEF DecideCommand, Busy, Serving
<1>2. events \in Seq(Event) /\ Len(events) \in Nat
  BY <1>1, CurrentType, DecideShape, LenProperties
<1>3. events # <<>> /\ tx' = [NoTx EXCEPT !.todo = todo, !.model = readModel] /\ err' = err
  BY DEF DecideCommand
<1> HIDE DEF todo
<1>4. tx'.todo = todo /\ tx'.done = <<>> /\ tx'.model = readModel
  BY <1>3, NoTxType DEF NoTx
<1> QED BY <1>2, <1>3, <1>4 DEF todo

---------------------------------------------------------------------------
(* Where the read model stands, over a transactional store.                *)

\* The read model is at the end of the log whenever the worker looks at it,
\* and the open transaction continues from there.  A rolled-back transaction
\* leaves nothing for the reconciliation to replay.
PositionInv ==
    /\ pc \in {"down", "bootstrap"} => readModel.seq = 0
    /\ pc = "load" => readModel.seq <= Len(log)
    /\ pc \in Serving \ {"install"} => readModel.seq = Len(log)
    /\ pc \in InTx \cup {"lookup", "reconcile"} => startSeq = readModel.seq
    /\ pc \in InTx => tx.model.seq = Len(log) + Len(tx.done)
    /\ pc = "install" => tx.model.seq = Len(log)
    /\ pc = "replay" => tx.todo = <<>> /\ tx.done = <<>> /\ tx.model = readModel

LEMMA PositionInit == Init => PositionInv
  BY DEF Init, PositionInv, EmptyReadModel, InTx, Serving

\* Every step keeps the read model in place.
LEMMA PositionStep ==
  ASSUME Transactional, TypeInv, PositionInv, [Next]_vars
  PROVE  PositionInv'
<1> USE DEF disk, work, delivery, callers
<1>0. /\ Len(log) \in Nat /\ readModel.seq \in Nat /\ startSeq \in Nat
      /\ Len(tx.todo) \in Nat /\ Len(tx.done) \in Nat /\ tx.model.seq \in Nat
      /\ log \in Seq(Entry) /\ tx.todo \in Seq(Entry) /\ tx.done \in Seq(Entry)
      /\ tx \in Tx /\ readModel \in ReadModel /\ tx.model \in ReadModel
      /\ outbox \in Seq(Nat) /\ Len(outbox) \in Nat /\ bootLength \in Nat
      /\ published \in Seq(Nat) /\ Len(published) \in Nat
  BY TypeFacts
<1>1. CASE Restart
  BY <1>1, <1>0 DEF Restart, PositionInv, InTx, Serving, Starting
<1>2. CASE BootstrapEvent
  BY <1>2, <1>0 DEF BootstrapEvent, PositionInv, InTx, Serving, Starting
<1>3. CASE BootstrapNextProjector
  BY <1>3, <1>0 DEF BootstrapNextProjector, PositionInv, InTx, Serving, Starting
<1>4. CASE BootstrapDone
  BY <1>4, <1>0 DEF BootstrapDone, PositionInv, InTx, Serving, Starting
<1>5. CASE LoadEvent
  <2>1. readModel'.seq = readModel.seq + 1
    BY <1>5 DEF LoadEvent, ProjectEvent
  <2> QED BY <1>5, <1>0, <2>1 DEF LoadEvent, PositionInv, InTx, Serving
<1>6. CASE StartWorker
  BY <1>6, <1>0 DEF StartWorker, PositionInv, InTx, Serving, Starting
<1>7. ASSUME NEW x \in CommandIds, Dispatch(x) PROVE PositionInv'
  BY <1>7, <1>0 DEF Dispatch, PositionInv, InTx, Serving, Starting
<1>8. CASE TakeEnvelope
  BY <1>8, <1>0 DEF TakeEnvelope, PositionInv, InTx, Serving, Starting
<1>9. CASE AnswerFromReceipt
  BY <1>9, <1>0 DEF AnswerFromReceipt, Settle, PositionInv, InTx, Serving, Starting
<1>10. CASE DecideCommand
  <2>1. CASE pc' = "append"
    <3>1. tx'.done = <<>> /\ tx'.model = readModel
      BY <1>10, <2>1, DecideFacts
    <3>2. Len(tx'.done) = 0
      BY <3>1, EmptySeq
    <3> QED BY <1>10, <1>0, <2>1, <3>1, <3>2 DEF DecideCommand, PositionInv, InTx, Serving
  <2>2. CASE pc' = "reconcile"
    BY <1>10, <2>2, <1>0 DEF DecideCommand, PositionInv, InTx, Serving
  <2> QED BY <1>10, <2>1, <2>2 DEF DecideCommand
<1>11. CASE AppendEvent
  <2>1. Len(tx'.done) = Len(tx.done) + 1 /\ tx'.model.seq = Len(log) + Len(tx.done) + 1
    BY <1>11, AppendFacts
  <2> QED BY <1>11, <1>0, <2>1 DEF AppendEvent, PositionInv, InTx, Serving
<1>12. CASE ProjectAppended
  BY <1>12, <1>0 DEF ProjectAppended, PositionInv, InTx, Serving, Starting
<1>13. CASE WriteReceipt
  <2>1. tx'.done = tx.done /\ tx'.model = tx.model
    BY <1>13, <1>0 DEF WriteReceipt, Tx
  <2> QED BY <1>13, <1>0, <2>1 DEF WriteReceipt, PositionInv, InTx, Serving
<1>14. CASE Commit
  <2>1. Len(log \o tx.done) = Len(log) + Len(tx.done)
    BY <1>0, ConcatProperties
  <2> QED BY <1>14, <1>0, <2>1 DEF Commit, PositionInv, InTx, Serving
<1>15. CASE InstallReadModel
  BY <1>15, <1>0 DEF InstallReadModel, PositionInv, InTx, Serving, Starting
<1>16. CASE PublishEvent
  BY <1>16, <1>0 DEF PublishEvent, PositionInv, InTx, Serving, Starting
<1>17. CASE AnswerAccepted
  BY <1>17, <1>0 DEF AnswerAccepted, Settle, PositionInv, InTx, Serving, Starting
<1>18. CASE StoreFault
  BY <1>18, <1>0 DEF StoreFault, PositionInv, InTx, Serving, Starting
<1>19. CASE ReadPersisted
  <2>1. pc = "reconcile" /\ startSeq = Len(log) /\ startSeq + ReadLimit > Len(log)
    <3>1. ReadLimit \in Nat /\ ReadLimit >= 2
      BY EngineAssumption
    <3> QED BY <1>19, <1>0, <3>1 DEF ReadPersisted, PositionInv, InTx, Serving
  <2>2. SubSeq(log, startSeq + 1, Len(log)) = <<>>
    BY <1>0, <2>1, SubSeqEmpty
  <2>3. tx' = [NoTx EXCEPT !.todo = <<>>, !.model = readModel]
    BY <1>19, <2>1, <2>2, <1>0 DEF ReadPersisted
  <2>4. tx'.todo = <<>> /\ tx'.done = <<>> /\ tx'.model = readModel
    BY <2>3, NoTxType DEF NoTx
  <2> QED BY <1>19, <1>0, <2>1, <2>4 DEF ReadPersisted, PositionInv, InTx, Serving
<1>20. CASE ReconcileFault
  BY <1>20, <1>0 DEF ReconcileFault, PositionInv, InTx, Serving, Starting
<1>21. CASE ReplayPersisted
  BY <1>21, <1>0 DEF ReplayPersisted, PositionInv, InTx, Serving, Starting
<1>22. CASE InstallReplayed
  BY <1>22, <1>0 DEF InstallReplayed, PositionInv, InTx, Serving, Starting
<1>23. CASE ReconcileDone
  BY <1>23, <1>0 DEF ReconcileDone, PositionInv, InTx, Serving, Starting
<1>24. CASE WriteRejectedReceipt
  BY <1>24, <1>0 DEF WriteRejectedReceipt, PositionInv, InTx, Serving, Starting
<1>25. CASE AnswerFailed
  BY <1>25, <1>0 DEF AnswerFailed, Settle, PositionInv, InTx, Serving, Starting
<1>26. CASE Crash
  BY <1>26, <1>0 DEF Crash, EmptyReadModel, PositionInv, InTx, Serving, Starting
<1>27. ASSUME NEW x \in Projectors, Upgrade(x) PROVE PositionInv'
  BY <1>27, <1>0 DEF Upgrade, PositionInv, InTx, Serving, Starting
<1>28. CASE UNCHANGED vars
  BY <1>28, <1>0 DEF vars, PositionInv, InTx, Serving, Starting
<1> QED
  BY <1>1, <1>2, <1>3, <1>4, <1>5, <1>6, <1>7, <1>8, <1>9, <1>10, <1>11, <1>12, <1>13,
     <1>14, <1>15, <1>16, <1>17, <1>18, <1>19, <1>20, <1>21, <1>22, <1>23, <1>24, <1>25,
     <1>26, <1>27, <1>28
     DEF Next, Startup, Worker, Environment

---------------------------------------------------------------------------
(* What the open transaction holds, over a transactional store.            *)

\* The entries the request in hand adds to the log, if it is accepted.
Planned ==
    LET events == Decide(readModel, Body[CurrentCommand])
    IN  [i \in 1 .. Len(events) |-> [command |-> CurrentCommand, event |-> events[i]]]

\* d followed by t is f.
Splits(d, t, f) ==
    /\ Len(d) + Len(t) = Len(f)
    /\ \A i \in 1 .. Len(d) : d[i] = f[i]
    /\ \A i \in 1 .. Len(t) : t[i] = f[Len(d) + i]

\* A transaction is open only for a command that has no receipt, its events
\* are those the decider gave for the read model, and no failure stays behind
\* for the next request.
LedgerInv ==
    /\ pc \notin {"reconcile", "replay", "publish", "reject", "fail"} => err = "none"
    /\ pc \in {"reconcile", "replay"} => err # "none"
    /\ pc = "reject" => err = "invariant"
    /\ \/ pc \in InTx
       \/ pc \in {"reconcile", "replay", "publish", "reject"} /\ err = "invariant"
       => receipts[CurrentCommand].status = "none"
    /\ pc \in InTx =>
         /\ Decide(readModel, Body[CurrentCommand]) # <<>>
         /\ Splits(tx.done, tx.todo, Planned)
    /\ pc \in {"receipt", "commit"} => tx.todo = <<>>
    /\ pc = "commit" => tx.receipt = Accepted(tx.model.seq)
    /\ pc = "install" => receipts[CurrentCommand] = Accepted(tx.model.seq)
    /\ pc = "publish" /\ err = "none" =>
         receipts[CurrentCommand] = Accepted(readModel.seq)

LEMMA LedgerInit == Init => LedgerInv
  BY DEF Init, LedgerInv, InTx

\* Moving the head of t to the end of d leaves the two together what they were.
LEMMA ShiftOne ==
  ASSUME NEW S, NEW d \in Seq(S), NEW t \in Seq(S), t # <<>>, NEW f, Splits(d, t, f)
  PROVE  Splits(Append(d, Head(t)), Tail(t), f)
<1> DEFINE d2 == Append(d, Head(t))
           t2 == Tail(t)
<1>0. /\ Len(d) + Len(t) = Len(f)
      /\ \A i \in 1 .. Len(d) : d[i] = f[i]
      /\ \A i \in 1 .. Len(t) : t[i] = f[Len(d) + i]
  BY DEF Splits
<1>1. Len(d) \in Nat /\ Len(t) \in Nat /\ Len(t) > 0 /\ Head(t) = t[1] /\ Head(t) \in S
  BY LenProperties, EmptySeq, HeadTailProperties
<1>2. /\ Len(d2) = Len(d) + 1
      /\ \A i \in 1 .. Len(d) : d2[i] = d[i]
      /\ d2[Len(d) + 1] = t[1]
  BY <1>1, AppendProperties
<1>3. /\ Len(t2) = Len(t) - 1
      /\ \A i \in 1 .. Len(t2) : t2[i] = t[i + 1]
  BY <1>1, HeadTailProperties
<1> HIDE DEF d2, t2
<1>4. \A i \in 1 .. Len(d2) : d2[i] = f[i]
  <2> SUFFICES ASSUME NEW i \in 1 .. Len(d2) PROVE d2[i] = f[i]
    OBVIOUS
  <2>1. t[1] = f[Len(d) + 1]
    BY <1>0, <1>1
  <2> QED BY <1>0, <1>1, <1>2, <2>1
<1>5. \A i \in 1 .. Len(t2) : t2[i] = f[Len(d2) + i]
  <2> SUFFICES ASSUME NEW i \in 1 .. Len(t2) PROVE t2[i] = f[Len(d2) + i]
    OBVIOUS
  <2>1. i + 1 \in 1 .. Len(t) /\ t2[i] = t[i + 1]
    BY <1>1, <1>3
  <2>2. t[i + 1] = f[Len(d) + (i + 1)] /\ Len(d) + (i + 1) = Len(d2) + i
    BY <1>0, <1>1, <1>2, <1>3, <2>1
  <2> QED BY <2>1, <2>2
<1>6. Len(d2) + Len(t2) = Len(f)
  <2>1. Len(d2) + Len(t2) = Len(d) + Len(t)
    BY <1>1, <1>2, <1>3
  <2> QED BY <1>0, <2>1
<1> QED BY <1>4, <1>5, <1>6 DEF d2, t2, Splits

\* A dispatch does not change which command is in hand.
LEMMA DispatchFacts ==
  ASSUME TypeInv, NEW x \in CommandIds, Dispatch(x), pc \in Busy
  PROVE  CurrentCommand' = CurrentCommand /\ Planned' = Planned
<1>1. /\ requests \in Seq(CommandIds) /\ cur \in 1 .. Len(requests)
      /\ requests' = Append(requests, x) /\ cur' = cur /\ readModel' = readModel
  BY CurrentType DEF Dispatch, work, TypeInv, TypeOK
<1>2. requests'[cur] = requests[cur]
  BY <1>1, AppendProperties
<1> QED BY <1>1, <1>2 DEF CurrentCommand, Planned

\* Every step keeps the transaction's books.
LEMMA LedgerStep ==
  ASSUME Transactional, TypeInv, LedgerInv, [Next]_vars
  PROVE  LedgerInv'
<1> USE DEF disk, work, delivery, callers
<1>0. /\ tx \in Tx /\ tx.todo \in Seq(Entry) /\ tx.done \in Seq(Entry)
      /\ Len(tx.todo) \in Nat /\ Len(tx.done) \in Nat /\ readModel.seq \in Nat
      /\ pc \in Busy =>
           /\ CurrentCommand \in CommandIds
           /\ receipts \in [CommandIds -> Receipt]
  BY TypeFacts, CurrentType DEF TypeInv, TypeOK
<1>1. CASE Restart
  BY <1>1, <1>0 DEF Restart, LedgerInv, InTx
<1>2. CASE BootstrapEvent
  BY <1>2, <1>0 DEF BootstrapEvent, LedgerInv, InTx
<1>3. CASE BootstrapNextProjector
  BY <1>3, <1>0 DEF BootstrapNextProjector, LedgerInv, InTx
<1>4. CASE BootstrapDone
  BY <1>4, <1>0 DEF BootstrapDone, LedgerInv, InTx
<1>5. CASE LoadEvent
  BY <1>5, <1>0 DEF LoadEvent, LedgerInv, InTx
<1>6. CASE StartWorker
  BY <1>6, <1>0 DEF StartWorker, LedgerInv, InTx
<1>7. ASSUME NEW x \in CommandIds, Dispatch(x) PROVE LedgerInv'
  <2>1. CASE pc \in Busy
    BY <1>7, <2>1, <1>0, DispatchFacts DEF Dispatch, LedgerInv
  <2>2. CASE pc \notin Busy
    BY <1>7, <2>2, <1>0 DEF Dispatch, LedgerInv, Busy, Serving, InTx
  <2> QED BY <2>1, <2>2
<1>8. CASE TakeEnvelope
  BY <1>8, <1>0 DEF TakeEnvelope, CurrentCommand, LedgerInv, InTx
<1>9. CASE AnswerFromReceipt
  BY <1>9, <1>0 DEF AnswerFromReceipt, Settle, LedgerInv, InTx
<1>10. CASE DecideCommand
  <2>1. CASE pc' = "append"
    <3>1. /\ Decide(readModel, Body[CurrentCommand]) # <<>>
          /\ tx'.todo = Planned /\ tx'.done = <<>> /\ err' = err
          /\ Planned' = Planned /\ CurrentCommand' = CurrentCommand
      BY <1>10, <2>1, DecideFacts DEF DecideCommand, Planned, CurrentCommand
    <3>2. Len(tx'.done) = 0 /\ Len(Planned) \in Nat
      BY <1>10, <2>1, <3>1, DecideFacts, EmptySeq DEF Planned
    <3>3. Splits(tx'.done, tx'.todo, Planned)
      BY <3>1, <3>2 DEF Splits
    <3>4. /\ Decide(readModel', Body[CurrentCommand']) # <<>>
          /\ receipts'[CurrentCommand'].status = "none"
      BY <1>10, <3>1 DEF DecideCommand
    <3> QED BY <1>10, <1>0, <2>1, <3>1, <3>2, <3>3, <3>4 DEF DecideCommand, LedgerInv, InTx
  <2>2. CASE pc' = "reconcile"
    BY <1>10, <2>2, <1>0 DEF DecideCommand, LedgerInv, InTx, CurrentCommand
  <2> QED BY <1>10, <2>1, <2>2 DEF DecideCommand
<1>11. CASE AppendEvent
  <2>1. /\ tx.todo # <<>> /\ tx'.done = Append(tx.done, Head(tx.todo)) /\ tx'.todo = Tail(tx.todo)
    BY <1>11, AppendFacts
  <2>2. /\ Splits(tx.done, tx.todo, Planned)
        /\ CurrentCommand' = CurrentCommand /\ Planned' = Planned
        /\ Decide(readModel', Body[CurrentCommand']) # <<>>
        /\ receipts'[CurrentCommand'].status = "none" /\ err' = "none" /\ pc' = "project"
    BY <1>11 DEF AppendEvent, LedgerInv, InTx, CurrentCommand, Planned
  <2>3. Splits(tx'.done, tx'.todo, Planned)
    BY <1>0, <2>1, <2>2, ShiftOne
  <2> QED BY <2>2, <2>3 DEF LedgerInv, InTx
<1>12. CASE ProjectAppended
  <2>1. CurrentCommand' = CurrentCommand /\ Planned' = Planned
    BY <1>12 DEF ProjectAppended, CurrentCommand, Planned
  <2> QED BY <1>12, <2>1 DEF ProjectAppended, LedgerInv, InTx
<1>13. CASE WriteReceipt
  <2>1. /\ tx'.done = tx.done /\ tx'.model = tx.model /\ tx'.todo = tx.todo
        /\ tx'.receipt = Accepted(tx.model.seq)
    BY <1>13, <1>0 DEF WriteReceipt, Tx, Accepted
  <2>2. CurrentCommand' = CurrentCommand /\ Planned' = Planned
    BY <1>13 DEF WriteReceipt, CurrentCommand, Planned
  <2> QED BY <1>13, <2>1, <2>2 DEF WriteReceipt, LedgerInv, InTx
<1>14. CASE Commit
  <2>1. pc \in Busy /\ CurrentCommand' = CurrentCommand
    BY <1>14 DEF Commit, CurrentCommand, Busy, Serving
  <2>2. receipts'[CurrentCommand] = Accepted(tx.model.seq)
    BY <1>14, <1>0, <2>1 DEF Commit, LedgerInv
  <2> QED BY <1>14, <2>1, <2>2 DEF Commit, LedgerInv, InTx
<1>15. CASE InstallReadModel
  BY <1>15, <1>0 DEF InstallReadModel, CurrentCommand, LedgerInv, InTx
<1>16. CASE PublishEvent
  BY <1>16, <1>0 DEF PublishEvent, CurrentCommand, LedgerInv, InTx
<1>17. CASE AnswerAccepted
  BY <1>17, <1>0 DEF AnswerAccepted, Settle, LedgerInv, InTx
<1>18. CASE StoreFault
  BY <1>18, <1>0 DEF StoreFault, CurrentCommand, LedgerInv, InTx
<1>19. CASE ReadPersisted
  BY <1>19, <1>0 DEF ReadPersisted, CurrentCommand, LedgerInv, InTx
<1>20. CASE ReconcileFault
  BY <1>20, <1>0 DEF ReconcileFault, CurrentCommand, LedgerInv, InTx
<1>21. CASE ReplayPersisted
  BY <1>21, <1>0 DEF ReplayPersisted, CurrentCommand, LedgerInv, InTx
<1>22. CASE InstallReplayed
  BY <1>22, <1>0 DEF InstallReplayed, CurrentCommand, LedgerInv, InTx
<1>23. CASE ReconcileDone
  BY <1>23, <1>0 DEF ReconcileDone, CurrentCommand, LedgerInv, InTx
<1>24. CASE WriteRejectedReceipt
  BY <1>24, <1>0 DEF WriteRejectedReceipt, CurrentCommand, LedgerInv, InTx
<1>25. CASE AnswerFailed
  BY <1>25, <1>0 DEF AnswerFailed, Settle, LedgerInv, InTx
<1>26. CASE Crash
  BY <1>26, <1>0 DEF Crash, LedgerInv, InTx
<1>27. ASSUME NEW x \in Projectors, Upgrade(x) PROVE LedgerInv'
  BY <1>27, <1>0 DEF Upgrade, LedgerInv, InTx
<1>28. CASE UNCHANGED vars
  <2>1. CurrentCommand' = CurrentCommand /\ Planned' = Planned
    BY <1>28 DEF vars, CurrentCommand, Planned
  <2> QED BY <1>28, <2>1 DEF vars, LedgerInv
<1> QED
  BY <1>1, <1>2, <1>3, <1>4, <1>5, <1>6, <1>7, <1>8, <1>9, <1>10, <1>11, <1>12, <1>13,
     <1>14, <1>15, <1>16, <1>17, <1>18, <1>19, <1>20, <1>21, <1>22, <1>23, <1>24, <1>25,
     <1>26, <1>27, <1>28
     DEF Next, Startup, Worker, Environment

---------------------------------------------------------------------------
(* What reaches the disk, over a transactional store.                      *)

\* Only a commit and the writing of a rejected receipt touch log or receipts.
LEMMA DiskSteps ==
  ASSUME Transactional, TypeInv, [Next]_vars
  PROVE  \/ Commit
         \/ WriteRejectedReceipt
         \/ log' = log /\ receipts' = receipts
<1> USE DEF disk
<1>1. CASE Startup
  BY <1>1 DEF Startup, Restart, BootstrapEvent, BootstrapNextProjector, BootstrapDone,
              LoadEvent, StartWorker
<1>2. CASE Worker
  BY <1>2 DEF Worker, TakeEnvelope, AnswerFromReceipt, DecideCommand, AppendEvent,
              ProjectAppended, WriteReceipt, InstallReadModel, PublishEvent, AnswerAccepted,
              ReadPersisted, ReplayPersisted, InstallReplayed, ReconcileDone, AnswerFailed
<1>3. CASE Environment
  BY <1>3 DEF Environment, Dispatch, StoreFault, ReconcileFault, Crash, Upgrade
<1>4. CASE UNCHANGED vars
  BY <1>4 DEF vars
<1> QED BY <1>1, <1>2, <1>3, <1>4 DEF Next

\* What the decider's events look like as entries of the log.
LEMMA PlannedShape ==
  ASSUME TypeInv, pc \in Busy, Decide(readModel, Body[CurrentCommand]) # <<>>
  PROVE  /\ Len(Planned) \in {1, 2}
         /\ \A i \in 1 .. Len(Planned) : Planned[i].command = CurrentCommand
         /\ Len(Planned) = 1 => Body[CurrentCommand].type # "thread.turn.start"
         /\ Len(Planned) = 2 => /\ Planned[1].event.type = "thread.message-sent"
                                /\ Planned[2].event.type = "thread.turn-start-requested"
<1> DEFINE events == Decide(readModel, Body[CurrentCommand])
<1>1. Body[CurrentCommand] \in Command
  BY CurrentType
<1>2. /\ events \in Seq(Event)
      /\ \/ /\ Body[CurrentCommand].type # "thread.turn.start"
            /\ Len(events) = 1
         \/ /\ Body[CurrentCommand].type = "thread.turn.start"
            /\ Len(events) = 2
            /\ events[1].type = "thread.message-sent"
            /\ events[2].type = "thread.turn-start-requested"
  BY <1>1, DecideShape
<1> HIDE DEF events
<1>3. Planned = [i \in 1 .. Len(events) |-> [command |-> CurrentCommand, event |-> events[i]]]
  BY DEF Planned, events
<1>4. Len(events) \in Nat /\ Len(Planned) = Len(events)
  BY <1>2, <1>3
<1>5. \A i \in 1 .. Len(events) : /\ Planned[i].command = CurrentCommand
                                  /\ Planned[i].event = events[i]
  BY <1>3
<1> QED BY <1>2, <1>4, <1>5

\* A commit adds the planned entries to the log and a receipt that points at
\* the last of them.
LEMMA CommitFacts ==
  ASSUME Transactional, TypeInv, PositionInv, LedgerInv, Commit
  PROVE  /\ Len(log) \in Nat /\ Len(Planned) \in {1, 2}
         /\ log' \in Seq(Entry) /\ Len(log') = Len(log) + Len(Planned)
         /\ \A i \in 1 .. Len(log) : log'[i] = log[i]
         /\ \A i \in 1 .. Len(Planned) : log'[Len(log) + i] = Planned[i]
         /\ CurrentCommand \in CommandIds
         /\ receipts[CurrentCommand].status = "none"
         /\ receipts' = [receipts EXCEPT ![CurrentCommand] = Accepted(Len(log'))]
<1>1. /\ pc = "commit" /\ pc \in Busy /\ pc \in InTx
      /\ log' = log \o tx.done
      /\ receipts' = [receipts EXCEPT ![CurrentCommand] = tx.receipt]
  BY DEF Commit, Busy, Serving, InTx
<1>2. log \in Seq(Entry) /\ tx.done \in Seq(Entry) /\ Len(log) \in Nat /\ Len(tx.done) \in Nat
  BY TypeFacts
<1>3. /\ Splits(tx.done, tx.todo, Planned) /\ tx.todo = <<>>
      /\ tx.receipt = Accepted(tx.model.seq) /\ receipts[CurrentCommand].status = "none"
      /\ Decide(readModel, Body[CurrentCommand]) # <<>>
      /\ tx.model.seq = Len(log) + Len(tx.done)
  BY <1>1 DEF LedgerInv, PositionInv, InTx
<1>4. Len(Planned) \in {1, 2}
  BY <1>1, <1>3, PlannedShape
<1>5. Len(tx.done) = Len(Planned) /\ \A i \in 1 .. Len(tx.done) : tx.done[i] = Planned[i]
  <2>1. Len(tx.todo) = 0
    BY <1>3, EmptySeq
  <2> QED BY <1>2, <1>3, <1>4, <2>1 DEF Splits
<1>6. /\ log' \in Seq(Entry) /\ Len(log') = Len(log) + Len(tx.done)
      /\ \A i \in 1 .. Len(log) : log'[i] = log[i]
      /\ \A i \in 1 .. Len(tx.done) : log'[Len(log) + i] = tx.done[i]
  <2>1. /\ log' \in Seq(Entry) /\ Len(log') = Len(log) + Len(tx.done)
        /\ \A i \in 1 .. Len(log) + Len(tx.done) :
             log'[i] = IF i <= Len(log) THEN log[i] ELSE tx.done[i - Len(log)]
    BY <1>1, <1>2, ConcatProperties
  <2>2. ASSUME NEW i \in 1 .. Len(log) PROVE log'[i] = log[i]
    BY <1>2, <2>1
  <2>3. ASSUME NEW i \in 1 .. Len(tx.done) PROVE log'[Len(log) + i] = tx.done[i]
    <3>1. /\ Len(log) + i \in 1 .. Len(log) + Len(tx.done)
          /\ ~(Len(log) + i <= Len(log))
          /\ (Len(log) + i) - Len(log) = i
      BY <1>2
    <3> QED BY <2>1, <3>1
  <2> QED BY <2>1, <2>2, <2>3
<1> QED BY <1>1, <1>2, <1>3, <1>4, <1>5, <1>6, CurrentType

\* The invariants of this section rest on these.
BaseInv == TypeInv /\ PositionInv /\ LedgerInv

LEMMA BaseStep ==
  ASSUME Transactional, BaseInv, [Next]_vars PROVE BaseInv'
  BY TypeStep, PositionStep, LedgerStep DEF BaseInv

LEMMA BaseInit == Init => BaseInv
  BY TypeInit, PositionInit, LedgerInit DEF BaseInv

\* Types, positions and the transaction's ledger together: the base every theorem
\* about processEnvelope builds on.
THEOREM BaseCorrect == ASSUME Transactional PROVE Spec => []BaseInv
<1>1. BaseInv /\ [Next]_vars => BaseInv'
  BY BaseStep
<1> QED BY <1>1, BaseInit, PTL DEF Spec

LEMMA ReceiptsStep ==
  ASSUME Transactional, BaseInv, ReceiptsMatchLog, [Next]_vars
  PROVE  ReceiptsMatchLog'
<1>0. /\ TypeInv /\ PositionInv /\ LedgerInv /\ receipts \in [CommandIds -> Receipt]
  BY DEF BaseInv, TypeInv, TypeOK
<1> SUFFICES ASSUME NEW c \in CommandIds
             PROVE  /\ (receipts'[c].status = "accepted") <=> (PositionsOf(c)' # {})
                    /\ receipts'[c].status = "accepted" =>
                         /\ receipts'[c].seq \in PositionsOf(c)'
                         /\ \A i \in PositionsOf(c)' : i <= receipts'[c].seq
  BY DEF ReceiptsMatchLog
<1>1. /\ (receipts[c].status = "accepted") <=> (PositionsOf(c) # {})
      /\ receipts[c].status = "accepted" =>
           /\ receipts[c].seq \in PositionsOf(c)
           /\ \A i \in PositionsOf(c) : i <= receipts[c].seq
  BY DEF ReceiptsMatchLog
<1>2. CASE Commit
  <2>1. /\ Len(log) \in Nat /\ Len(Planned) \in {1, 2}
        /\ Len(log') = Len(log) + Len(Planned)
        /\ \A i \in 1 .. Len(log) : log'[i] = log[i]
        /\ \A i \in 1 .. Len(Planned) : log'[Len(log) + i] = Planned[i]
        /\ CurrentCommand \in CommandIds
        /\ receipts[CurrentCommand].status = "none"
        /\ receipts' = [receipts EXCEPT ![CurrentCommand] = Accepted(Len(log'))]
    BY <1>0, <1>2, CommitFacts
  <2>2. \A i \in 1 .. Len(Planned) : Planned[i].command = CurrentCommand
    BY <1>0, <1>2, PlannedShape DEF LedgerInv, Commit, InTx, Busy, Serving
  <2>3. CASE c = CurrentCommand
    <3>1. receipts'[c] = Accepted(Len(log'))
      BY <1>0, <2>1, <2>3
    <3>2. Len(log') \in PositionsOf(c)'
      <4>1. Len(Planned) \in 1 .. Len(Planned) /\ Len(log') \in 1 .. Len(log')
        <5>1. Len(Planned) \in Nat /\ Len(Planned) >= 1 /\ Len(log) \in Nat
          <6> DEFINE k == Len(Planned)
          <6>1. Len(log) \in Nat /\ k \in {1, 2}
            BY <2>1
          <6> HIDE DEF k
          <6>2. k \in Nat /\ k >= 1
            BY <6>1
          <6> QED BY <6>1, <6>2 DEF k
        <5>2. Len(log') \in Nat /\ Len(log') >= 1
          BY <2>1, <5>1
        <5> QED BY <5>1, <5>2
      <4>2. log'[Len(log')].command = c
        BY <2>1, <2>2, <2>3, <4>1
      <4> QED BY <4>1, <4>2 DEF PositionsOf
    <3>3. \A i \in PositionsOf(c)' : i <= Len(log')
      BY <2>1 DEF PositionsOf
    <3> QED BY <3>1, <3>2, <3>3 DEF Accepted
  <2>4. CASE c # CurrentCommand
    <3>1. receipts'[c] = receipts[c]
      BY <1>0, <2>1, <2>4
    <3>2. PositionsOf(c)' = PositionsOf(c)
      <4>1. ASSUME NEW i \in 1 .. Len(log'), log'[i].command = c PROVE i \in 1 .. Len(log)
        <5>1. CASE i > Len(log)
          <6>1. i - Len(log) \in 1 .. Len(Planned)
            BY <2>1, <5>1
          <6>2. log'[Len(log) + (i - Len(log))].command = CurrentCommand
            BY <2>1, <2>2, <6>1
          <6>3. Len(log) + (i - Len(log)) = i
            BY <2>1
          <6> QED BY <2>4, <4>1, <6>2, <6>3
        <5> QED BY <2>1, <5>1
      <4>2. 1 .. Len(log) \subseteq 1 .. Len(log')
        BY <2>1
      <4> QED BY <2>1, <4>1, <4>2 DEF PositionsOf
    <3> QED BY <1>1, <3>1, <3>2
  <2> QED BY <2>3, <2>4
<1>3. CASE WriteRejectedReceipt
  <2>1. PositionsOf(c)' = PositionsOf(c)
    BY <1>3 DEF WriteRejectedReceipt, PositionsOf
  <2>2. CASE receipts' = receipts
    BY <1>1, <2>1, <2>2
  <2>3. CASE receipts' = [receipts EXCEPT ![CurrentCommand] =
                            [status |-> "rejected", seq |-> readModel.seq]]
    <3>1. receipts[CurrentCommand].status = "none"
      BY <1>0, <1>3 DEF WriteRejectedReceipt, LedgerInv
    <3> QED BY <1>0, <1>1, <2>1, <2>3, <3>1
  <2> QED BY <1>3, <2>2, <2>3 DEF WriteRejectedReceipt
<1>4. CASE log' = log /\ receipts' = receipts
  BY <1>1, <1>4 DEF PositionsOf
<1> QED BY <1>0, <1>2, <1>3, <1>4, DiskSteps

LEMMA ReceiptsInit == Init => ReceiptsMatchLog
<1> SUFFICES ASSUME Init, NEW c \in CommandIds
             PROVE  PositionsOf(c) = {} /\ receipts[c].status = "none"
  BY DEF ReceiptsMatchLog
<1> QED BY EmptySeq DEF Init, PositionsOf, NoReceipt

\* OrchestrationEngine.processEnvelope writes the receipt in the transaction
\* that appends the events: for every command, at every instant, the receipt
\* says "accepted" exactly when the events are in the log.
THEOREM ReceiptsAlwaysMatchLog == ASSUME Transactional PROVE Spec => []ReceiptsMatchLog
<1>1. BaseInv /\ ReceiptsMatchLog /\ [Next]_vars => ReceiptsMatchLog'
  BY ReceiptsStep
<1> QED BY <1>1, ReceiptsInit, BaseCorrect, PTL DEF Spec

---------------------------------------------------------------------------
(* Consequences: once only, whole turns, an immutable history.             *)

\* An entry of the log after a commit is an old one at its old position, or
\* one of the command the commit is for, which has none among the old ones.
\* Of the new ones there is one, or the two of a turn start.
LEMMA CommittedEntries ==
  ASSUME Transactional, BaseInv, ReceiptsMatchLog, Commit
  PROVE  /\ Len(log) \in Nat /\ Len(log') \in Nat
         /\ Len(log') = Len(log) + 1 \/ Len(log') = Len(log) + 2
         /\ \A i \in 1 .. Len(log) : /\ log'[i] = log[i]
                                     /\ log[i].command # CurrentCommand
         /\ log'[Len(log) + 1].command = CurrentCommand
         /\ Len(log') = Len(log) + 1 => Body[CurrentCommand].type # "thread.turn.start"
         /\ Len(log') = Len(log) + 2 =>
              /\ log'[Len(log) + 2].command = CurrentCommand
              /\ log'[Len(log) + 1].event.type = "thread.message-sent"
              /\ log'[Len(log) + 2].event.type = "thread.turn-start-requested"
<1> DEFINE n == Len(log)
           k == Len(Planned)
<1>1. /\ n \in Nat /\ k \in {1, 2} /\ Len(log') = n + k
      /\ \A i \in 1 .. n : log'[i] = log[i]
      /\ \A i \in 1 .. k : log'[n + i] = Planned[i]
      /\ CurrentCommand \in CommandIds /\ receipts[CurrentCommand].status = "none"
  BY CommitFacts DEF BaseInv
<1>2. /\ \A i \in 1 .. k : Planned[i].command = CurrentCommand
      /\ k = 1 => Body[CurrentCommand].type # "thread.turn.start"
      /\ k = 2 => /\ Planned[1].event.type = "thread.message-sent"
                  /\ Planned[2].event.type = "thread.turn-start-requested"
  BY PlannedShape DEF BaseInv, LedgerInv, Commit, InTx, Busy, Serving
<1>3. \A i \in 1 .. n : log[i].command # CurrentCommand
  BY <1>1 DEF ReceiptsMatchLog, PositionsOf
<1> HIDE DEF k
<1>4. n \in Nat /\ (k = 1 \/ k = 2) /\ Len(log') = n + k
  BY <1>1
<1>5. /\ n + k \in Nat /\ (n + k = n + 1 \/ n + k = n + 2)
      /\ (n + k = n + 1 => k = 1) /\ (n + k = n + 2 => k = 2)
      /\ 1 \in 1 .. k /\ (k = 2 => 2 \in 1 .. k)
  BY <1>4
<1> QED BY <1>1, <1>2, <1>3, <1>4, <1>5

LEMMA OnceStep ==
  ASSUME Transactional, BaseInv, ReceiptsMatchLog, AppliedAtMostOnce, [Next]_vars
  PROVE  AppliedAtMostOnce'
<1>1. \A i, j \in 1 .. Len(log) :
        (log[i].command = log[j].command /\ i # j) => log[i].event.type # log[j].event.type
  BY DEF AppliedAtMostOnce
<1>2. CASE Commit
  <2> SUFFICES ASSUME NEW i \in 1 .. Len(log'), NEW j \in 1 .. Len(log'),
                      log'[i].command = log'[j].command, i < j
               PROVE  log'[i].event.type # log'[j].event.type
    <3>1. Len(log') \in Nat
      BY <1>2, CommittedEntries
    <3> QED BY <3>1 DEF AppliedAtMostOnce
  <2>1. /\ Len(log) \in Nat /\ Len(log') \in Nat
        /\ Len(log') = Len(log) + 1 \/ Len(log') = Len(log) + 2
        /\ \A r \in 1 .. Len(log) : log'[r] = log[r] /\ log[r].command # CurrentCommand
        /\ log'[Len(log) + 1].command = CurrentCommand
        /\ Len(log') = Len(log) + 2 =>
              /\ log'[Len(log) + 2].command = CurrentCommand
              /\ log'[Len(log) + 1].event.type = "thread.message-sent"
              /\ log'[Len(log) + 2].event.type = "thread.turn-start-requested"
    BY <1>2, CommittedEntries
  <2>2. CASE j <= Len(log)
    <3>1. i \in 1 .. Len(log) /\ j \in 1 .. Len(log) /\ i # j
      BY <2>1, <2>2
    <3> QED BY <1>1, <2>1, <3>1
  <2>3. CASE j > Len(log)
    <3>1. (j = Len(log) + 1 \/ j = Len(log) + 2) /\ log'[j].command = CurrentCommand
      BY <2>1, <2>3
    <3>2. i \notin 1 .. Len(log)
      BY <2>1, <3>1
    <3>3. i = Len(log) + 1 /\ j = Len(log) + 2 /\ Len(log') = Len(log) + 2
      BY <2>1, <3>1, <3>2
    <3> QED BY <2>1, <3>3
  <2> QED BY <2>1, <2>2, <2>3
<1>3. CASE log' = log
  BY <1>1, <1>3 DEF AppliedAtMostOnce
<1> QED BY <1>2, <1>3, DiskSteps DEF BaseInv, WriteRejectedReceipt

\* Dispatching a command id again, after whatever failure or crash, never puts
\* its events into the log a second time (the receipt lookup of
\* OrchestrationEngine.processEnvelope).
THEOREM AtMostOnce == ASSUME Transactional PROVE Spec => []AppliedAtMostOnce
<1>1. Init => AppliedAtMostOnce
  BY EmptySeq DEF Init, AppliedAtMostOnce
<1>2. BaseInv /\ ReceiptsMatchLog /\ AppliedAtMostOnce /\ [Next]_vars => AppliedAtMostOnce'
  BY OnceStep
<1> QED BY <1>1, <1>2, BaseCorrect, ReceiptsAlwaysMatchLog, PTL DEF Spec

LEMMA WholeStep ==
  ASSUME Transactional, BaseInv, ReceiptsMatchLog, TurnStartIsWhole, [Next]_vars
  PROVE  TurnStartIsWhole'
<1>1. \A i \in 1 .. Len(log) :
        Body[log[i].command].type = "thread.turn.start" =>
          IF log[i].event.type = "thread.message-sent"
          THEN /\ i < Len(log)
               /\ log[i + 1].command = log[i].command
               /\ log[i + 1].event.type = "thread.turn-start-requested"
          ELSE /\ i > 1
               /\ log[i - 1].command = log[i].command
               /\ log[i - 1].event.type = "thread.message-sent"
  BY DEF TurnStartIsWhole
<1>2. CASE Commit
  <2> SUFFICES ASSUME NEW i \in 1 .. Len(log'),
                      Body[log'[i].command].type = "thread.turn.start"
               PROVE  IF log'[i].event.type = "thread.message-sent"
                      THEN /\ i < Len(log')
                           /\ log'[i + 1].command = log'[i].command
                           /\ log'[i + 1].event.type = "thread.turn-start-requested"
                      ELSE /\ i > 1
                           /\ log'[i - 1].command = log'[i].command
                           /\ log'[i - 1].event.type = "thread.message-sent"
    BY DEF TurnStartIsWhole
  <2>1. /\ Len(log) \in Nat /\ Len(log') \in Nat
        /\ Len(log') = Len(log) + 1 \/ Len(log') = Len(log) + 2
        /\ \A r \in 1 .. Len(log) : log'[r] = log[r]
        /\ log'[Len(log) + 1].command = CurrentCommand
        /\ Len(log') = Len(log) + 1 => Body[CurrentCommand].type # "thread.turn.start"
        /\ Len(log') = Len(log) + 2 =>
              /\ log'[Len(log) + 2].command = CurrentCommand
              /\ log'[Len(log) + 1].event.type = "thread.message-sent"
              /\ log'[Len(log) + 2].event.type = "thread.turn-start-requested"
    BY <1>2, CommittedEntries
  <2>2. CASE i <= Len(log)
    <3>1. i \in 1 .. Len(log) /\ (i < Len(log) => i + 1 \in 1 .. Len(log))
          /\ (i > 1 => i - 1 \in 1 .. Len(log)) /\ (i < Len(log) => i < Len(log'))
      BY <2>1, <2>2
    <3> QED BY <1>1, <2>1, <3>1
  <2>3. CASE i > Len(log)
    <3>1. i = Len(log) + 1 \/ i = Len(log) + 2
      BY <2>1, <2>3
    <3>2. Len(log') = Len(log) + 2
      BY <2>1, <2>3, <3>1
    <3>3. CASE i = Len(log) + 1
      <4>1. i < Len(log') /\ i + 1 = Len(log) + 2
        BY <2>1, <3>2, <3>3
      <4> QED BY <2>1, <3>2, <3>3, <4>1
    <3>4. CASE i = Len(log) + 2
      <4>1. i > 1 /\ i - 1 = Len(log) + 1
        BY <2>1, <3>4
      <4> QED BY <2>1, <3>2, <3>4, <4>1
    <3> QED BY <3>1, <3>3, <3>4
  <2> QED BY <2>1, <2>2, <2>3
<1>3. CASE log' = log
  BY <1>1, <1>3 DEF TurnStartIsWhole
<1> QED BY <1>2, <1>3, DiskSteps DEF BaseInv, WriteRejectedReceipt

\* A user message and the request for its turn (the two events of
\* thread.turn.start in decider.ts) are in the log together or not at all.
THEOREM TurnStartsAreWhole == ASSUME Transactional PROVE Spec => []TurnStartIsWhole
<1>1. Init => TurnStartIsWhole
  BY EmptySeq DEF Init, TurnStartIsWhole
<1>2. BaseInv /\ ReceiptsMatchLog /\ TurnStartIsWhole /\ [Next]_vars => TurnStartIsWhole'
  BY WholeStep
<1> QED BY <1>1, <1>2, BaseCorrect, ReceiptsAlwaysMatchLog, PTL DEF Spec

\* Committed events keep their sequence and their content, and a receipt that
\* was written is never written again: the log only grows at its end.
THEOREM HistoryNeverChanges == ASSUME Transactional PROVE Spec => HistoryIsImmutable
<1> DEFINE Kept == /\ Len(log) <= Len(log')
                   /\ \A i \in 1 .. Len(log) : log'[i] = log[i]
                   /\ \A c \in CommandIds :
                        receipts[c].status # "none" => receipts'[c] = receipts[c]
<1>1. ASSUME BaseInv, ReceiptsMatchLog, [Next]_vars PROVE Kept
  <2>0. TypeInv /\ LedgerInv /\ PositionInv /\ receipts \in [CommandIds -> Receipt]
        /\ Len(log) \in Nat
    BY <1>1, TypeFacts DEF BaseInv, TypeInv, TypeOK
  <2>1. CASE Commit
    <3>1. /\ \A i \in 1 .. Len(log) : log'[i] = log[i]
          /\ Len(log') = Len(log) + 1 \/ Len(log') = Len(log) + 2
      BY <1>1, <2>1, CommittedEntries
    <3>2. /\ receipts[CurrentCommand].status = "none"
          /\ receipts' = [receipts EXCEPT ![CurrentCommand] = Accepted(Len(log'))]
      BY <2>0, <2>1, CommitFacts
    <3>3. Len(log) <= Len(log')
      BY <2>0, <3>1
    <3> QED BY <2>0, <3>1, <3>2, <3>3
  <2>2. CASE WriteRejectedReceipt
    <3>1. log' = log /\ receipts[CurrentCommand].status = "none"
          /\ \/ receipts' = receipts
             \/ receipts' = [receipts EXCEPT ![CurrentCommand] =
                               [status |-> "rejected", seq |-> readModel.seq]]
      BY <2>0, <2>2 DEF WriteRejectedReceipt, LedgerInv
    <3> QED BY <2>0, <3>1
  <2>3. CASE log' = log /\ receipts' = receipts
    BY <2>0, <2>3
  <2> QED BY <1>1, <2>0, <2>1, <2>2, <2>3, DiskSteps
<1>2. BaseInv /\ ReceiptsMatchLog /\ [Next]_vars => [Kept]_vars
  BY <1>1
<1> HIDE DEF Kept
<1>3. Spec => [][Kept]_vars
  BY <1>2, BaseCorrect, ReceiptsAlwaysMatchLog, PTL DEF Spec
<1> QED BY <1>3 DEF HistoryIsImmutable, Kept

---------------------------------------------------------------------------
(* What callers are told.                                                  *)

\* Every "accepted" a caller was given is the one of the command's receipt.
AnswersInv ==
    \A r \in 1 .. Len(requests) :
      answers[r].status = "accepted" => receipts[requests[r]] = Accepted(answers[r].seq)

\* The end of processEnvelope gives the caller in hand its answer.
LEMMA SettleAnswers ==
  ASSUME TypeInv, AnswersInv, pc \in Busy, NEW a, Settle(a), UNCHANGED <<receipts, requests>>,
         a.status = "accepted" => receipts[CurrentCommand] = Accepted(a.seq)
  PROVE  AnswersInv'
<1>1. /\ answers \in Seq(Answer) /\ Len(answers) = Len(requests)
      /\ cur \in 1 .. Len(requests) /\ answers' = [answers EXCEPT ![cur] = a]
  BY CurrentType DEF TypeInv, TypeOK, Settle
<1> SUFFICES ASSUME NEW r \in 1 .. Len(requests), answers'[r].status = "accepted"
             PROVE  receipts[requests[r]] = Accepted(answers'[r].seq)
  BY DEF AnswersInv
<1>2. CASE r = cur
  <2>1. answers'[r] = a
    BY <1>1, <1>2
  <2> QED BY <1>2, <2>1 DEF CurrentCommand
<1>3. CASE r # cur
  <2>1. answers'[r] = answers[r]
    BY <1>1, <1>3
  <2> QED BY <2>1 DEF AnswersInv
<1> QED BY <1>2, <1>3

\* A step that changes a receipt writes one where there was none.
LEMMA ReceiptsKept ==
  ASSUME Transactional, BaseInv, [Next]_vars, NEW c \in CommandIds, receipts[c].status # "none"
  PROVE  receipts'[c] = receipts[c]
<1>1. TypeInv /\ LedgerInv /\ PositionInv /\ receipts \in [CommandIds -> Receipt]
  BY DEF BaseInv, TypeInv, TypeOK
<1>2. CASE Commit
  <2>1. /\ receipts[CurrentCommand].status = "none"
        /\ receipts' = [receipts EXCEPT ![CurrentCommand] = Accepted(Len(log'))]
    BY <1>1, <1>2, CommitFacts
  <2> QED BY <1>1, <2>1
<1>3. CASE WriteRejectedReceipt
  <2>1. /\ receipts[CurrentCommand].status = "none"
        /\ \/ receipts' = receipts
           \/ receipts' = [receipts EXCEPT ![CurrentCommand] =
                             [status |-> "rejected", seq |-> readModel.seq]]
    BY <1>1, <1>3 DEF WriteRejectedReceipt, LedgerInv
  <2> QED BY <1>1, <2>1
<1> QED BY <1>1, <1>2, <1>3, DiskSteps

\* Only dispatches, answers and crashes change what callers know.
LEMMA AnswerSteps ==
  ASSUME [Next]_vars
  PROVE  \/ UNCHANGED <<requests, answers>>
         \/ \E c \in CommandIds : Dispatch(c)
         \/ AnswerFromReceipt \/ AnswerAccepted \/ AnswerFailed \/ Crash
<1> USE DEF callers
<1>1. CASE Startup
  BY <1>1 DEF Startup, Restart, BootstrapEvent, BootstrapNextProjector, BootstrapDone,
              LoadEvent, StartWorker
<1>2. CASE Worker
  BY <1>2 DEF Worker, TakeEnvelope, DecideCommand, AppendEvent, ProjectAppended,
              WriteReceipt, Commit, InstallReadModel, PublishEvent, ReadPersisted,
              ReplayPersisted, InstallReplayed, ReconcileDone, WriteRejectedReceipt
<1>3. CASE Environment
  BY <1>3 DEF Environment, StoreFault, ReconcileFault, Upgrade
<1>4. CASE UNCHANGED vars
  BY <1>4 DEF vars
<1> QED BY <1>1, <1>2, <1>3, <1>4 DEF Next

LEMMA AnswersStep ==
  ASSUME Transactional, BaseInv, AnswersInv, [Next]_vars
  PROVE  AnswersInv'
<1> USE DEF callers
<1>0. /\ TypeInv /\ LedgerInv /\ receipts \in [CommandIds -> Receipt]
      /\ requests \in Seq(CommandIds) /\ answers \in Seq(Answer)
      /\ Len(answers) = Len(requests) /\ Len(requests) \in Nat
  BY LenProperties DEF BaseInv, TypeInv, TypeOK
<1>1. CASE UNCHANGED <<requests, answers>>
  <2> SUFFICES ASSUME NEW r \in 1 .. Len(requests), answers[r].status = "accepted"
               PROVE  receipts'[requests[r]] = Accepted(answers[r].seq)
    BY <1>1 DEF AnswersInv
  <2>1. receipts[requests[r]] = Accepted(answers[r].seq) /\ requests[r] \in CommandIds
    BY <1>0, ElementOfSeq DEF AnswersInv
  <2> QED BY <2>1, ReceiptsKept DEF Accepted
<1>2. ASSUME NEW c \in CommandIds, Dispatch(c) PROVE AnswersInv'
  <2>1. /\ requests' = Append(requests, c) /\ answers' = Append(answers, Outcome("pending"))
        /\ receipts' = receipts /\ Outcome("pending") \in Answer
    BY <1>2 DEF Dispatch, disk, Outcome, Answer
  <2>2. /\ Len(requests') = Len(requests) + 1
        /\ \A r \in 1 .. Len(requests) : requests'[r] = requests[r] /\ answers'[r] = answers[r]
        /\ answers'[Len(requests) + 1] = Outcome("pending")
    BY <1>0, <2>1, AppendProperties
  <2> SUFFICES ASSUME NEW r \in 1 .. Len(requests'), answers'[r].status = "accepted"
               PROVE  receipts[requests'[r]] = Accepted(answers'[r].seq)
    BY <2>1 DEF AnswersInv
  <2>3. CASE r \in 1 .. Len(requests)
    BY <2>2, <2>3 DEF AnswersInv
  <2>4. CASE r \notin 1 .. Len(requests)
    <3>1. r = Len(requests) + 1
      BY <1>0, <2>2, <2>4
    <3> QED BY <2>2, <3>1 DEF Outcome
  <2> QED BY <2>3, <2>4
<1>3. CASE AnswerFromReceipt
  <2>1. /\ pc \in Busy /\ UNCHANGED <<receipts, requests>>
        /\ CurrentCommand \in CommandIds /\ receipts[CurrentCommand] \in Receipt
    BY <1>0, <1>3, CurrentType DEF AnswerFromReceipt, Busy, Serving, disk
  <2>2. CASE receipts[CurrentCommand].status = "accepted"
    <3>1. Settle(Accepted(receipts[CurrentCommand].seq))
      BY <1>3, <2>2 DEF AnswerFromReceipt
    <3>2. receipts[CurrentCommand] = Accepted(receipts[CurrentCommand].seq)
      BY <2>1, <2>2 DEF Receipt, Accepted
    <3>3. Accepted(receipts[CurrentCommand].seq).seq = receipts[CurrentCommand].seq
      BY DEF Accepted
    <3> QED BY <1>0, <2>1, <3>1, <3>2, <3>3, SettleAnswers
  <2>3. CASE receipts[CurrentCommand].status # "accepted"
    <3>1. Settle(Outcome("previouslyRejected"))
      BY <1>3, <2>3 DEF AnswerFromReceipt
    <3>2. Outcome("previouslyRejected").status # "accepted"
      BY DEF Outcome
    <3> QED BY <1>0, <2>1, <3>1, <3>2, SettleAnswers
  <2> QED BY <2>2, <2>3
<1>4. CASE AnswerAccepted
  <2>1. /\ pc \in Busy /\ UNCHANGED <<receipts, requests>>
        /\ Settle(Accepted(readModel.seq))
        /\ receipts[CurrentCommand] = Accepted(readModel.seq)
    BY <1>0, <1>4 DEF AnswerAccepted, Busy, Serving, disk, LedgerInv
  <2>2. Accepted(readModel.seq).seq = readModel.seq
    BY DEF Accepted
  <2> QED BY <1>0, <2>1, <2>2, SettleAnswers
<1>5. CASE AnswerFailed
  <2>1. /\ pc \in Busy /\ UNCHANGED <<receipts, requests>>
        /\ Settle(Outcome(IF err = "invariant" THEN "rejected" ELSE "storeFailed"))
    BY <1>5 DEF AnswerFailed, Busy, Serving, disk
  <2>2. Outcome(IF err = "invariant" THEN "rejected" ELSE "storeFailed").status # "accepted"
    BY DEF Outcome
  <2> QED BY <1>0, <2>1, <2>2, SettleAnswers
<1>6. CASE Crash
  <2>1. /\ requests' = requests /\ receipts' = receipts
        /\ answers' = [r \in 1 .. Len(answers) |->
                         IF answers[r].status = "pending" THEN Outcome("lost") ELSE answers[r]]
    BY <1>6 DEF Crash, disk
  <2>2. \A r \in 1 .. Len(requests) :
          answers'[r].status = "accepted" => answers'[r] = answers[r]
    BY <1>0, <2>1 DEF Outcome
  <2> QED BY <2>1, <2>2 DEF AnswersInv
<1> QED BY <1>1, <1>2, <1>3, <1>4, <1>5, <1>6, AnswerSteps

\* An answer "accepted, sequence n" stays true for ever: n is the last event of
\* the command, whatever crashes, retries and commands come after it.
THEOREM AcceptedAnswersStayTrue ==
  ASSUME Transactional PROVE Spec => []AcceptedAnswersAreDurable
<1>1. Init => AnswersInv
  BY EmptySeq DEF Init, AnswersInv
<1>2. BaseInv /\ AnswersInv /\ [Next]_vars => AnswersInv'
  BY AnswersStep
<1>3. ASSUME BaseInv, AnswersInv, ReceiptsMatchLog PROVE AcceptedAnswersAreDurable
  <2>1. requests \in Seq(CommandIds)
    BY <1>3 DEF BaseInv, TypeInv, TypeOK
  <2> SUFFICES ASSUME NEW r \in 1 .. Len(requests), answers[r].status = "accepted"
               PROVE  /\ answers[r].seq \in PositionsOf(requests[r])
                      /\ \A i \in PositionsOf(requests[r]) : i <= answers[r].seq
    BY DEF AcceptedAnswersAreDurable
  <2>2. receipts[requests[r]] = Accepted(answers[r].seq) /\ requests[r] \in CommandIds
    BY <1>3, <2>1, ElementOfSeq DEF AnswersInv
  <2>3. receipts[requests[r]].status = "accepted" /\ receipts[requests[r]].seq = answers[r].seq
    BY <2>2 DEF Accepted
  <2> QED BY <1>3, <2>2, <2>3 DEF ReceiptsMatchLog
<1> QED BY <1>1, <1>2, <1>3, BaseCorrect, ReceiptsAlwaysMatchLog, PTL DEF Spec

---------------------------------------------------------------------------
(* What subscribers see.                                                   *)

\* Published events, those waiting in the outbox and those just committed are
\* together the part of the log written since the worker started.
DeliveryInv ==
    /\ pc \in {"down"} \cup Starting => published = <<>>
    /\ pc # "publish" => outbox = <<>>
    /\ pc \in Serving \ {"install"} =>
         bootLength + Len(published) + Len(outbox) = Len(log)
    /\ pc = "install" =>
         /\ bootLength + Len(published) + Len(tx.done) = Len(log)
         /\ Len(tx.done) <= Len(log)
    /\ \A i \in 1 .. Len(published) : published[i] = bootLength + i
    /\ \A i \in 1 .. Len(outbox) : outbox[i] = bootLength + Len(published) + i

LEMMA DeliveryInit == Init => DeliveryInv
  BY EmptySeq DEF Init, DeliveryInv, Serving

\* Every step keeps what is published, waiting and logged together.
LEMMA DeliveryStep ==
  ASSUME Transactional, BaseInv, DeliveryInv, [Next]_vars
  PROVE  DeliveryInv'
<1> USE DEF disk, work, delivery, callers
<1>0. /\ Len(log) \in Nat /\ Len(tx.done) \in Nat /\ tx \in Tx /\ tx.done \in Seq(Entry)
      /\ log \in Seq(Entry) /\ bootLength \in Nat /\ startSeq \in Nat /\ readModel.seq \in Nat
      /\ outbox \in Seq(Nat) /\ Len(outbox) \in Nat
      /\ published \in Seq(Nat) /\ Len(published) \in Nat
      /\ TypeInv /\ PositionInv
  BY TypeFacts DEF BaseInv
<1>1. CASE Restart
  BY <1>1, <1>0 DEF Restart, DeliveryInv, Serving, Starting
<1>2. CASE BootstrapEvent
  BY <1>2, <1>0 DEF BootstrapEvent, DeliveryInv, Serving, Starting
<1>3. CASE BootstrapNextProjector
  BY <1>3, <1>0 DEF BootstrapNextProjector, DeliveryInv, Serving, Starting
<1>4. CASE BootstrapDone
  BY <1>4, <1>0 DEF BootstrapDone, DeliveryInv, Serving, Starting
<1>5. CASE LoadEvent
  BY <1>5, <1>0 DEF LoadEvent, DeliveryInv, Serving, Starting
<1>6. CASE StartWorker
  <2>1. Len(published) = 0 /\ Len(outbox) = 0 /\ readModel.seq = Len(log)
    BY <1>6, <1>0, EmptySeq DEF StartWorker, Serving, DeliveryInv, Starting, PositionInv
  <2> QED BY <1>6, <1>0, <2>1 DEF StartWorker, DeliveryInv, Serving, Starting
<1>7. ASSUME NEW x \in CommandIds, Dispatch(x) PROVE DeliveryInv'
  BY <1>7, <1>0 DEF Dispatch, DeliveryInv, Serving, Starting
<1>8. CASE TakeEnvelope
  BY <1>8, <1>0 DEF TakeEnvelope, DeliveryInv, Serving, Starting
<1>9. CASE AnswerFromReceipt
  BY <1>9, <1>0 DEF AnswerFromReceipt, Settle, DeliveryInv, Serving, Starting
<1>10. CASE DecideCommand
  BY <1>10, <1>0 DEF DecideCommand, DeliveryInv, Serving, Starting
<1>11. CASE AppendEvent
  <2>1. log' = log
    BY <1>11 DEF AppendEvent
  <2> QED BY <1>11, <1>0, <2>1 DEF AppendEvent, DeliveryInv, Serving, Starting
<1>12. CASE ProjectAppended
  BY <1>12, <1>0 DEF ProjectAppended, DeliveryInv, Serving, Starting
<1>13. CASE WriteReceipt
  BY <1>13, <1>0 DEF WriteReceipt, DeliveryInv, Serving, Starting
<1>14. CASE Commit
  <2>1. Len(log') = Len(log) + Len(tx.done) /\ pc = "commit" /\ pc' = "install"
    BY <1>14, <1>0, ConcatProperties DEF Commit
  <2>2. Len(outbox) = 0 /\ bootLength + Len(published) = Len(log)
    BY <1>14, <1>0, EmptySeq DEF Commit, DeliveryInv, Serving
  <2>3. bootLength + Len(published) + Len(tx.done) = Len(log') /\ Len(tx.done) <= Len(log')
    <3> DEFINE n == Len(log)
               k == Len(tx.done)
    <3>1. n \in Nat /\ k \in Nat /\ bootLength + Len(published) = n /\ Len(log') = n + k
      BY <1>0, <2>1, <2>2
    <3> HIDE DEF n, k
    <3>2. k <= n + k /\ bootLength + Len(published) + k = n + k
      BY <3>1
    <3> QED BY <3>1, <3>2 DEF k
  <2> QED BY <1>14, <2>1, <2>3 DEF Commit, DeliveryInv, Serving, Starting
<1>15. CASE InstallReadModel
  <2>1. /\ tx.model.seq = Len(log) /\ Len(tx.done) <= Len(log)
        /\ bootLength + Len(published) + Len(tx.done) = Len(log)
    BY <1>15, <1>0 DEF InstallReadModel, PositionInv, DeliveryInv
  <2>2. /\ outbox' = SequencesFrom(Len(log) - Len(tx.done), tx.done)
        /\ Len(log) - Len(tx.done) \in Nat
        /\ Len(log) - Len(tx.done) = bootLength + Len(published)
    <3> DEFINE n == Len(log)
               k == Len(tx.done)
               b == bootLength
               m == Len(published)
    <3>1. n \in Nat /\ k \in Nat /\ b \in Nat /\ m \in Nat /\ k <= n /\ b + m + k = n
      BY <1>0, <2>1
    <3>2. outbox' = SequencesFrom(n - k, tx.done)
      BY <1>15, <2>1 DEF InstallReadModel
    <3> HIDE DEF n, k, b, m
    <3>3. n - k \in Nat /\ n - k = b + m
      BY <3>1
    <3> QED BY <3>2, <3>3 DEF n, k, b, m
  <2>3. /\ Len(outbox') = Len(tx.done)
        /\ \A i \in 1 .. Len(outbox') : outbox'[i] = bootLength + Len(published) + i
    <3> DEFINE b == Len(log) - Len(tx.done)
               d == tx.done
    <3>1. outbox' = SequencesFrom(b, d) /\ b \in Nat /\ d \in Seq(Entry)
      BY <1>0, <2>2
    <3> HIDE DEF b, d
    <3>2. Len(outbox') = Len(d) /\ \A i \in 1 .. Len(outbox') : outbox'[i] = b + i
      BY <3>1, SequencesFromType
    <3>3. b = bootLength + Len(published)
      BY <2>2 DEF b
    <3> QED BY <3>2, <3>3 DEF d
  <2> QED BY <1>15, <1>0, <2>1, <2>3 DEF InstallReadModel, DeliveryInv, Serving, Starting
<1>16. CASE PublishEvent
  <2>1. /\ outbox # <<>> /\ pc = "publish"
        /\ outbox' = Tail(outbox) /\ published' = Append(published, Head(outbox))
        /\ UNCHANGED <<log, pc, bootLength, tx>>
    BY <1>16 DEF PublishEvent
  <2>2. /\ Head(outbox) = outbox[1] /\ Head(outbox) \in Nat /\ Len(outbox) > 0
        /\ Len(outbox') = Len(outbox) - 1
        /\ \A i \in 1 .. Len(outbox') : outbox'[i] = outbox[i + 1]
    BY <1>0, <2>1, HeadTailProperties, EmptySeq
  <2>3. /\ Len(published') = Len(published) + 1
        /\ \A i \in 1 .. Len(published) : published'[i] = published[i]
        /\ published'[Len(published) + 1] = outbox[1]
    BY <1>0, <2>1, <2>2, AppendProperties
  <2>4. outbox[1] = bootLength + Len(published) + 1
    BY <1>0, <2>2 DEF DeliveryInv
  <2>5. \A i \in 1 .. Len(published') : published'[i] = bootLength + i
    <3> SUFFICES ASSUME NEW i \in 1 .. Len(published') PROVE published'[i] = bootLength + i
      OBVIOUS
    <3>1. i \in 1 .. Len(published) \/ i = Len(published) + 1
      <4> DEFINE m == Len(published)
      <4>1. m \in Nat /\ Len(published') = m + 1 /\ i \in 1 .. Len(published')
        BY <1>0, <2>3
      <4> HIDE DEF m
      <4>2. i \in 1 .. m \/ i = m + 1
        BY <4>1
      <4> QED BY <4>2 DEF m
    <3>2. CASE i \in 1 .. Len(published)
      BY <2>3, <3>2 DEF DeliveryInv
    <3>3. CASE i = Len(published) + 1
      <4>1. bootLength + Len(published) + 1 = bootLength + i
        BY <1>0, <3>3
      <4> QED BY <2>3, <2>4, <3>3, <4>1
    <3> QED BY <3>1, <3>2, <3>3
  <2>6. \A i \in 1 .. Len(outbox') : outbox'[i] = bootLength + Len(published') + i
    <3> SUFFICES ASSUME NEW i \in 1 .. Len(outbox')
                 PROVE  outbox'[i] = bootLength + Len(published') + i
      OBVIOUS
    <3>1. i + 1 \in 1 .. Len(outbox) /\ outbox'[i] = outbox[i + 1]
      <4> DEFINE n == Len(outbox)
      <4>1. n \in Nat /\ Len(outbox') = n - 1 /\ i \in 1 .. Len(outbox')
        BY <1>0, <2>2
      <4> HIDE DEF n
      <4>2. i + 1 \in 1 .. n
        BY <4>1
      <4> QED BY <2>2, <4>2 DEF n
    <3>2. outbox[i + 1] = bootLength + Len(published) + (i + 1)
      BY <3>1 DEF DeliveryInv
    <3> QED BY <1>0, <2>3, <3>1, <3>2
  <2>7. bootLength + Len(published') + Len(outbox') = Len(log)
    BY <1>0, <2>1, <2>2, <2>3 DEF DeliveryInv, Serving
  <2> QED BY <2>1, <2>5, <2>6, <2>7 DEF DeliveryInv, Serving, Starting
<1>17. CASE AnswerAccepted
  BY <1>17, <1>0 DEF AnswerAccepted, Settle, DeliveryInv, Serving, Starting
<1>18. CASE StoreFault
  BY <1>18, <1>0 DEF StoreFault, DeliveryInv, Serving, Starting
<1>19. CASE ReadPersisted
  BY <1>19, <1>0 DEF ReadPersisted, DeliveryInv, Serving, Starting
<1>20. CASE ReconcileFault
  BY <1>20, <1>0 DEF ReconcileFault, DeliveryInv, Serving, Starting
<1>21. CASE ReplayPersisted
  BY <1>21, <1>0 DEF ReplayPersisted, DeliveryInv, Serving, Starting
<1>22. CASE InstallReplayed
  <2>1. Len(tx.done) = 0 /\ Len(outbox) = 0
    BY <1>22, <1>0, EmptySeq DEF InstallReplayed, PositionInv, DeliveryInv
  <2>2. outbox' \in Seq(Nat) /\ Len(outbox') = 0
    BY <1>22, <1>0, <2>1, SequencesFromType DEF InstallReplayed
  <2> QED BY <1>22, <1>0, <2>1, <2>2 DEF InstallReplayed, DeliveryInv, Serving, Starting
<1>23. CASE ReconcileDone
  BY <1>23, <1>0 DEF ReconcileDone, DeliveryInv, Serving, Starting
<1>24. CASE WriteRejectedReceipt
  BY <1>24, <1>0 DEF WriteRejectedReceipt, DeliveryInv, Serving, Starting
<1>25. CASE AnswerFailed
  BY <1>25, <1>0 DEF AnswerFailed, Settle, DeliveryInv, Serving, Starting
<1>26. CASE Crash
  <2>1. outbox' = <<>> /\ published' = <<>> /\ pc' = "down"
    BY <1>26 DEF Crash
  <2> QED BY <2>1, EmptySeq DEF DeliveryInv, Serving, Starting
<1>27. ASSUME NEW x \in Projectors, Upgrade(x) PROVE DeliveryInv'
  BY <1>27, <1>0 DEF Upgrade, DeliveryInv, Serving, Starting
<1>28. CASE UNCHANGED vars
  BY <1>28, <1>0 DEF vars, DeliveryInv, Serving, Starting
<1> QED
  BY <1>1, <1>2, <1>3, <1>4, <1>5, <1>6, <1>7, <1>8, <1>9, <1>10, <1>11, <1>12, <1>13,
     <1>14, <1>15, <1>16, <1>17, <1>18, <1>19, <1>20, <1>21, <1>22, <1>23, <1>24, <1>25,
     <1>26, <1>27, <1>28
     DEF Next, Startup, Worker, Environment

\* Subscribers of subscribeDomainEvents get the events committed since the
\* process started, in log order, each once and with no gap.
THEOREM PublicationFollowsLog == ASSUME Transactional PROVE Spec => []PublishedInLogOrder
<1>1. BaseInv /\ DeliveryInv /\ [Next]_vars => DeliveryInv'
  BY DeliveryStep
<1>2. ASSUME BaseInv, DeliveryInv PROVE PublishedInLogOrder
  <2>1. pc = "idle" => Len(outbox) = 0
    BY <1>2, EmptySeq DEF DeliveryInv
  <2>2. Len(outbox) \in Nat /\ Len(published) \in Nat /\ bootLength \in Nat
    BY <1>2, TypeFacts DEF BaseInv
  <2> QED BY <1>2, <2>1, <2>2 DEF DeliveryInv, PublishedInLogOrder, Serving
<1> QED BY <1>1, <1>2, DeliveryInit, BaseCorrect, PTL DEF Spec
=============================================================================
