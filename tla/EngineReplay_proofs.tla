-------------------------- MODULE EngineReplay_proofs --------------------------
(***************************************************************************)
(* Theorems about OrchestrationEngine that look inside the events: the     *)
(* read model is the replay of the log, the log tells a possible story of  *)
(* every thread, and the engine implements CommandLog.  Replay is a        *)
(* recursive function; what it computes is proved by DataInduction.        *)
(***************************************************************************)
EXTENDS OrchestrationEngine_proofs, EngineRefinement, DataInduction

---------------------------------------------------------------------------
(* Replay.                                                                 *)

\* Replay of a log of entries s, of which the engine's Replay is the one of log.
ReplayOf(s, n) ==
    LET m[i \in 0 .. n] ==
          IF i = 0 THEN EmptyReadModel ELSE ProjectEvent(m[i - 1], s[i].event, i)
    IN  m[n]

\* g says what the read model is after each of the first n entries of s.
Replays(g, s, n) ==
    g = [i \in 0 .. n |-> IF i = 0 THEN EmptyReadModel ELSE ProjectEvent(g[i - 1], s[i].event, i)]

LEMMA ReplayIsOfLog == \A n : Replay(n) = ReplayOf(log, n)
  BY DEF Replay, ReplayOf

LEMMA ReplayIsOfLogNext == \A n : Replay(n)' = ReplayOf(log', n')
  BY DEF Replay, ReplayOf

\* The recursion has a solution, whatever the length.
LEMMA ReplayExists == ASSUME NEW s, NEW n \in Nat PROVE \E g : Replays(g, s, n)
<1> DEFINE S == {k \in Nat : \E g : Replays(g, s, k)}
<1>1. 0 \in S
  <2> DEFINE g == [i \in 0 .. 0 |-> EmptyReadModel]
  <2>1. Replays(g, s, 0)
    BY DEF Replays
  <2> QED
    BY <2>1
<1>2. \A k \in Nat : k \in S => k + 1 \in S
  <2> SUFFICES ASSUME NEW k \in Nat, NEW g, Replays(g, s, k)
               PROVE  \E h : Replays(h, s, k + 1)
    OBVIOUS
  <2> DEFINE h == [i \in 0 .. k + 1 |->
                     IF i <= k THEN g[i] ELSE ProjectEvent(g[k], s[k + 1].event, k + 1)]
  <2>1. \A i \in 0 .. k : g[i] = IF i = 0 THEN EmptyReadModel
                                 ELSE ProjectEvent(g[i - 1], s[i].event, i)
    BY DEF Replays
  <2>2. \A i \in 0 .. k + 1 : h[i] = IF i = 0 THEN EmptyReadModel
                                     ELSE ProjectEvent(h[i - 1], s[i].event, i)
    <3> SUFFICES ASSUME NEW i \in 0 .. k + 1
                 PROVE  h[i] = IF i = 0 THEN EmptyReadModel
                               ELSE ProjectEvent(h[i - 1], s[i].event, i)
      OBVIOUS
    <3>1. CASE i = 0
      BY <2>1, <3>1
    <3>2. CASE i \in 1 .. k
      <4>1. h[i] = g[i] /\ h[i - 1] = g[i - 1]
        BY <3>2
      <4> QED
        BY <2>1, <3>2, <4>1
    <3>3. CASE i = k + 1
      <4>1. h[k] = g[k] /\ i - 1 = k /\ i # 0
        BY <3>3
      <4> QED
        BY <3>3, <4>1
    <3> QED
      BY <3>1, <3>2, <3>3
  <2>3. Replays(h, s, k + 1)
    BY <2>2 DEF Replays
  <2> QED
    BY <2>3
<1> HIDE DEF S
<1>3. Nat \subseteq S
  BY <1>1, <1>2, Induction
<1> QED
  BY <1>3 DEF S

\* ReplayOf is the end of that solution ...
LEMMA ReplayIsLast ==
  ASSUME NEW s, NEW n \in Nat
  PROVE  \E g : Replays(g, s, n) /\ ReplayOf(s, n) = g[n]
<1> DEFINE g == CHOOSE m : m = [i \in 0 .. n |-> IF i = 0 THEN EmptyReadModel
                                                 ELSE ProjectEvent(m[i - 1], s[i].event, i)]
<1>1. \E m : m = [i \in 0 .. n |-> IF i = 0 THEN EmptyReadModel
                                   ELSE ProjectEvent(m[i - 1], s[i].event, i)]
  BY ReplayExists DEF Replays
<1>2. Replays(g, s, n)
  BY <1>1 DEF Replays
<1>3. ReplayOf(s, n) = g[n]
  BY DEF ReplayOf
<1> QED
  BY <1>2, <1>3

\* The first n entries of s and t have the same events.
SameEvents(s, t, n) == \A i \in 1 .. n : s[i].event = t[i].event

\* ... and two solutions agree as far as their logs do.
LEMMA ReplaysAgree ==
  ASSUME NEW s, NEW t, NEW n \in Nat, NEW m \in Nat, n <= m,
         NEW g, NEW h, Replays(g, s, n), Replays(h, t, m),
         SameEvents(s, t, n)
  PROVE  g[n] = h[n]
<1> DEFINE S == {k \in Nat : k <= n => g[k] = h[k]}
<1>1. /\ \A i \in 0 .. n : g[i] = IF i = 0 THEN EmptyReadModel
                                  ELSE ProjectEvent(g[i - 1], s[i].event, i)
      /\ \A i \in 0 .. m : h[i] = IF i = 0 THEN EmptyReadModel
                                  ELSE ProjectEvent(h[i - 1], t[i].event, i)
  BY DEF Replays
<1>2. 0 \in S
  BY <1>1
<1>3. \A k \in Nat : k \in S => k + 1 \in S
  <2> SUFFICES ASSUME NEW k \in Nat, k + 1 <= n, g[k] = h[k] PROVE g[k + 1] = h[k + 1]
    OBVIOUS
  <2>1. k + 1 \in 0 .. n /\ k + 1 \in 0 .. m /\ k + 1 \in 1 .. n /\ (k + 1) - 1 = k /\ k + 1 # 0
    OBVIOUS
  <2>2. g[k + 1] = ProjectEvent(g[k], s[k + 1].event, k + 1)
    BY <1>1, <2>1
  <2>3. h[k + 1] = ProjectEvent(h[k], t[k + 1].event, k + 1)
    BY <1>1, <2>1
  <2> QED
    BY <2>1, <2>2, <2>3 DEF SameEvents
<1> HIDE DEF S
<1>4. Nat \subseteq S
  BY <1>2, <1>3, Induction
<1> QED
  BY <1>4 DEF S

\* The equations of Replay: nothing replays to the empty read model, and one more
\* entry projects one more event.
LEMMA ReplayStart == \A s : ReplayOf(s, 0) = EmptyReadModel
<1> TAKE s
<1>1. PICK g : Replays(g, s, 0) /\ ReplayOf(s, 0) = g[0]
  BY ReplayIsLast
<1> QED
  BY <1>1 DEF Replays

LEMMA ReplayPrefix ==
  ASSUME NEW s, NEW t, NEW n \in Nat, SameEvents(s, t, n)
  PROVE  ReplayOf(s, n) = ReplayOf(t, n)
<1>1. PICK g : Replays(g, s, n) /\ ReplayOf(s, n) = g[n]
  BY ReplayIsLast
<1>2. PICK h : Replays(h, t, n) /\ ReplayOf(t, n) = h[n]
  BY ReplayIsLast
<1> QED
  BY <1>1, <1>2, ReplaysAgree

LEMMA ReplayNext ==
  ASSUME NEW s, NEW n \in Nat
  PROVE  ReplayOf(s, n + 1) = ProjectEvent(ReplayOf(s, n), s[n + 1].event, n + 1)
<1>1. PICK g : Replays(g, s, n) /\ ReplayOf(s, n) = g[n]
  BY ReplayIsLast
<1>2. PICK h : Replays(h, s, n + 1) /\ ReplayOf(s, n + 1) = h[n + 1]
  BY ReplayIsLast
<1>3. g[n] = h[n]
  <2>1. n + 1 \in Nat /\ n <= n + 1 /\ SameEvents(s, s, n)
    BY DEF SameEvents
  <2> QED
    BY <1>1, <1>2, <2>1, ReplaysAgree
<1>4. h[n + 1] = ProjectEvent(h[n], s[n + 1].event, n + 1)
  <2>1. n + 1 \in 0 .. n + 1 /\ n + 1 # 0 /\ (n + 1) - 1 = n
    OBVIOUS
  <2> QED
    BY <1>2, <2>1 DEF Replays
<1> QED
  BY <1>1, <1>2, <1>3, <1>4

\* What is replayed is a read model, at the sequence it is replayed to.
LEMMA ReplayType ==
  ASSUME NEW s \in Seq(Entry), NEW n \in 0 .. Len(s)
  PROVE  ReplayOf(s, n) \in ReadModel /\ ReplayOf(s, n).seq = n
<1> DEFINE S == {k \in Nat : ReplayOf(s, k) \in ReadModel /\ ReplayOf(s, k).seq = k}
<1>1. Len(s) \in Nat
  BY LenProperties
<1>2. 0 \in S
  <2>1. EmptyReadModel.seq = 0
    BY DEF EmptyReadModel
  <2>2. ReplayOf(s, 0) = EmptyReadModel
    BY ReplayStart
  <2> QED
    BY <2>1, <2>2, EmptyReadModelType
<1>3. \A k \in 0 .. Len(s) - 1 : k \in S => k + 1 \in S
  <2> SUFFICES ASSUME NEW k \in 0 .. Len(s) - 1, k \in S PROVE k + 1 \in S
    OBVIOUS
  <2>1. k \in Nat /\ k + 1 \in 1 .. Len(s) /\ k + 1 \in Nat /\ ReplayOf(s, k) \in ReadModel
    BY <1>1
  <2>2. s[k + 1] \in Entry
    BY <2>1, ElementOfSeq
  <2>3. s[k + 1].event \in Event
    BY <2>2 DEF Entry
  <2>4. ReplayOf(s, k + 1) = ProjectEvent(ReplayOf(s, k), s[k + 1].event, k + 1)
    BY <2>1, ReplayNext
  <2>5. ReplayOf(s, k + 1) \in ReadModel /\ ReplayOf(s, k + 1).seq = k + 1
    BY <2>1, <2>3, <2>4, ProjectEventType
  <2> QED
    BY <2>1, <2>5
<1> HIDE DEF S
<1>4. 0 .. Len(s) \subseteq S
  BY <1>1, <1>2, <1>3, BoundedInduction
<1> QED
  BY <1>4 DEF S

---------------------------------------------------------------------------
(* The read model is the replay of the log.                                *)

\* What the worker holds in memory, and in the transaction it has open, replays
\* from what is on disk.
ReplayInv ==
    /\ readModel.seq <= Len(log)
    /\ readModel = ReplayOf(log, readModel.seq)
    /\ pc \in InTx => tx.model = ReplayOf(log \o tx.done, Len(log) + Len(tx.done))
    /\ pc = "install" => tx.model = ReplayOf(log, Len(log))

LEMMA ReplayInit == Init => ReplayInv
<1> SUFFICES ASSUME Init PROVE ReplayInv
  OBVIOUS
<1>1. /\ log = <<>> /\ readModel = EmptyReadModel /\ pc = "down"
      /\ EmptyReadModel.seq = 0 /\ Len(<<>>) = 0
  BY DEF Init, EmptyReadModel
<1>2. ReplayOf(log, 0) = EmptyReadModel
  BY ReplayStart
<1> QED
  BY <1>1, <1>2 DEF ReplayInv, InTx

\* A step that moves neither log nor read model, and keeps the transaction's model
\* while there is one.
LEMMA ReplayKept ==
  ASSUME ReplayInv, log' = log, readModel' = readModel,
         pc' \in InTx => pc \in InTx /\ tx'.model = tx.model /\ tx'.done = tx.done,
         pc' = "install" => pc = "install" /\ tx'.model = tx.model
  PROVE  ReplayInv'
  BY DEF ReplayInv

LEMMA QuietSteps ==
  ASSUME Transactional, TypeInv, [Next]_vars
  PROVE  \/ LoadEvent \/ DecideCommand \/ AppendEvent \/ Commit \/ InstallReadModel
         \/ InstallReplayed \/ Crash
         \/ /\ log' = log /\ readModel' = readModel
            /\ pc' \in InTx => pc \in InTx /\ tx'.model = tx.model /\ tx'.done = tx.done
            /\ pc' = "install" => pc = "install" /\ tx'.model = tx.model
<1> USE DEF disk, work, InTx
<1>1. CASE Startup
  BY <1>1 DEF Startup, Restart, BootstrapEvent, BootstrapNextProjector, BootstrapDone, StartWorker
<1>2. CASE Worker
  <2>1. CASE WriteReceipt
    <3>1. tx' = [tx EXCEPT !.receipt = [status |-> "accepted", seq |-> tx.model.seq]] /\ tx \in Tx
      BY <2>1, TypeFacts DEF WriteReceipt
    <3>2. tx'.model = tx.model /\ tx'.done = tx.done
      BY <3>1 DEF Tx
    <3> QED
      BY <2>1, <3>2 DEF WriteReceipt
  <2>2. CASE TakeEnvelope \/ AnswerFromReceipt \/ ProjectAppended \/ PublishEvent \/ AnswerAccepted
    BY <2>2 DEF TakeEnvelope, AnswerFromReceipt, ProjectAppended, PublishEvent, AnswerAccepted, Settle
  <2>3. CASE ReadPersisted \/ ReplayPersisted \/ ReconcileDone \/ WriteRejectedReceipt \/ AnswerFailed
    BY <2>3 DEF ReadPersisted, ReplayPersisted, ReconcileDone, WriteRejectedReceipt, AnswerFailed, Settle
  <2> QED
    BY <1>2, <2>1, <2>2, <2>3 DEF Worker
<1>3. CASE Environment
  BY <1>3 DEF Environment, Dispatch, StoreFault, ReconcileFault, Upgrade
<1>4. CASE UNCHANGED vars
  BY <1>4 DEF vars
<1> QED
  BY <1>1, <1>2, <1>3, <1>4 DEF Next

LEMMA ReplayStep ==
  ASSUME Transactional, BaseInv, ReplayInv, [Next]_vars
  PROVE  ReplayInv'
<1>0. /\ TypeInv /\ PositionInv /\ LedgerInv
      /\ log \in Seq(Entry) /\ Len(log) \in Nat /\ readModel \in ReadModel /\ readModel.seq \in Nat
      /\ tx.done \in Seq(Entry) /\ Len(tx.done) \in Nat
  BY TypeFacts DEF BaseInv
<1>1. CASE LoadEvent
  <2> DEFINE n == readModel.seq
  <2>1. /\ n < Len(log) /\ log' = log
        /\ readModel' = ProjectEvent(readModel, log[n + 1].event, n + 1)
        /\ pc' = "load"
    BY <1>1 DEF LoadEvent, disk
  <2>2. readModel' = ReplayOf(log, n + 1)
    BY <1>0, <2>1, ReplayNext DEF ReplayInv
  <2>3. readModel'.seq = n + 1
    BY <2>1 DEF ProjectEvent
  <2> QED
    BY <1>0, <2>1, <2>2, <2>3 DEF ReplayInv, InTx
<1>2. CASE DecideCommand
  <2>1. log' = log /\ readModel' = readModel /\ pc = "lookup" /\ pc' \in {"reconcile", "append"}
    BY <1>2 DEF DecideCommand, disk
  <2>2. CASE pc' = "append"
    <3>1. tx'.done = <<>> /\ tx'.model = readModel
      BY <1>0, <1>2, <2>2, DecideFacts
    <3>2. readModel.seq = Len(log) /\ Len(<<>>) = 0 /\ Len(log) + 0 = Len(log)
      BY <1>0, <2>1 DEF PositionInv, Serving
    <3>3. log \o <<>> = log
      BY <1>0, ConcatEmptySeq
    <3> QED
      BY <2>1, <2>2, <3>1, <3>2, <3>3 DEF ReplayInv
  <2> QED
    BY <2>1, <2>2 DEF ReplayInv, InTx
<1>3. CASE AppendEvent
  <2> DEFINE e == Head(tx.todo)
             n == Len(log) + Len(tx.done)
             s == log \o tx.done
             t == log \o Append(tx.done, e)
  <2>1. /\ pc = "append" /\ pc' = "project" /\ log' = log /\ readModel' = readModel
        /\ tx'.model = ProjectEvent(tx.model, e.event, NextSequence)
        /\ NextSequence = n + 1 /\ n \in Nat
    BY <1>0, <1>3, TypeFacts DEF AppendEvent, NextSequence, Tx
  <2>2. /\ tx'.done = Append(tx.done, e) /\ e \in Entry /\ Len(tx'.done) = Len(tx.done) + 1
        /\ tx'.done \in Seq(Entry)
    BY <1>0, <1>3, AppendFacts, AppendProperties
  <2>3. SameEvents(s, t, n) /\ t[n + 1] = e
    <3>1. /\ \A i \in 1 .. Len(log) + Len(tx.done) :
               s[i] = IF i <= Len(log) THEN log[i] ELSE tx.done[i - Len(log)]
          /\ \A i \in 1 .. Len(log) + Len(tx'.done) :
               t[i] = IF i <= Len(log) THEN log[i] ELSE tx'.done[i - Len(log)]
      <4>1. \A i \in 1 .. Len(log) + Len(tx.done) :
               s[i] = IF i <= Len(log) THEN log[i] ELSE tx.done[i - Len(log)]
        BY <1>0, ConcatProperties
      <4> DEFINE d == tx'.done
      <4>2. t = log \o d /\ d \in Seq(Entry)
        BY <2>2
      <4> HIDE DEF d, s, t
      <4>3. \A i \in 1 .. Len(log) + Len(d) : t[i] = IF i <= Len(log) THEN log[i] ELSE d[i - Len(log)]
        BY <1>0, <4>2, ConcatProperties
      <4> QED
        BY <4>1, <4>3 DEF d
    <3>2. /\ \A i \in 1 .. Len(tx.done) : tx'.done[i] = tx.done[i]
          /\ tx'.done[Len(tx.done) + 1] = e
      BY <1>0, <2>2, AppendProperties
    <3>3. ASSUME NEW i \in 1 .. n PROVE s[i] = t[i]
      <4>1. i \in 1 .. Len(log) + Len(tx'.done) /\ i \in Int
        BY <1>0, <2>2
      <4>2. CASE i <= Len(log)
        BY <3>1, <4>1, <4>2
      <4>3. CASE ~(i <= Len(log))
        <5>1. i - Len(log) \in 1 .. Len(tx.done)
          BY <1>0, <4>1, <4>3
        <5> QED
          BY <3>1, <3>2, <4>1, <4>3, <5>1
      <4> QED
        BY <4>2, <4>3
    <3>4. t[n + 1] = e
      <4>1. /\ n + 1 \in 1 .. Len(log) + Len(tx'.done) /\ ~(n + 1 <= Len(log))
            /\ (n + 1) - Len(log) = Len(tx.done) + 1
        BY <1>0, <2>2
      <4> QED
        BY <3>1, <3>2, <4>1
    <3> QED
      BY <3>3, <3>4 DEF SameEvents
  <2>4. tx.model = ReplayOf(s, n)
    BY <2>1 DEF ReplayInv, InTx
  <2> HIDE DEF s, t, n
  <2>5. ReplayOf(t, n + 1) = ProjectEvent(ReplayOf(t, n), e.event, n + 1)
    BY <2>1, <2>3, ReplayNext
  <2>6. ReplayOf(s, n) = ReplayOf(t, n)
    BY <2>1, <2>3, ReplayPrefix
  <2>7. tx'.model = ReplayOf(t, n + 1)
    BY <2>1, <2>4, <2>5, <2>6
  <2>8. t = log \o tx'.done /\ n + 1 = Len(log) + Len(tx'.done)
    BY <1>0, <2>2 DEF t, n
  <2> QED
    BY <2>1, <2>7, <2>8 DEF ReplayInv, InTx
<1>4. CASE Commit
  <2>1. /\ pc = "commit" /\ pc' = "install" /\ log' = log \o tx.done
        /\ readModel' = readModel /\ tx' = tx
    BY <1>4 DEF Commit, work
  <2>2. /\ Len(log') = Len(log) + Len(tx.done)
        /\ \A i \in 1 .. Len(log) : log'[i] = log[i]
    <3>1. /\ Len(log') = Len(log) + Len(tx.done)
          /\ \A i \in 1 .. Len(log) + Len(tx.done) :
               log'[i] = IF i <= Len(log) THEN log[i] ELSE tx.done[i - Len(log)]
      BY <1>0, <2>1, ConcatProperties
    <3> QED
      BY <1>0, <3>1
  <2>3. readModel.seq <= Len(log)
    BY DEF ReplayInv
  <2>4. SameEvents(log, log', readModel.seq)
    BY <1>0, <2>2, <2>3 DEF SameEvents
  <2>5. readModel = ReplayOf(log', readModel.seq)
    BY <1>0, <2>4, ReplayPrefix DEF ReplayInv
  <2>6. tx.model = ReplayOf(log', Len(log'))
    BY <2>1, <2>2 DEF ReplayInv, InTx
  <2> QED
    BY <1>0, <2>1, <2>2, <2>3, <2>5, <2>6 DEF ReplayInv, InTx
<1>5. CASE InstallReadModel
  <2>1. /\ pc = "install" /\ pc' = "publish" /\ log' = log /\ readModel' = tx.model
    BY <1>5 DEF InstallReadModel, disk
  <2>2. tx.model.seq = Len(log)
    BY <1>0, <2>1 DEF PositionInv
  <2> QED
    BY <1>0, <2>1, <2>2 DEF ReplayInv, InTx
<1>6. CASE InstallReplayed
  <2>1. pc = "replay" /\ pc' = "publish" /\ log' = log /\ readModel' = tx.model
    BY <1>6 DEF InstallReplayed, disk
  <2>2. tx.model = readModel
    BY <1>0, <2>1 DEF PositionInv
  <2> QED
    BY <2>1, <2>2 DEF ReplayInv, InTx
<1>7. CASE Crash
  <2>1. pc' = "down" /\ log' = log /\ readModel' = EmptyReadModel /\ EmptyReadModel.seq = 0
    BY <1>7 DEF Crash, disk, EmptyReadModel
  <2>2. ReplayOf(log, 0) = EmptyReadModel
    BY ReplayStart
  <2> QED
    BY <1>0, <2>1, <2>2 DEF ReplayInv, InTx
<1> QED
  BY <1>0, <1>1, <1>2, <1>3, <1>4, <1>5, <1>6, <1>7, QuietSteps, ReplayKept

\* The read model, the transaction's model and a reconciliation's replay are each the
\* replay of the part of the log they stand for, at every step of processEnvelope.
THEOREM ReplayHolds == ASSUME Transactional PROVE Spec => [](BaseInv /\ ReplayInv)
<1>1. BaseInv /\ ReplayInv /\ [Next]_vars => (BaseInv /\ ReplayInv)'
  BY BaseStep, ReplayStep
<1> QED
  BY <1>1, BaseInit, ReplayInit, PTL DEF Spec

\* The in-memory read model is the replay of a committed prefix of the log, and
\* between commands of the whole log (processEnvelope, loading at startup and
\* reconcileReadModelAfterDispatchFailure).
THEOREM MemoryIsReplay == ASSUME Transactional PROVE Spec => []ReadModelIsReplay
<1>1. BaseInv /\ ReplayInv => ReadModelIsReplay
  BY ReplayIsOfLog DEF BaseInv, PositionInv, ReplayInv, ReadModelIsReplay, Serving
<1> QED
  BY <1>1, ReplayHolds, PTL

---------------------------------------------------------------------------
(* The projections.                                                        *)

\* No release has added a projector yet, or the log still fits one reading of it.
CaughtUpByOneRead == budget.upgrades = MaxUpgrades \/ Len(log) <= ReadLimit

\* Every projector is at the end of the log, but for those a bootstrap has still to
\* read the log for, and has applied what its cursor says.
ProjectionInv ==
    /\ budget.upgrades <= MaxUpgrades
    /\ CaughtUpByOneRead =>
         /\ \A p \in Projectors : cursor[p] <= Len(log) /\ applied[p] = 1 .. cursor[p]
         /\ budget.upgrades = MaxUpgrades => \A p \in Projectors : cursor[p] = Len(log)
         /\ pc = "bootstrap" =>
              /\ boot.projector >= 1
              /\ boot.projector \in Projectors => boot.read <= cursor[boot.projector]
              /\ \A p \in Projectors : p < boot.projector => cursor[p] = Len(log)
         /\ pc \notin {"down", "bootstrap"} => \A p \in Projectors : cursor[p] = Len(log)

LEMMA ProjectionInit == Init => ProjectionInv
<1> SUFFICES ASSUME Init PROVE ProjectionInv
  OBVIOUS
<1>1. Len(log) = 0 /\ 1 .. 0 = {}
  BY DEF Init
<1> QED
  BY <1>1, EngineAssumption DEF Init, ProjectionInv, Projectors

LEMMA ProjectionStep ==
  ASSUME Transactional, BaseInv, ProjectionInv, [Next]_vars
  PROVE  ProjectionInv'
<1>0. /\ TypeInv /\ PositionInv /\ LedgerInv /\ Len(log) \in Nat
      /\ cursor \in [Projectors -> Nat] /\ applied \in [Projectors -> SUBSET Nat]
      /\ budget \in [faults : Nat, crashes : Nat, upgrades : Nat]
      /\ boot \in [projector : Nat, read : Nat]
      /\ MaxUpgrades \in Nat /\ ReadLimit \in Nat /\ NumProjectors \in Nat
  BY TypeFacts, EngineAssumption DEF BaseInv, TypeInv, TypeOK
<1>1. CASE Restart
  BY <1>0, <1>1 DEF Restart, disk, ProjectionInv, CaughtUpByOneRead, Projectors
<1>2. CASE BootstrapEvent
  <2> DEFINE p == boot.projector
  <2>1. /\ pc = "bootstrap" /\ pc' = pc /\ p \in Projectors /\ cursor[p] < Len(log)
        /\ cursor' = [cursor EXCEPT ![p] = @ + 1]
        /\ applied' = [applied EXCEPT ![p] = @ \cup {cursor[p] + 1}]
        /\ boot' = [boot EXCEPT !.read = @ + 1] /\ log' = log /\ budget' = budget
    BY <1>2 DEF BootstrapEvent
  <2>2. boot'.projector = p /\ boot'.read = boot.read + 1
    BY <1>0, <2>1
  <2>3. CASE ~CaughtUpByOneRead
    BY <2>1, <2>3 DEF ProjectionInv, CaughtUpByOneRead
  <2>4. CASE CaughtUpByOneRead
    <3>1. cursor[p] <= Len(log) /\ applied[p] = 1 .. cursor[p] /\ cursor[p] \in Nat
      BY <1>0, <2>1, <2>4 DEF ProjectionInv
    <3>2. (1 .. cursor[p]) \cup {cursor[p] + 1} = 1 .. cursor[p] + 1
      BY <3>1
    <3>3. \A q \in Projectors : cursor'[q] <= Len(log) /\ applied'[q] = 1 .. cursor'[q]
      <4> TAKE q \in Projectors
      <4>1. cursor[q] \in Nat /\ cursor[q] <= Len(log) /\ applied[q] = 1 .. cursor[q]
        BY <1>0, <2>4 DEF ProjectionInv
      <4>2. CASE q = p
        <5>1. cursor'[q] = cursor[p] + 1 /\ applied'[q] = (1 .. cursor[p]) \cup {cursor[p] + 1}
          BY <1>0, <2>1, <3>1, <4>2
        <5>2. applied'[q] = 1 .. cursor[p] + 1
          BY <3>2, <5>1, Zenon
        <5>3. cursor[p] + 1 <= Len(log)
          BY <1>0, <2>1, <3>1
        <5> QED
          BY <5>1, <5>2, <5>3
      <4>3. CASE q # p
        BY <1>0, <2>1, <4>1, <4>3
      <4> QED
        BY <4>2, <4>3
    <3>4. budget.upgrades # MaxUpgrades
      BY <2>1, <2>4 DEF ProjectionInv
    <3>5. \A q \in Projectors : q < p => cursor'[q] = Len(log)
      BY <1>0, <2>1, <2>4 DEF ProjectionInv, Projectors
    <3>6. boot'.read <= cursor'[p] /\ boot'.projector = p /\ p >= 1
      <4>1. boot.read <= cursor[p] /\ boot.read \in Nat /\ p >= 1
        BY <1>0, <2>1, <2>4 DEF ProjectionInv
      <4>2. cursor'[p] = cursor[p] + 1
        BY <1>0, <2>1
      <4> QED
        BY <2>2, <3>1, <4>1, <4>2
    <3> HIDE DEF p
    <3> QED
      BY <2>1, <3>3, <3>4, <3>5, <3>6 DEF ProjectionInv
  <2> QED
    BY <2>3, <2>4
<1>3. CASE BootstrapNextProjector
  <2> DEFINE p == boot.projector
  <2>1. /\ pc = "bootstrap" /\ pc' = pc /\ p \in Projectors
        /\ boot.read >= ReadLimit \/ cursor[p] >= Len(log)
        /\ boot' = [projector |-> p + 1, read |-> 0]
        /\ log' = log /\ cursor' = cursor /\ applied' = applied /\ budget' = budget
    BY <1>3 DEF BootstrapNextProjector, disk
  <2>2. CASE ~CaughtUpByOneRead
    BY <2>1, <2>2 DEF ProjectionInv, CaughtUpByOneRead
  <2>3. CASE CaughtUpByOneRead
    <3>1. cursor[p] = Len(log)
      BY <1>0, <2>1, <2>3 DEF ProjectionInv, CaughtUpByOneRead
    <3>2. \A q \in Projectors : q < p + 1 => cursor[q] = Len(log)
      BY <1>0, <2>1, <2>3, <3>1 DEF ProjectionInv, Projectors
    <3> QED
      BY <1>0, <2>1, <2>3, <3>2 DEF ProjectionInv, CaughtUpByOneRead, Projectors
  <2> QED
    BY <2>2, <2>3
<1>4. CASE BootstrapDone
  BY <1>0, <1>4 DEF BootstrapDone, disk, ProjectionInv, CaughtUpByOneRead, Projectors
<1>5. CASE Commit
  <2>1. /\ pc = "commit" /\ pc' = "install" /\ budget' = budget
        /\ cursor' = [p \in Projectors |-> tx.model.seq]
        /\ applied' = [p \in Projectors |->
                         applied[p] \cup (tx.model.seq - Len(tx.done) + 1 .. tx.model.seq)]
    BY <1>5 DEF Commit
  <2>2. /\ tx.model.seq = Len(log) + Len(tx.done) /\ Len(tx.done) \in Nat
        /\ Len(log') = Len(log) + Len(tx.done)
    BY <1>0, <1>5, <2>1, TypeFacts, ConcatProperties DEF PositionInv, InTx, Commit
  <2>3. CaughtUpByOneRead' => CaughtUpByOneRead
    BY <1>0, <2>1, <2>2 DEF CaughtUpByOneRead
  <2>4. CASE CaughtUpByOneRead
    <3>1. \A p \in Projectors : cursor[p] = Len(log) /\ applied[p] = 1 .. Len(log)
      BY <2>1, <2>4 DEF ProjectionInv
    <3>2. (1 .. Len(log)) \cup (tx.model.seq - Len(tx.done) + 1 .. tx.model.seq) = 1 .. Len(log')
      BY <1>0, <2>2
    <3>3. \A p \in Projectors : cursor'[p] = Len(log') /\ applied'[p] = 1 .. Len(log')
      BY <2>1, <2>2, <3>1, <3>2
    <3> QED
      BY <1>0, <2>1, <2>2, <3>3 DEF ProjectionInv
  <2> QED
    BY <2>1, <2>3, <2>4 DEF ProjectionInv
<1>6. CASE Crash
  BY <1>0, <1>6 DEF Crash, disk, ProjectionInv, CaughtUpByOneRead
<1>7. ASSUME NEW p \in Projectors, Upgrade(p) PROVE ProjectionInv'
  <2>1. /\ pc = "down" /\ pc' = pc /\ log' = log /\ budget.upgrades > 0
        /\ budget' = [budget EXCEPT !.upgrades = @ - 1]
        /\ cursor' = [cursor EXCEPT ![p] = 0] /\ applied' = [applied EXCEPT ![p] = {}]
    BY <1>7 DEF Upgrade
  <2>2. budget'.upgrades = budget.upgrades - 1 /\ budget'.upgrades # MaxUpgrades
        /\ budget'.upgrades <= MaxUpgrades
    BY <1>0, <2>1 DEF ProjectionInv
  <2>3. CaughtUpByOneRead' => CaughtUpByOneRead
    BY <2>1, <2>2 DEF CaughtUpByOneRead
  <2>4. 1 .. 0 = {}
    OBVIOUS
  <2> QED
    BY <1>0, <2>1, <2>2, <2>3, <2>4 DEF ProjectionInv
<1>8. CASE /\ pc \notin {"down", "bootstrap"} /\ pc' \notin {"down", "bootstrap"}
           /\ log' = log /\ cursor' = cursor /\ applied' = applied
           /\ budget'.upgrades = budget.upgrades
  BY <1>8 DEF ProjectionInv, CaughtUpByOneRead
<1>9. CASE UNCHANGED vars
  BY <1>9 DEF vars, disk, ProjectionInv, CaughtUpByOneRead
<1>10. CASE LoadEvent \/ StartWorker
  BY <1>8, <1>10 DEF LoadEvent, StartWorker, disk
<1>11. CASE Worker
  <2>1. ASSUME ~Commit
        PROVE  /\ pc \notin {"down", "bootstrap"} /\ pc' \notin {"down", "bootstrap"}
               /\ log' = log /\ cursor' = cursor /\ applied' = applied
               /\ budget'.upgrades = budget.upgrades
    <3> USE <1>0 DEF disk, work, callers
    <3>1. CASE TakeEnvelope \/ AnswerFromReceipt \/ DecideCommand \/ AppendEvent \/ ProjectAppended
      BY <3>1 DEF TakeEnvelope, AnswerFromReceipt, DecideCommand, AppendEvent, ProjectAppended, Settle
    <3>2. CASE WriteReceipt \/ InstallReadModel \/ PublishEvent \/ AnswerAccepted \/ ReadPersisted
      BY <3>2 DEF WriteReceipt, InstallReadModel, PublishEvent, AnswerAccepted, ReadPersisted, Settle
    <3>3. CASE ReplayPersisted \/ InstallReplayed \/ ReconcileDone \/ WriteRejectedReceipt \/ AnswerFailed
      BY <3>3 DEF ReplayPersisted, InstallReplayed, ReconcileDone, WriteRejectedReceipt, AnswerFailed,
                  Settle, SpendFault
    <3> QED
      BY <1>11, <2>1, <3>1, <3>2, <3>3 DEF Worker
  <2> QED
    BY <1>5, <1>8, <2>1
<1>12. CASE (\E c \in CommandIds : Dispatch(c)) \/ StoreFault \/ ReconcileFault
  BY <1>0, <1>8, <1>12 DEF Dispatch, StoreFault, ReconcileFault, SpendFault, disk, Serving
<1> QED
  BY <1>1, <1>2, <1>3, <1>4, <1>6, <1>7, <1>9, <1>10, <1>11, <1>12 DEF Next, Startup, Environment

\* While commands are served every projector has applied every event, unless a
\* release added a projector when the log was already longer than what bootstrap
\* reads of it (bootstrapProjector, DEFAULT_READ_FROM_SEQUENCE_LIMIT): the run
\* engine_upgrade shows that case, and no other is left.
THEOREM ProjectorsKeepUp ==
  ASSUME Transactional PROVE Spec => [](CaughtUpByOneRead => ProjectionsComplete)
<1>1. BaseInv /\ ProjectionInv /\ [Next]_vars => (BaseInv /\ ProjectionInv)'
  BY BaseStep, ProjectionStep
<1>2. ProjectionInv => (CaughtUpByOneRead => ProjectionsComplete)
  BY DEF ProjectionInv, ProjectionsComplete, Serving
<1> QED
  BY <1>1, <1>2, BaseInit, ProjectionInit, PTL DEF Spec

---------------------------------------------------------------------------
(* The story of a thread.                                                  *)

\* The positions below i at which s has an event of this type for this thread.
EarlierIn(s, i, type, t) == {j \in 1 .. i - 1 : s[j].event.type = type /\ s[j].event.thread = t}

\* What LifecycleRespected says of position i.
StoryAt(s, i) ==
    LET e == s[i].event IN
    /\ e.type = "thread.created" => EarlierIn(s, i, "thread.created", e.thread) = {}
    /\ (e.thread # None /\ e.type # "thread.created")
         => EarlierIn(s, i, "thread.created", e.thread) # {}
    /\ e.type = "thread.archived" =>
         \A j \in EarlierIn(s, i, "thread.archived", e.thread) :
           \E k \in EarlierIn(s, i, "thread.unarchived", e.thread) : j < k

LEMMA LifecycleIsStory == LifecycleRespected <=> \A i \in 1 .. Len(log) : StoryAt(log, i)
  BY DEF LifecycleRespected, StoryAt, EarlierIn

LEMMA LifecycleIsStoryNext ==
  LifecycleRespected' <=> \A i \in 1 .. Len(log') : StoryAt(log', i)
  BY DEF LifecycleRespected, StoryAt, EarlierIn

\* What the read model m says of thread t is what the first n entries of s tell: it
\* exists if it was created, and where it is not archived every time it was has been
\* undone.
Tells(m, s, n, t) ==
    /\ m.threads[t].presence # "absent" <=> EarlierIn(s, n + 1, "thread.created", t) # {}
    /\ ~m.threads[t].archived =>
         \A j \in EarlierIn(s, n + 1, "thread.archived", t) :
           \E k \in EarlierIn(s, n + 1, "thread.unarchived", t) : j < k

\* What a thread is after an event of its own: nothing makes it absent again, it is
\* archived by thread.archived, and only by that.
LEMMA ThreadAfter ==
  ASSUME NEW ts \in [Threads -> ThreadState], NEW e \in Event, NEW t \in Threads
  PROVE  /\ e.thread # t => ThreadsAfter(ts, e)[t] = ts[t]
         /\ e.thread = t =>
              /\ e.type = "thread.created" =>
                   ThreadsAfter(ts, e)[t].presence # "absent"
              /\ (e.type # "thread.created" /\ ts[t].presence # "absent") =>
                   /\ ThreadsAfter(ts, e)[t].presence # "absent"
                   /\ e.type = "thread.archived" => ThreadsAfter(ts, e)[t].archived
                   /\ e.type \notin {"thread.archived", "thread.unarchived"} =>
                        ThreadsAfter(ts, e)[t].archived = ts[t].archived
<1> DEFINE th == ts[e.thread]
<1>1. ASSUME e.thread # t PROVE ThreadsAfter(ts, e)[t] = ts[t]
  BY <1>1 DEF ThreadsAfter, UpdateThread
<1>2. ASSUME e.thread = t, e.type = "thread.created"
      PROVE  ThreadsAfter(ts, e)[t].presence # "absent"
  <2>1. ThreadsAfter(ts, e) = [ts EXCEPT ![t] = FreshThread(e.project)]
    BY <1>2 DEF ThreadsAfter
  <2>2. ThreadsAfter(ts, e)[t] = FreshThread(e.project)
    BY <2>1
  <2> QED
    BY <2>2 DEF FreshThread
<1>3. ASSUME e.thread = t, e.type # "thread.created", ts[t].presence # "absent"
      PROVE  /\ ThreadsAfter(ts, e)[t].presence # "absent"
             /\ e.type = "thread.archived" => ThreadsAfter(ts, e)[t].archived
             /\ e.type \notin {"thread.archived", "thread.unarchived"} =>
                  ThreadsAfter(ts, e)[t].archived = ts[t].archived
  <2>0. ts[t] \in ThreadState /\ th = ts[t]
    BY <1>3
  <2>1. \A new : UpdateThread(ts, t, new)[t] = new
    BY <1>3 DEF UpdateThread
  <2>2. CASE e.type = "thread.deleted"
    <3>1. ThreadsAfter(ts, e) = UpdateThread(ts, t, [th EXCEPT !.presence = "deleted"])
      BY <1>3, <2>2 DEF ThreadsAfter
    <3>2. ThreadsAfter(ts, e)[t] = [th EXCEPT !.presence = "deleted"]
      BY <2>1, <3>1
    <3> QED
      BY <2>0, <2>2, <3>2 DEF ThreadState
  <2>3. CASE e.type = "thread.archived"
    <3>1. ThreadsAfter(ts, e) = UpdateThread(ts, t, [th EXCEPT !.archived = TRUE])
      BY <1>3, <2>3 DEF ThreadsAfter
    <3>2. ThreadsAfter(ts, e)[t] = [th EXCEPT !.archived = TRUE]
      BY <2>1, <3>1
    <3> QED
      BY <1>3, <2>0, <2>3, <3>2 DEF ThreadState
  <2>4. CASE e.type = "thread.unarchived"
    <3>1. ThreadsAfter(ts, e) = UpdateThread(ts, t, [th EXCEPT !.archived = FALSE])
      BY <1>3, <2>4 DEF ThreadsAfter
    <3>2. ThreadsAfter(ts, e)[t] = [th EXCEPT !.archived = FALSE]
      BY <2>1, <3>1
    <3> QED
      BY <1>3, <2>0, <2>4, <3>2 DEF ThreadState
  <2>5. CASE e.type = "thread.proposed-plan-upserted"
    <3>1. ThreadsAfter(ts, e) = UpdateThread(ts, t, [th EXCEPT !.plans = @ \cup ({e.plan} \ {None})])
      BY <1>3, <2>5 DEF ThreadsAfter
    <3>2. ThreadsAfter(ts, e)[t] = [th EXCEPT !.plans = @ \cup ({e.plan} \ {None})]
      BY <2>1, <3>1
    <3> QED
      BY <1>3, <2>0, <2>5, <3>2 DEF ThreadState
  <2>6. CASE e.type = "thread.reverted"
    <3>1. ThreadsAfter(ts, e) = UpdateThread(ts, t, [th EXCEPT !.plans = @ \ {e.plan}])
      BY <1>3, <2>6 DEF ThreadsAfter
    <3>2. ThreadsAfter(ts, e)[t] = [th EXCEPT !.plans = @ \ {e.plan}]
      BY <2>1, <3>1
    <3> QED
      BY <1>3, <2>0, <2>6, <3>2 DEF ThreadState
  <2>7. CASE e.type \notin {"thread.deleted", "thread.archived", "thread.unarchived",
                            "thread.proposed-plan-upserted", "thread.reverted"}
    <3>1. ThreadsAfter(ts, e) = ts
      BY <1>3, <2>7 DEF ThreadsAfter
    <3> QED
      BY <1>3, <2>7, <3>1
  <2> QED
    BY <2>2, <2>3, <2>4, <2>5, <2>6, <2>7
<1> QED
  BY <1>1, <1>2, <1>3

\* One entry more: the set of earlier positions gains it or not.
LEMMA EarlierNext ==
  ASSUME NEW s, NEW n \in Nat, NEW type, NEW t
  PROVE  EarlierIn(s, (n + 1) + 1, type, t) =
           EarlierIn(s, n + 1, type, t) \cup
             (IF s[n + 1].event.type = type /\ s[n + 1].event.thread = t THEN {n + 1} ELSE {})
<1>1. 1 .. ((n + 1) + 1) - 1 = (1 .. (n + 1) - 1) \cup {n + 1}
  OBVIOUS
<1> QED
  BY <1>1 DEF EarlierIn

\* The replay of a possible story tells it.
LEMMA ReplayTells ==
  ASSUME NEW s \in Seq(Entry), \A i \in 1 .. Len(s) : StoryAt(s, i), NEW t \in Threads,
         NEW n \in 0 .. Len(s)
  PROVE  Tells(ReplayOf(s, n), s, n, t)
<1> DEFINE S == {k \in Nat : Tells(ReplayOf(s, k), s, k, t)}
<1>1. Len(s) \in Nat
  BY LenProperties
<1>2. 0 \in S
  <2>1. \A type : EarlierIn(s, 0 + 1, type, t) = {}
    BY DEF EarlierIn
  <2>2. EmptyReadModel.threads[t].presence = "absent"
    BY DEF EmptyReadModel
  <2>3. Tells(EmptyReadModel, s, 0, t)
    BY <2>1, <2>2 DEF Tells
  <2> QED
    BY <2>3, ReplayStart
<1>3. \A k \in 0 .. Len(s) - 1 : k \in S => k + 1 \in S
  <2> SUFFICES ASSUME NEW k \in 0 .. Len(s) - 1, Tells(ReplayOf(s, k), s, k, t)
               PROVE  Tells(ReplayOf(s, k + 1), s, k + 1, t)
    OBVIOUS
  <2> DEFINE m == ReplayOf(s, k)
             e == s[k + 1].event
             ts == ThreadsAfter(m.threads, e)
  <2>1. k \in Nat /\ k \in 0 .. Len(s) /\ k + 1 \in 1 .. Len(s)
    BY <1>1
  <2>2. s[k + 1] \in Entry
    BY <2>1, ElementOfSeq
  <2>3. e \in Event
    BY <2>2 DEF Entry
  <2>4. m.threads \in [Threads -> ThreadState]
    BY <2>1, ReplayType DEF ReadModel
  <2>5. ReplayOf(s, k + 1).threads = ts
    <3>1. ReplayOf(s, k + 1) = ProjectEvent(ReplayOf(s, k), s[k + 1].event, k + 1)
      BY <2>1, ReplayNext
    <3> QED
      BY <3>1 DEF ProjectEvent
  <2>6. /\ e.thread # t => ts[t] = m.threads[t]
        /\ e.thread = t =>
              /\ e.type = "thread.created" => ts[t].presence # "absent"
              /\ (e.type # "thread.created" /\ m.threads[t].presence # "absent") =>
                   /\ ts[t].presence # "absent"
                   /\ e.type = "thread.archived" => ts[t].archived
                   /\ e.type \notin {"thread.archived", "thread.unarchived"} =>
                        ts[t].archived = m.threads[t].archived
    BY <2>3, <2>4, ThreadAfter
  <2>7. StoryAt(s, k + 1) /\ t # None
    BY <2>1, NoneAssumption
  <2> DEFINE Created    == EarlierIn(s, k + 1, "thread.created", t)
             Archived   == EarlierIn(s, k + 1, "thread.archived", t)
             Unarchived == EarlierIn(s, k + 1, "thread.unarchived", t)
             Created2    == EarlierIn(s, (k + 1) + 1, "thread.created", t)
             Archived2   == EarlierIn(s, (k + 1) + 1, "thread.archived", t)
             Unarchived2 == EarlierIn(s, (k + 1) + 1, "thread.unarchived", t)
  <2>8. /\ Created2 = Created \cup (IF e.type = "thread.created" /\ e.thread = t THEN {k + 1} ELSE {})
        /\ Archived2 = Archived \cup (IF e.type = "thread.archived" /\ e.thread = t THEN {k + 1} ELSE {})
        /\ Unarchived2 =
             Unarchived \cup (IF e.type = "thread.unarchived" /\ e.thread = t THEN {k + 1} ELSE {})
    BY <2>1, EarlierNext
  <2>9. /\ m.threads[t].presence # "absent" <=> Created # {}
        /\ ~m.threads[t].archived => \A j \in Archived : \E u \in Unarchived : j < u
    BY DEF Tells
  <2>10. /\ e.thread = t /\ e.type = "thread.created" => Created = {}
         /\ e.thread = t /\ e.type # "thread.created" => Created # {}
    BY <2>7 DEF StoryAt
  <2>11. Created = {} => Archived = {}
    <3> SUFFICES ASSUME Created = {}, NEW j \in Archived PROVE FALSE
      OBVIOUS
    <3>1. j \in 1 .. k /\ s[j].event.type = "thread.archived" /\ s[j].event.thread = t
      BY <2>1 DEF EarlierIn
    <3>2. StoryAt(s, j)
      BY <2>1, <3>1
    <3>3. EarlierIn(s, j, "thread.created", t) # {}
      BY <2>7, <3>1, <3>2 DEF StoryAt
    <3>4. EarlierIn(s, j, "thread.created", t) \subseteq Created
      BY <2>1, <3>1 DEF EarlierIn
    <3> QED
      BY <3>3, <3>4
  <2>12. \A j \in Archived : j \in Nat /\ j < k + 1
    BY <2>1 DEF EarlierIn
  <2> HIDE DEF Created, Archived, Unarchived, Created2, Archived2, Unarchived2, e, m, ts
  <2>13. /\ ts[t].presence # "absent" <=> Created2 # {}
         /\ ~ts[t].archived => \A j \in Archived2 : \E u \in Unarchived2 : j < u
    <3>1. CASE e.thread # t
      BY <2>6, <2>8, <2>9, <3>1
    <3>2. CASE e.thread = t /\ e.type = "thread.created"
      <4>1. Archived2 = {}
        BY <2>8, <2>10, <2>11, <3>2
      <4> QED
        BY <2>6, <2>8, <3>2, <4>1
    <3>3. CASE e.thread = t /\ e.type # "thread.created"
      <4>1. m.threads[t].presence # "absent" /\ Created # {}
        BY <2>9, <2>10, <3>3
      <4>2. CASE e.type = "thread.archived"
        BY <2>6, <2>8, <3>3, <4>1, <4>2
      <4>3. CASE e.type = "thread.unarchived"
        <5>1. Archived2 = Archived /\ k + 1 \in Unarchived2
          BY <2>8, <3>3, <4>3
        <5>2. \A j \in Archived2 : \E u \in Unarchived2 : j < u
          BY <2>12, <5>1
        <5> QED
          BY <2>6, <2>8, <3>3, <4>1, <4>3, <5>2
      <4>4. CASE e.type \notin {"thread.archived", "thread.unarchived"}
        BY <2>6, <2>8, <2>9, <3>3, <4>1, <4>4
      <4> QED
        BY <4>2, <4>3, <4>4
    <3> QED
      BY <3>1, <3>2, <3>3
  <2> QED
    BY <2>5, <2>13 DEF Tells, Created2, Archived2, Unarchived2
<1> HIDE DEF S
<1>4. 0 .. Len(s) \subseteq S
  BY <1>1, <1>2, <1>3, BoundedInduction
<1> QED
  BY <1>4 DEF S

\* What the decider's events say of their thread: it is there, or it is created
\* and was not, and it is not archived where it is archived.
LEMMA DecidedEvents ==
  ASSUME NEW m, NEW c \in Command, c.type \in ProjectCommandTypes => c.thread = None,
         NEW i \in 1 .. Len(Decide(m, c))
  PROVE  LET e == Decide(m, c)[i] IN
         /\ e.type = "thread.created" => e.thread \in Threads /\ ~ThreadExists(m, e.thread)
         /\ (e.type # "thread.created" /\ e.thread # None) => ThreadExists(m, e.thread)
         /\ e.type = "thread.archived" => ThreadNotArchived(m, e.thread)
         /\ i # 1 => e.type = "thread.turn-start-requested"
<1> DEFINE e == Decide(m, c)[i]
<1>1. Accepts(m, c)
  <2>1. CASE ~Accepts(m, c)
    BY <2>1, EmptySeq DEF Decide
  <2> QED
    BY <2>1
<1>2. /\ c.type \in CommandTypes /\ c.thread \in Threads \cup {None}
      /\ c.thread = None => c.thread \notin Threads
  BY NoneAssumption DEF Command
<1>3. CASE c.type = "thread.turn.start"
  <2>1. Decide(m, c) = << EventFor(c, "thread.message-sent"),
                          EventFor(c, "thread.turn-start-requested") >>
    BY <1>1, <1>3 DEF Decide
  <2>2. ThreadExists(m, c.thread)
    BY <1>1, <1>3 DEF Accepts, PlainThreadCommandTypes
  <2>3. /\ e.thread = c.thread
        /\ \/ i = 1 /\ e.type = "thread.message-sent"
           \/ i = 2 /\ e.type = "thread.turn-start-requested"
    BY <2>1 DEF EventFor
  <2> HIDE DEF e
  <2>4. /\ e.type = "thread.created" => e.thread \in Threads /\ ~ThreadExists(m, e.thread)
        /\ (e.type # "thread.created" /\ e.thread # None) => ThreadExists(m, e.thread)
        /\ e.type = "thread.archived" => ThreadNotArchived(m, e.thread)
        /\ i # 1 => e.type = "thread.turn-start-requested"
    BY <2>2, <2>3
  <2> QED
    BY <2>4 DEF e
<1>4. CASE c.type # "thread.turn.start"
  <2>1. Decide(m, c) = << EventFor(c, EventTypeOf(c.type)) >>
    BY <1>1, <1>4 DEF Decide
  <2>2. e.thread = c.thread /\ e.type = EventTypeOf(c.type) /\ i = 1
    BY <2>1 DEF EventFor
  <2>3. /\ EventTypeOf(c.type) = "thread.created" => c.type = "thread.create"
        /\ EventTypeOf(c.type) = "thread.archived" => c.type = "thread.archive"
        /\ c.type = "thread.create" => EventTypeOf(c.type) = "thread.created"
    BY <1>2 DEF EventTypeOf, CommandTypes, ProjectCommandTypes, PlainThreadCommandTypes
  <2>4. c.type = "thread.create" => c.thread \in Threads /\ ~ThreadExists(m, c.thread)
    BY <1>1 DEF Accepts, PlainThreadCommandTypes
  <2>5. c.type = "thread.archive" => ThreadNotArchived(m, c.thread)
    BY <1>1 DEF Accepts, PlainThreadCommandTypes
  <2>6. (c.type # "thread.create" /\ c.thread # None) => ThreadExists(m, c.thread)
    BY <1>1 DEF Accepts, PlainThreadCommandTypes, ThreadNotArchived, ThreadArchived,
                ProjectCommandTypes
  <2> HIDE DEF e
  <2>7. /\ e.type = "thread.created" => e.thread \in Threads /\ ~ThreadExists(m, e.thread)
        /\ (e.type # "thread.created" /\ e.thread # None) => ThreadExists(m, e.thread)
        /\ e.type = "thread.archived" => ThreadNotArchived(m, e.thread)
        /\ i # 1 => e.type = "thread.turn-start-requested"
    BY <2>2, <2>3, <2>4, <2>5, <2>6
  <2> QED
    BY <2>7 DEF e
<1> QED
  BY <1>3, <1>4

\* A story does not change when something is added to its end.
LEMMA StoryKept ==
  ASSUME NEW s, NEW t, NEW n \in Nat, SameEvents(s, t, n), NEW i \in 1 .. n, StoryAt(s, i)
  PROVE  StoryAt(t, i)
<1>1. \A type, k : EarlierIn(s, i, type, k) = EarlierIn(t, i, type, k)
  BY DEF EarlierIn, SameEvents
<1>2. s[i].event = t[i].event
  BY DEF SameEvents
<1> QED
  BY <1>1, <1>2 DEF StoryAt

LEMMA LifecycleStep ==
  ASSUME Transactional, BaseInv, ReplayInv, LifecycleRespected, [Next]_vars
  PROVE  LifecycleRespected'
<1>0. TypeInv /\ PositionInv /\ LedgerInv /\ log \in Seq(Entry) /\ Len(log) \in Nat
  BY TypeFacts DEF BaseInv
<1>1. CASE log' = log
  BY <1>1, LifecycleIsStory, LifecycleIsStoryNext
<1>2. CASE Commit
  <2> DEFINE n == Len(log)
             c == Body[CurrentCommand]
             m == readModel
  <2>1. pc = "commit" /\ pc \in InTx /\ pc \in Busy /\ pc \in Serving
    BY <1>2 DEF Commit, InTx, Busy, Serving
  <2>2. /\ Len(log') = n + Len(Planned) /\ Len(Planned) \in {1, 2}
        /\ \A i \in 1 .. n : log'[i] = log[i]
        /\ \A i \in 1 .. Len(Planned) : log'[n + i] = Planned[i]
    BY <1>0, <1>2, CommitFacts
  <2>3. /\ c \in Command
        /\ c.type \in ProjectCommandTypes => c.thread = None
    BY <1>0, <2>1, CurrentType, EngineAssumption
  <2>4. /\ Len(Planned) = Len(Decide(m, c))
        /\ \A i \in 1 .. Len(Planned) : Planned[i].event = Decide(m, c)[i]
    <3>1. Decide(m, c) \in Seq(Event)
      BY <2>3, DecideShape
    <3>2. Len(Decide(m, c)) \in Nat
      BY <3>1, LenProperties
    <3> HIDE DEF c, m
    <3>3. Planned = [i \in 1 .. Len(Decide(m, c)) |->
                       [command |-> CurrentCommand, event |-> Decide(m, c)[i]]]
      BY DEF Planned, c, m
    <3> QED
      BY <3>2, <3>3
  <2>5. m = ReplayOf(log, n)
    BY <1>0, <2>1 DEF PositionInv, ReplayInv
  <2>6. \A i \in 1 .. n : StoryAt(log, i)
    BY LifecycleIsStory
  <2>7. \A t \in Threads : Tells(m, log, n, t)
    BY <1>0, <2>5, <2>6, ReplayTells
  <2>8. SameEvents(log, log', n)
    BY <2>2 DEF SameEvents
  <2>9. \A i \in 1 .. n : StoryAt(log', i)
    BY <1>0, <2>6, <2>8, StoryKept
  <2>10. \A type, t : /\ EarlierIn(log', n + 1, type, t) = EarlierIn(log, n + 1, type, t)
                      /\ EarlierIn(log, n + 1, type, t) \subseteq EarlierIn(log', n + 2, type, t)
    BY <1>0, <2>2 DEF EarlierIn
  <2> HIDE DEF c, m, n
  <2>11. n \in Nat
    BY <1>0 DEF n
  <2>12. ASSUME NEW j \in 1 .. Len(Planned) PROVE StoryAt(log', n + j)
    <3> DEFINE e == Decide(m, c)[j]
    <3>1. /\ e.type = "thread.created" => e.thread \in Threads /\ ~ThreadExists(m, e.thread)
          /\ (e.type # "thread.created" /\ e.thread # None) => ThreadExists(m, e.thread)
          /\ e.type = "thread.archived" => ThreadNotArchived(m, e.thread)
          /\ j # 1 => e.type = "thread.turn-start-requested"
      BY <2>3, <2>4, DecidedEvents
    <3>2. log'[n + j].event = e
      BY <2>2, <2>4
    <3> HIDE DEF e
    <3>3. ThreadExists(m, e.thread) => EarlierIn(log, n + 1, "thread.created", e.thread) # {}
      BY <2>7 DEF Tells, ThreadExists
    <3>4. CASE j = 1
      <4>1. e.type = "thread.created" => EarlierIn(log, n + 1, "thread.created", e.thread) = {}
        BY <2>7, <3>1 DEF Tells, ThreadExists
      <4>2. (e.type # "thread.created" /\ e.thread # None)
              => EarlierIn(log, n + 1, "thread.created", e.thread) # {}
        BY <3>1, <3>3
      <4>3. e.type = "thread.archived" =>
              \A i \in EarlierIn(log, n + 1, "thread.archived", e.thread) :
                \E k \in EarlierIn(log, n + 1, "thread.unarchived", e.thread) : i < k
        BY <2>7, <3>1 DEF Tells, ThreadNotArchived, ThreadExists
      <4> QED
        BY <2>10, <3>2, <3>4, <4>1, <4>2, <4>3 DEF StoryAt
    <3>5. CASE j # 1
      <4>1. j = 2 /\ e.type = "thread.turn-start-requested"
        BY <2>2, <3>1, <3>5
      <4>2. e.thread # None => EarlierIn(log', n + 2, "thread.created", e.thread) # {}
        BY <2>10, <3>1, <3>3, <4>1
      <4> QED
        BY <3>2, <4>1, <4>2 DEF StoryAt
    <3> QED
      BY <3>4, <3>5
  <2>13. \A i \in 1 .. Len(log') : StoryAt(log', i)
    <3> TAKE i \in 1 .. Len(log')
    <3>1. i \in 1 .. n \/ (i - n \in 1 .. Len(Planned) /\ n + (i - n) = i)
      BY <2>2, <2>11 DEF n
    <3> QED
      BY <2>9, <2>12, <3>1 DEF n
  <2> QED
    BY <2>13, LifecycleIsStoryNext
<1>3. CASE WriteRejectedReceipt
  BY <1>1, <1>3 DEF WriteRejectedReceipt
<1> QED
  BY <1>0, <1>1, <1>2, <1>3, DiskSteps

\* The log tells a possible story of every thread: created once and first, and
\* archived only where it is not (requireThreadAbsent, requireThreadNotArchived,
\* and a decision that is always taken on the state the log is in).
THEOREM StoriesArePossible == ASSUME Transactional PROVE Spec => []LifecycleRespected
<1>1. Init => LifecycleRespected
  <2>1. Init => Len(log) = 0
    BY DEF Init
  <2> QED
    BY <2>1 DEF LifecycleRespected
<1>2. BaseInv /\ ReplayInv /\ LifecycleRespected /\ [Next]_vars => LifecycleRespected'
  BY LifecycleStep
<1> QED
  BY <1>1, <1>2, ReplayHolds, PTL DEF Spec

---------------------------------------------------------------------------
(* The engine implements CommandLog.                                       *)

\* The state and the settlements CommandLog sees.
State   == Replay(Len(log))
Settled == [c \in CommandIds |->
              IF receipts[c].status = "none" THEN "open" ELSE receipts[c].status]

LEMMA StateIsReplay == State = ReplayOf(log, Len(log))
  BY DEF State, Replay, ReplayOf

LEMMA StateIsReplayNext == State' = ReplayOf(log', Len(log'))
  BY DEF State, Replay, ReplayOf

\* The steps between a failed dispatch and its answer.
Failing == {"reconcile", "replay", "publish", "reject", "fail"}

\* Every request in the queue or in hand still waits for its answer, no two of
\* them are the same, and a refusal is still what the decider would say now.
WaitInv ==
    /\ pc \in Busy => answers[cur].status = "pending"
    /\ \A i \in 1 .. Len(queue) : answers[queue[i]].status = "pending"
    /\ \A i \in 1 .. Len(queue) : pc \in Busy => queue[i] # cur
    /\ \A i, j \in 1 .. Len(queue) : i # j => queue[i] # queue[j]
    /\ (pc \in Failing /\ err = "invariant") => Decide(readModel, Body[CurrentCommand]) = <<>>

LEMMA WaitInit == Init => WaitInv
  BY EmptySeq DEF Init, WaitInv, Busy, Serving, Failing

\* The steps that leave queue, answers and request in hand alone, and a refusal
\* what it is.
LEMMA WaitQuiet ==
  ASSUME BaseInv, [Next]_vars
  PROVE  \/ \E c \in CommandIds : Dispatch(c)
         \/ TakeEnvelope \/ AnswerFromReceipt \/ DecideCommand \/ InstallReplayed
         \/ AnswerAccepted \/ AnswerFailed \/ Crash
         \/ /\ queue' = queue /\ answers' = answers /\ requests' = requests
            /\ pc' \in Busy => pc \in Busy /\ cur' = cur
            /\ (pc' \in Failing /\ err' = "invariant") =>
                  pc \in Failing /\ err = "invariant" /\ readModel' = readModel
<1> USE DEF disk, work, callers, delivery, Busy, Serving, Failing, Starting
<1>1. CASE Startup
  BY <1>1 DEF Startup, Restart, BootstrapEvent, BootstrapNextProjector, BootstrapDone, LoadEvent, StartWorker,
              BaseInv, LedgerInv
<1>2. CASE Worker
  <2>1. CASE AppendEvent \/ ProjectAppended \/ WriteReceipt \/ Commit
    BY <2>1 DEF AppendEvent, ProjectAppended, WriteReceipt, Commit, BaseInv, LedgerInv
  <2>2. CASE InstallReadModel \/ PublishEvent
    BY <2>2 DEF InstallReadModel, PublishEvent, BaseInv, LedgerInv
  <2>3. CASE ReadPersisted \/ ReplayPersisted \/ ReconcileDone \/ WriteRejectedReceipt
    BY <2>3 DEF ReadPersisted, ReplayPersisted, ReconcileDone, WriteRejectedReceipt
  <2> QED
    BY <1>2, <2>1, <2>2, <2>3 DEF Worker
<1>3. CASE Environment
  BY <1>3 DEF Environment, StoreFault, ReconcileFault, Upgrade, BaseInv, LedgerInv
<1>4. CASE UNCHANGED vars
  BY <1>4 DEF vars
<1> QED
  BY <1>1, <1>2, <1>3, <1>4 DEF Next

\* The end of processEnvelope answers the request in hand and no other.
LEMMA WaitSettle ==
  ASSUME TypeInv, WaitInv, pc \in Busy, NEW a, Settle(a), queue' = queue
  PROVE  WaitInv'
<1>1. /\ answers' = [answers EXCEPT ![cur] = a] /\ pc' = "idle"
      /\ queue \in Seq(1 .. Len(requests)) /\ answers \in Seq(Answer)
      /\ Len(answers) = Len(requests)
  BY DEF Settle, TypeInv, TypeOK
<1>2. ASSUME NEW i \in 1 .. Len(queue) PROVE answers'[queue[i]].status = "pending"
  <2>1. queue[i] \in 1 .. Len(requests) /\ queue[i] # cur /\ answers[queue[i]].status = "pending"
    BY <1>1, ElementOfSeq DEF WaitInv
  <2>2. answers'[queue[i]] = answers[queue[i]]
    BY <1>1, <2>1
  <2> QED
    BY <2>1, <2>2
<1> QED
  BY <1>1, <1>2 DEF WaitInv, Busy, Serving, Failing

LEMMA WaitStep ==
  ASSUME Transactional, BaseInv, WaitInv, [Next]_vars
  PROVE  WaitInv'
<1> USE DEF callers, work
<1>0. /\ TypeInv /\ LedgerInv /\ PositionInv
      /\ queue \in Seq(1 .. Len(requests)) /\ answers \in Seq(Answer) /\ requests \in Seq(CommandIds)
      /\ Len(answers) = Len(requests) /\ Len(requests) \in Nat /\ Len(queue) \in Nat
  BY LenProperties DEF BaseInv, TypeInv, TypeOK
<1>1. ASSUME NEW c \in CommandIds, Dispatch(c) PROVE WaitInv'
  <2> DEFINE r == Len(requests) + 1
  <2>1. /\ requests' = Append(requests, c) /\ answers' = Append(answers, Outcome("pending"))
        /\ queue' = Append(queue, r) /\ pc' = pc /\ cur' = cur /\ err' = err /\ readModel' = readModel
    BY <1>1 DEF Dispatch
  <2>2. /\ \A i \in 1 .. Len(requests) : answers'[i] = answers[i] /\ requests'[i] = requests[i]
        /\ answers'[r] = Outcome("pending")
    <3>1. Outcome("pending") \in Answer
      BY DEF Outcome, Answer
    <3> QED
      BY <1>0, <2>1, <3>1, AppendProperties
  <2>3. /\ Len(queue') = Len(queue) + 1
        /\ \A i \in 1 .. Len(queue) : queue'[i] = queue[i]
        /\ queue'[Len(queue) + 1] = r
    <3>1. queue \in Seq(Nat) /\ r \in Nat
      <4>1. 1 .. Len(requests) \subseteq Nat
        BY <1>0
      <4> QED
        BY <1>0, <4>1
    <3> HIDE DEF r
    <3> QED
      BY <2>1, <3>1, AppendProperties
  <2>4. \A i \in 1 .. Len(queue) : queue[i] \in 1 .. Len(requests) /\ queue[i] # r
    BY <1>0, ElementOfSeq
  <2>5. pc \in Busy => cur \in 1 .. Len(requests) /\ cur # r
    BY <1>0, CurrentType
  <2> HIDE DEF r
  <2>6. \A i \in 1 .. Len(queue') : i \in 1 .. Len(queue) \/ i = Len(queue) + 1
    BY <1>0, <2>3
  <2>7. \A i \in 1 .. Len(queue') : answers'[queue'[i]].status = "pending"
    BY <2>2, <2>3, <2>4, <2>6 DEF WaitInv, Outcome
  <2>8. \A i \in 1 .. Len(queue') : pc' \in Busy => queue'[i] # cur'
    BY <2>1, <2>3, <2>5, <2>6 DEF WaitInv
  <2>9. \A i, j \in 1 .. Len(queue') : i # j => queue'[i] # queue'[j]
    BY <2>3, <2>4, <2>6 DEF WaitInv
  <2>10. pc' \in Busy => answers'[cur'].status = "pending"
    BY <2>1, <2>2, <2>5 DEF WaitInv
  <2>11. (pc' \in Failing /\ err' = "invariant") => Decide(readModel, Body[CurrentCommand])' = <<>>
    <3>1. Failing \subseteq Busy
      BY DEF Failing, Busy, Serving
    <3> SUFFICES ASSUME pc \in Failing, err = "invariant" PROVE Decide(readModel', Body[CurrentCommand']) = <<>>
      BY <2>1
    <3>2. CurrentCommand' = CurrentCommand
      BY <1>0, <1>1, <3>1, DispatchFacts
    <3> QED
      BY <2>1, <3>2 DEF WaitInv
  <2> QED
    BY <2>7, <2>8, <2>9, <2>10, <2>11 DEF WaitInv
<1>2. CASE TakeEnvelope
  <2>1. /\ queue # <<>> /\ cur' = Head(queue) /\ queue' = Tail(queue) /\ pc' = "lookup"
        /\ answers' = answers
    BY <1>2 DEF TakeEnvelope
  <2>2. /\ cur' = queue[1] /\ 1 \in 1 .. Len(queue) /\ Len(queue') = Len(queue) - 1
        /\ \A i \in 1 .. Len(queue') : queue'[i] = queue[i + 1] /\ i + 1 \in 1 .. Len(queue)
                                        /\ i + 1 # 1
    BY <1>0, <2>1, HeadTailProperties, EmptySeq
  <2>3. \A i, j \in 1 .. Len(queue') : i # j => i + 1 # j + 1
    OBVIOUS
  <2> QED
    BY <2>1, <2>2, <2>3 DEF WaitInv, Failing
<1>3. CASE AnswerFromReceipt
  <2>1. pc \in Busy /\ queue' = queue /\ \E a : Settle(a)
    BY <1>3 DEF AnswerFromReceipt, Busy, Serving
  <2> QED
    BY <1>0, <2>1, WaitSettle
<1>4. CASE AnswerAccepted
  <2>1. pc \in Busy /\ queue' = queue /\ \E a : Settle(a)
    BY <1>4 DEF AnswerAccepted, Busy, Serving
  <2> QED
    BY <1>0, <2>1, WaitSettle
<1>5. CASE AnswerFailed
  <2>1. pc \in Busy /\ queue' = queue /\ \E a : Settle(a)
    BY <1>5 DEF AnswerFailed, Busy, Serving
  <2> QED
    BY <1>0, <2>1, WaitSettle
<1>6. CASE DecideCommand
  <2>1. /\ pc \in Busy /\ pc' \in {"append", "reconcile"}
        /\ pc' = "reconcile" => Decide(readModel, Body[CurrentCommand]) = <<>>
        /\ queue' = queue /\ cur' = cur /\ answers' = answers /\ requests' = requests
        /\ readModel' = readModel /\ CurrentCommand' = CurrentCommand
    BY <1>6 DEF DecideCommand, Busy, Serving, CurrentCommand
  <2> QED
    BY <2>1 DEF WaitInv, Failing
<1>7. CASE InstallReplayed
  <2>1. /\ pc = "replay" /\ pc' = "publish" /\ readModel' = tx.model /\ tx.model = readModel
        /\ err' = err /\ queue' = queue /\ answers' = answers /\ cur' = cur /\ requests' = requests
        /\ CurrentCommand' = CurrentCommand
    BY <1>0, <1>7 DEF InstallReplayed, PositionInv, CurrentCommand
  <2> QED
    BY <2>1 DEF WaitInv, Failing, Busy, Serving
<1>8. CASE Crash
  <2>1. pc' = "down" /\ queue' = <<>> /\ Len(<<>>) = 0
    BY <1>8, EmptySeq DEF Crash
  <2> QED
    BY <2>1 DEF WaitInv, Failing, Busy, Serving
<1>9. CASE /\ queue' = queue /\ answers' = answers /\ requests' = requests
           /\ pc' \in Busy => pc \in Busy /\ cur' = cur
           /\ (pc' \in Failing /\ err' = "invariant") =>
                 pc \in Failing /\ err = "invariant" /\ readModel' = readModel
  <2>1. Failing \subseteq Busy
    BY DEF Failing, Busy, Serving
  <2> QED
    BY <1>9, <2>1 DEF WaitInv, CurrentCommand
<1> QED
  BY <1>0, <1>1, <1>2, <1>3, <1>4, <1>5, <1>6, <1>7, <1>8, <1>9, WaitQuiet

\* CommandLog has the decider and the projector of the engine.
LEMMA AbstractDecide == \A m, c : Abstract!Decide(m, c) = Decide(m, c)
  BY DEF Abstract!Decide, Decide, Abstract!Accepts, Accepts, Abstract!EventFor, EventFor,
         Abstract!EventTypeOf, EventTypeOf, Abstract!ProjectExists, ProjectExists,
         Abstract!ThreadExists, ThreadExists, Abstract!ThreadArchived, ThreadArchived,
         Abstract!ThreadNotArchived, ThreadNotArchived,
         Abstract!SourcePlanUsable, SourcePlanUsable,
         Abstract!PlainThreadCommandTypes, PlainThreadCommandTypes

LEMMA AbstractProject == \A m, e, n : Abstract!ProjectEvent(m, e, n) = ProjectEvent(m, e, n)
  BY DEF Abstract!ProjectEvent, ProjectEvent, Abstract!ProjectsAfter, ProjectsAfter,
         Abstract!ThreadsAfter, ThreadsAfter, Abstract!UpdateThread, UpdateThread,
         Abstract!FreshThread, FreshThread

LEMMA AbstractInit == Init => Abstract!Init
<1> SUFFICES ASSUME Init PROVE Abstract!Init
  OBVIOUS
<1>1. /\ log = <<>> /\ requests = <<>> /\ answers = <<>> /\ Len(log) = 0
      /\ receipts = [c \in CommandIds |-> NoReceipt]
  BY DEF Init
<1>2. State = EmptyReadModel
  BY <1>1, StateIsReplay, ReplayStart
<1>3. Settled = [c \in CommandIds |-> "open"]
  BY <1>1 DEF Settled, NoReceipt
<1>4. Abstract!EmptyReadModel = EmptyReadModel
  BY DEF Abstract!EmptyReadModel, EmptyReadModel
<1> QED
  BY <1>1, <1>2, <1>3, <1>4 DEF Abstract!Init, State, Settled

\* A step that moves neither log nor receipts moves nothing CommandLog keeps there.
LEMMA AbstractKept ==
  /\ log' = log => State' = State
  /\ receipts' = receipts => Settled' = Settled
<1>1. ASSUME log' = log PROVE State' = State
  BY <1>1, StateIsReplay, StateIsReplayNext
<1>2. ASSUME receipts' = receipts PROVE Settled' = Settled
  BY <1>2 DEF Settled
<1> QED
  BY <1>1, <1>2

LEMMA AbstractCall ==
  ASSUME NEW c \in CommandIds, Dispatch(c) PROVE Abstract!Call
<1>1. /\ requests' = Append(requests, c) /\ log' = log /\ receipts' = receipts
      /\ answers' = Append(answers, [status |-> "pending", seq |-> 0])
  BY DEF Dispatch, disk, Outcome
<1> QED
  BY <1>1, AbstractKept DEF Abstract!Call, State, Settled

\* While a command is in hand somebody waits for it.
LEMMA AbstractAwaited ==
  ASSUME TypeInv, WaitInv, pc \in Busy
  PROVE  Abstract!Awaited(CurrentCommand)
<1>1. cur \in 1 .. Len(requests) /\ answers[cur].status = "pending"
  BY CurrentType DEF WaitInv
<1> QED
  BY <1>1 DEF Abstract!Awaited, CurrentCommand

\* A commit is the acceptance of the command in hand.
LEMMA AbstractAccept ==
  ASSUME Transactional, BaseInv, ReplayInv, WaitInv, Commit,
         NEW c \in CommandIds, c = CurrentCommand
  PROVE  Abstract!Accept(c)
<1> DEFINE events == Decide(readModel, Body[c])
           n == Len(log)
<1>0. /\ TypeInv /\ PositionInv /\ LedgerInv /\ receipts \in [CommandIds -> Receipt]
      /\ log \in Seq(Entry) /\ n \in Nat /\ tx.done \in Seq(Entry)
  BY TypeFacts DEF BaseInv, TypeInv, TypeOK
<1>1. /\ pc = "commit" /\ pc \in Busy /\ pc \in InTx /\ log' = log \o tx.done
      /\ requests' = requests /\ answers' = answers
  BY DEF Commit, Busy, Serving, InTx, callers
<1>2. /\ Len(Planned) \in {1, 2} /\ Len(log') = n + Len(Planned) /\ log' \in Seq(Entry)
      /\ \A i \in 1 .. n : log'[i] = log[i]
      /\ \A i \in 1 .. Len(Planned) : log'[n + i] = Planned[i]
      /\ c \in CommandIds /\ receipts[c].status = "none"
      /\ receipts' = [receipts EXCEPT ![c] = Accepted(Len(log'))]
  BY <1>0, CommitFacts
<1>3. State = readModel
  <2>1. readModel.seq = Len(log)
    BY <1>0, <1>1 DEF PositionInv, Serving, InTx
  <2> QED
    BY <2>1, StateIsReplay DEF ReplayInv
<1>4. /\ events # <<>> /\ Splits(tx.done, tx.todo, Planned) /\ tx.todo = <<>>
      /\ Planned = [i \in 1 .. Len(events) |-> [command |-> c, event |-> events[i]]]
  BY <1>0, <1>1 DEF LedgerInv, Planned
<1>5. Len(events) \in {1, 2} /\ Len(Planned) = Len(events)
      /\ \A i \in 1 .. Len(events) : Planned[i].event = events[i]
  <2>1. Body[c] \in Command
    BY <1>0, <1>1, CurrentType
  <2>2. Len(events) \in {1, 2}
    BY <1>4, <2>1, DecideShape
  <2> HIDE DEF events
  <2> QED
    BY <1>4, <2>2
<1>6. tx.done = Planned
  <2>1. Len(tx.done) = Len(Planned) /\ Len(tx.done) \in Nat
        /\ \A i \in 1 .. Len(tx.done) : tx.done[i] = Planned[i]
    <3>1. Len(tx.todo) = 0 /\ Len(tx.done) \in Nat
      BY <1>0, <1>4, EmptySeq, LenProperties
    <3>2. Len(tx.done) + 0 = Len(Planned) /\ \A i \in 1 .. Len(tx.done) : tx.done[i] = Planned[i]
      <4> HIDE DEF events
      <4> QED
        BY <1>4, <3>1 DEF Splits
    <3> HIDE DEF events
    <3> QED
      BY <3>1, <3>2
  <2>2. tx.done = [i \in 1 .. Len(tx.done) |-> tx.done[i]]
    BY <1>0
  <2>3. Planned = [i \in 1 .. Len(tx.done) |-> Planned[i]]
    BY <1>4, <1>5, <2>1
  <2> QED
    BY <2>1, <2>2, <2>3
<1> DEFINE first == ProjectEvent(State, events[1], n + 1)
<1>7. State' = IF Len(events) = 1 THEN first ELSE ProjectEvent(first, events[2], n + 2)
  <2>1. State' = ReplayOf(log', n + Len(events))
    BY <1>2, <1>5, StateIsReplayNext
  <2>2. ReplayOf(log', n) = State
    <3>1. SameEvents(log', log, n)
      BY <1>2 DEF SameEvents
    <3> QED
      BY <1>0, <3>1, ReplayPrefix, StateIsReplay
  <2>3. log'[n + 1].event = events[1]
    <3> HIDE DEF events, n
    <3>1. 1 \in 1 .. Len(Planned) /\ 1 \in 1 .. Len(events)
      BY <1>5
    <3> QED
      BY <1>2, <1>5, <3>1
  <2>4. ReplayOf(log', n + 1) = first
    BY <1>0, <2>2, <2>3, ReplayNext
  <2>5. CASE Len(events) = 1
    BY <2>1, <2>4, <2>5
  <2>6. CASE Len(events) = 2
    <3>1. log'[n + 2].event = events[2]
      <4> HIDE DEF events, n
      <4>1. 2 \in 1 .. Len(Planned) /\ 2 \in 1 .. Len(events)
        BY <1>5, <2>6
      <4> QED
        BY <1>2, <1>5, <4>1
    <3>2. n + 1 \in Nat /\ (n + 1) + 1 = n + 2
      BY <1>0
    <3> HIDE DEF events, n, first
    <3>3. ReplayOf(log', n + 2) = ProjectEvent(first, events[2], n + 2)
      BY <2>4, <3>1, <3>2, ReplayNext
    <3> QED
      BY <2>1, <2>6, <3>3
  <2> QED
    BY <1>5, <2>5, <2>6
<1>8. Settled[c] = "open" /\ Settled' = [Settled EXCEPT ![c] = "accepted"]
  BY <1>0, <1>2 DEF Settled, Accepted
<1>9. Abstract!Awaited(c)
  BY <1>0, <1>1, AbstractAwaited
<1>10. log' = log \o [i \in 1 .. Len(events) |-> [command |-> c, event |-> events[i]]]
  BY <1>1, <1>4, <1>6
<1>11. /\ Abstract!Decide(State, Body[c]) = events
       /\ Abstract!ProjectEvent(State, events[1], n + 1) = first
       /\ Abstract!ProjectEvent(first, events[2], n + 2) = ProjectEvent(first, events[2], n + 2)
  BY <1>3, AbstractDecide, AbstractProject
<1> HIDE DEF events, n, first
<1> QED
  BY <1>1, <1>4, <1>7, <1>8, <1>9, <1>10, <1>11 DEF Abstract!Accept, State, Settled, n

\* A rejected receipt settles the command in hand, for a reason that holds now.
LEMMA AbstractReject ==
  ASSUME Transactional, BaseInv, ReplayInv, WaitInv, WriteRejectedReceipt, receipts' # receipts,
         NEW c \in CommandIds, c = CurrentCommand
  PROVE  Abstract!Reject(c)
<1>0. TypeInv /\ PositionInv /\ LedgerInv /\ receipts \in [CommandIds -> Receipt]
  BY DEF BaseInv, TypeInv, TypeOK
<1>1. /\ pc = "reject" /\ pc \in Busy /\ log' = log /\ requests' = requests /\ answers' = answers
      /\ receipts' = [receipts EXCEPT ![c] = [status |-> "rejected", seq |-> readModel.seq]]
  BY DEF WriteRejectedReceipt, Busy, Serving, callers
<1>2. /\ receipts[c].status = "none" /\ err = "invariant"
  BY <1>0, <1>1 DEF LedgerInv
<1>4. State = readModel
  <2>1. readModel.seq = Len(log)
    BY <1>0, <1>1 DEF PositionInv, Serving
  <2> QED
    BY <2>1, StateIsReplay DEF ReplayInv
<1>5. Abstract!Decide(State, Body[c]) = <<>>
  BY <1>1, <1>2, <1>4, AbstractDecide DEF WaitInv, Failing
<1>6. Abstract!Awaited(c)
  BY <1>0, <1>1, AbstractAwaited
<1>7. Settled[c] = "open" /\ Settled' = [Settled EXCEPT ![c] = "rejected"]
  BY <1>0, <1>1, <1>2 DEF Settled
<1> QED
  BY <1>1, <1>5, <1>6, <1>7, AbstractKept DEF Abstract!Reject, State, Settled

\* The end of processEnvelope is the return of the request in hand.
LEMMA AbstractReturn ==
  ASSUME TypeInv, WaitInv, pc \in Busy, NEW a, Settle(a), UNCHANGED <<log, receipts, requests>>,
         Abstract!Answerable(CurrentCommand, a)
  PROVE  Abstract!Return
<1>1. /\ cur \in 1 .. Len(requests) /\ answers' = [answers EXCEPT ![cur] = a]
      /\ answers \in Seq(Answer) /\ Len(answers) = Len(requests)
  BY CurrentType DEF Settle, TypeInv, TypeOK
<1>2. answers[cur].status = "pending" /\ answers'[cur] = a
  BY <1>1 DEF WaitInv
<1>3. answers' = [answers EXCEPT ![cur] = answers'[cur]]
  BY <1>1, <1>2
<1>4. Abstract!Answerable(requests[cur], answers'[cur])
  BY <1>2 DEF CurrentCommand
<1>5. State' = State /\ Settled' = Settled
  BY AbstractKept
<1> QED
  BY <1>1, <1>2, <1>3, <1>4, <1>5 DEF Abstract!Return, State, Settled

\* The receipt of an accepted command points at its last event.
LEMMA AbstractAccepted ==
  ASSUME Transactional, TypeInv, ReceiptsMatchLog, NEW c \in CommandIds, NEW n \in Nat,
         receipts[c].status = "accepted", receipts[c].seq = n
  PROVE  Abstract!Answerable(c, Accepted(n))
<1>1. /\ n \in 1 .. Len(log) /\ log[n].command = c
      /\ \A i \in PositionsOf(c) : i <= n
  BY DEF ReceiptsMatchLog, PositionsOf
<1>2. \A i \in n + 1 .. Len(log) : log[i].command # c
  <2> SUFFICES ASSUME NEW i \in n + 1 .. Len(log), log[i].command = c PROVE FALSE
    OBVIOUS
  <2>1. i \in 1 .. Len(log) /\ ~(i <= n)
    OBVIOUS
  <2> QED
    BY <1>1, <2>1 DEF PositionsOf
<1>3. Settled[c] = "accepted"
  BY DEF Settled
<1> QED
  BY <1>1, <1>2, <1>3 DEF Abstract!Answerable, Settled, Accepted

\* Every step of the engine is a step of CommandLog, or none.
LEMMA AbstractStep ==
  ASSUME Transactional, BaseInv, ReceiptsMatchLog, ReplayInv, WaitInv, [Next]_vars
  PROVE  [Abstract!Next]_(Abstract!vars)
<1> USE DEF callers
<1>0. TypeInv /\ PositionInv /\ LedgerInv /\ receipts \in [CommandIds -> Receipt]
  BY DEF BaseInv, TypeInv, TypeOK
<1>1. ASSUME NEW c \in CommandIds, Dispatch(c) PROVE Abstract!Next
  BY <1>1, AbstractCall DEF Abstract!Next
<1>2. CASE Commit
  <2>1. CurrentCommand \in CommandIds
    BY <1>0, <1>2, CurrentType DEF Commit, Busy, Serving
  <2> QED
    BY <1>2, <2>1, AbstractAccept DEF Abstract!Next
<1>3. CASE WriteRejectedReceipt
  <2>1. CurrentCommand \in CommandIds
    BY <1>0, <1>3, CurrentType DEF WriteRejectedReceipt, Busy, Serving
  <2>2. CASE receipts' # receipts
    BY <1>3, <2>1, <2>2, AbstractReject DEF Abstract!Next
  <2>3. CASE receipts' = receipts
    <3>1. log' = log /\ requests' = requests /\ answers' = answers
      BY <1>3 DEF WriteRejectedReceipt
    <3> QED
      BY <2>3, <3>1, AbstractKept DEF Abstract!vars, State, Settled
  <2> QED
    BY <2>2, <2>3
<1>4. CASE AnswerFromReceipt
  <2> DEFINE c == CurrentCommand
  <2>1. pc \in Busy /\ UNCHANGED <<log, receipts, requests>> /\ receipts[c].status # "none"
    BY <1>4 DEF AnswerFromReceipt, Busy, Serving, disk
  <2>2. c \in CommandIds /\ receipts[c] \in Receipt
    BY <1>0, <2>1, CurrentType
  <2>3. CASE receipts[c].status = "accepted"
    <3>1. Settle(Accepted(receipts[c].seq))
      BY <1>4, <2>3 DEF AnswerFromReceipt
    <3>2. receipts[c].seq \in Nat
      BY <2>2 DEF Receipt
    <3>3. Abstract!Answerable(c, Accepted(receipts[c].seq))
      BY <1>0, <2>2, <2>3, <3>2, AbstractAccepted
    <3> QED
      BY <1>0, <2>1, <3>1, <3>3, AbstractReturn DEF Abstract!Next
  <2>4. CASE receipts[c].status # "accepted"
    <3>1. Settle(Outcome("previouslyRejected"))
      BY <1>4, <2>4 DEF AnswerFromReceipt
    <3>2. receipts[c].status = "rejected"
      BY <2>1, <2>2, <2>4 DEF Receipt
    <3>3. Abstract!Answerable(c, Outcome("previouslyRejected"))
      BY <2>2, <3>2 DEF Abstract!Answerable, Outcome
    <3> QED
      BY <1>0, <2>1, <3>1, <3>3, AbstractReturn DEF Abstract!Next
  <2> QED
    BY <2>3, <2>4
<1>5. CASE AnswerAccepted
  <2> DEFINE c == CurrentCommand
  <2>1. /\ pc \in Busy /\ UNCHANGED <<log, receipts, requests>> /\ Settle(Accepted(readModel.seq))
        /\ receipts[c] = Accepted(readModel.seq)
    BY <1>0, <1>5 DEF AnswerAccepted, Busy, Serving, disk, LedgerInv
  <2>2. c \in CommandIds /\ readModel.seq \in Nat
    BY <1>0, <2>1, CurrentType, TypeFacts
  <2>3. receipts[c].status = "accepted" /\ receipts[c].seq = readModel.seq
    BY <2>1 DEF Accepted
  <2>4. Abstract!Answerable(c, Accepted(readModel.seq))
    BY <1>0, <2>2, <2>3, AbstractAccepted
  <2> QED
    BY <1>0, <2>1, <2>4, AbstractReturn DEF Abstract!Next
<1>6. CASE AnswerFailed
  <2> DEFINE c == CurrentCommand
             a == Outcome(IF err = "invariant" THEN "rejected" ELSE "storeFailed")
  <2>1. /\ pc = "fail" /\ pc \in Busy /\ UNCHANGED <<log, receipts, requests>> /\ Settle(a)
    BY <1>6 DEF AnswerFailed, Busy, Serving, disk
  <2>2. CASE err = "invariant"
    <3>1. Decide(readModel, Body[c]) = <<>>
      BY <2>1, <2>2 DEF WaitInv, Failing
    <3>2. State = readModel
      <4>1. readModel.seq = Len(log)
        BY <1>0, <2>1 DEF PositionInv, Serving
      <4> QED
        BY <4>1, StateIsReplay DEF ReplayInv
    <3>3. Abstract!Decide(State, Body[c]) = <<>>
      BY <3>1, <3>2, AbstractDecide
    <3>4. a.status = "rejected"
      BY <2>2 DEF Outcome
    <3> QED
      BY <3>3, <3>4, <1>0, <2>1, AbstractReturn DEF Abstract!Answerable, State, Abstract!Next
  <2>3. CASE err # "invariant"
    <3>1. a.status = "storeFailed"
      BY <2>3 DEF Outcome
    <3> QED
      BY <3>1, <1>0, <2>1, AbstractReturn DEF Abstract!Answerable, Abstract!Next
  <2> QED
    BY <2>2, <2>3
<1>7. CASE Crash
  <2>1. /\ log' = log /\ receipts' = receipts /\ requests' = requests
        /\ answers' = [r \in 1 .. Len(answers) |->
                         IF answers[r].status = "pending"
                         THEN [status |-> "lost", seq |-> 0] ELSE answers[r]]
    BY <1>7 DEF Crash, disk, Outcome
  <2>2. Abstract!Disconnect
    BY <2>1, AbstractKept DEF Abstract!Disconnect, State, Settled
  <2> QED
    BY <2>2 DEF Abstract!Next
<1>8. CASE UNCHANGED <<log, receipts, requests, answers>>
  BY <1>8, AbstractKept DEF Abstract!vars, State, Settled
<1>9. \/ UNCHANGED <<requests, answers>>
      \/ \E c \in CommandIds : Dispatch(c)
      \/ AnswerFromReceipt \/ AnswerAccepted \/ AnswerFailed \/ Crash
  BY AnswerSteps
<1> QED
  BY <1>0, <1>1, <1>2, <1>3, <1>4, <1>5, <1>6, <1>7, <1>8, <1>9, DiskSteps

\* The engine, with its queue, transaction, failures, crashes and restarts,
\* implements the log that takes commands one at a time and answers its callers
\* with what was settled or not at all (processEnvelope as a whole).
THEOREM EngineImplementsCommandLog == ASSUME Transactional PROVE Spec => ImplementsCommandLog
<1>1. BaseInv /\ WaitInv /\ [Next]_vars => WaitInv'
  BY WaitStep
<1>2. Spec => []WaitInv
  BY <1>1, WaitInit, BaseCorrect, PTL DEF Spec
<1>3. BaseInv /\ ReceiptsMatchLog /\ ReplayInv /\ WaitInv /\ [Next]_vars => [Abstract!Next]_(Abstract!vars)
  BY AbstractStep
<1> QED
  BY <1>2, <1>3, AbstractInit, ReplayHolds, ReceiptsAlwaysMatchLog, PTL
     DEF Spec, ImplementsCommandLog, Abstract!Spec
=============================================================================
