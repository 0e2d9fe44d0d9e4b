------------------------ MODULE CheckpointFlow_proofs ------------------------
(***************************************************************************)
(* Theorems about CheckpointFlow, for any number of turns, edits, reverts  *)
(* and troubles: no variable leaves its type, turn counts never clash in   *)
(* the database, a checkpoint that can no longer be restored has lost its  *)
(* ref to a revert, the two projections part only where the model says so, *)
(* nothing is left open when the workers have drained, captures hold every *)
(* edit of their turn, and a revert that nothing disturbs is whole.        *)
(***************************************************************************)
EXTENDS CheckpointFlow, SequenceTheorems, DataInduction

---------------------------------------------------------------------------
(* Sequences: what queues need.                                            *)

LEMMA AppendIsSeq ==
  ASSUME NEW S, NEW s \in Seq(S), NEW x \in S
  PROVE  Append(s, x) \in Seq(S)
  OBVIOUS

LEMMA HeadTailIn ==
  ASSUME NEW S, NEW s \in Seq(S), s # <<>>
  PROVE  Head(s) \in S /\ Tail(s) \in Seq(S)
  OBVIOUS

LEMMA EmptyIsSeq == ASSUME NEW S PROVE <<>> \in Seq(S)
  OBVIOUS

LEMMA OneIsSeq == ASSUME NEW S, NEW x \in S PROVE <<x>> \in Seq(S)
  OBVIOUS

---------------------------------------------------------------------------
(* The inductive invariant.                                                *)

Reading == [turn : Turns, count : Nat]

ProviderType ==
    [alive : BOOLEAN, turn : 0 .. MaxTurns, last : 0 .. MaxTurns, asked : 0 .. MaxTurns,
     edits : [Turns -> 0 .. MaxEdits], conversation : Seq(Turns)]

MemoryType ==
    [checkpoints : SUBSET Checkpoint, active : 0 .. MaxTurns]

IngestionType ==
    [queue : Seq(RuntimeEvent), reading : Seq(Reading)]

ReactorType ==
    [domain : Seq(DomainEvent), runtime : Seq(RuntimeEvent), work : Work]

PastType ==
    [parted : SUBSET Turns, told : SUBSET Turns, deleted : SUBSET Nat, early : SUBSET Turns,
     asked : Nat, settled : Nat, lost : Nat, untold : SUBSET Turns, orphaned : SUBSET Turns]

BudgetType ==
    [edits : 0 .. MaxEdits, reverts : Nat, troubles : Nat]

\* TypeOK, and the types of what TypeOK leaves open.
Typed ==
    /\ provider \in ProviderType
    /\ files \in Files
    /\ DOMAIN refs \subseteq Nat /\ \A n \in DOMAIN refs : refs[n] \in Files
    /\ memory \in MemoryType
    /\ database \subseteq Checkpoint
    /\ ingestion \in IngestionType
    /\ reactor \in ReactorType
    /\ past \in PastType
    /\ budget \in BudgetType

\* No turn has more edits than have been spent.
EditsBounded == \A t \in Turns : provider.edits[t] + budget.edits <= MaxEdits

\* Every step of a revert knows a checkpoint at or after the turn it goes back to.
RevertInRange ==
    reactor.work.op \in {"restore", "rollback"} =>
        reactor.work.turnCount <= CurrentTurnCount(reactor.work.seen)

\* What is about to be recorded has its ref.
RecordHasRef ==
    reactor.work.op = "record" => reactor.work.checkpoint.count \in DOMAIN refs

Inv ==
    Typed /\ EditsBounded /\ RevertInRange /\ RecordHasRef
    /\ CountsDistinct /\ CapturedHaveRefs /\ ProjectionsAgree

LEMMA TypedImpliesTypeOK == Typed => TypeOK
  BY DEF Typed, TypeOK, Work, Idle, ProviderType, MemoryType, IngestionType, ReactorType

---------------------------------------------------------------------------
(* Operators.                                                              *)

\* The current turn count is one of the counts, or 0.
LEMMA CurrentTurnCountIsNat ==
  ASSUME NEW cs \in SUBSET Checkpoint
  PROVE  CurrentTurnCount(cs) \in Nat
<1>1. CASE \E c \in cs : \A d \in cs : d.count <= c.count
  <2>1. (CHOOSE c \in cs : \A d \in cs : d.count <= c.count) \in cs
    BY <1>1
  <2> QED
    BY <1>1, <2>1 DEF CurrentTurnCount, Checkpoint
<1>2. CASE ~ \E c \in cs : \A d \in cs : d.count <= c.count
  BY <1>2 DEF CurrentTurnCount
<1> QED
  BY <1>1, <1>2

\* A capture or a placeholder takes its place in both projections, and what the
\* two disagree about is only what RecordCheckpoint notes.
LEMMA RecordKeeps ==
  ASSUME Typed, CountsDistinct, CapturedHaveRefs, ProjectionsAgree,
         NEW c \in Checkpoint, RecordCheckpoint(c),
         c.captured => c.count \in DOMAIN refs
  PROVE  /\ memory' \in MemoryType
         /\ database' \subseteq Checkpoint
         /\ past' \in PastType
         /\ past'.deleted = past.deleted
         /\ CountsDistinct' /\ ProjectionsAgree'
         /\ \A d \in memory'.checkpoints :
               d.captured => d.count \in DOMAIN refs \cup past.deleted
<1>1. InMemory(memory.checkpoints, c) \subseteq memory.checkpoints \cup {c}
  BY DEF InMemory
<1>2. memory' \in MemoryType
      /\ memory'.checkpoints = InMemory(memory.checkpoints, c)
  BY <1>1 DEF Typed, RecordCheckpoint, MemoryType
<1>3. database' = InDatabase(database, c)
  BY DEF RecordCheckpoint
<1>4. database' \subseteq Checkpoint /\ CountsDistinct'
  BY <1>3 DEF InDatabase, CountsDistinct, Typed
<1> DEFINE late == IF c.status = "missing" /\ HasCaptured(memory.checkpoints, c.turn)
                   THEN {c.turn} ELSE {}
           clash == {d.turn : d \in {e \in memory.checkpoints :
                                       e.turn # c.turn /\ e.count = c.count}}
<1>5. late \subseteq Turns /\ clash \subseteq Turns
  <2>1. c.turn \in Turns /\ \A d \in memory.checkpoints : d.turn \in Turns
    BY DEF Typed, Checkpoint, MemoryType
  <2> QED
    BY <2>1
<1>6. past' = [past EXCEPT !.parted = @ \cup late \cup clash]
  BY DEF RecordCheckpoint
<1>7. /\ past' \in PastType
      /\ past'.deleted = past.deleted
      /\ past'.parted = past.parted \cup late \cup clash
  <2> HIDE DEF late, clash
  <2> QED
    BY <1>5, <1>6 DEF Typed, PastType
<1>8. ProjectionsAgree'
  <2> SUFFICES ASSUME NEW x, x.turn \notin past'.parted
               PROVE  x \in memory'.checkpoints <=> x \in database'
    BY DEF ProjectionsAgree
  <2>1. x.turn \notin past.parted /\ x.turn \notin late /\ x.turn \notin clash
    <3> HIDE DEF late, clash
    <3> QED BY <1>7
  <2>2. x \in memory.checkpoints <=> x \in database
    BY <2>1 DEF ProjectionsAgree
  <2>3. CASE c.status = "missing" /\ HasCaptured(memory.checkpoints, c.turn)
    <3>1. x.turn # c.turn
      BY <2>1, <2>3
    <3>2. x \in memory'.checkpoints <=> x \in memory.checkpoints
      BY <1>2, <2>3 DEF InMemory
    <3>3. x \in memory.checkpoints => x.count # c.count
      BY <2>1, <3>1
    <3> QED
      BY <1>3, <2>2, <3>1, <3>2, <3>3 DEF InDatabase
  <2>4. CASE ~(c.status = "missing" /\ HasCaptured(memory.checkpoints, c.turn))
    <3>1. x \in memory'.checkpoints <=> (x \in memory.checkpoints /\ x.turn # c.turn) \/ x = c
      BY <1>2, <2>4 DEF InMemory
    <3>2. x \in memory.checkpoints /\ x.turn # c.turn => x.count # c.count
      BY <2>1
    <3> QED
      BY <1>3, <2>2, <3>1, <3>2 DEF InDatabase
  <2> QED
    BY <2>3, <2>4
<1>9. \A d \in memory'.checkpoints : d.captured => d.count \in DOMAIN refs \cup past.deleted
  BY <1>1, <1>2 DEF CapturedHaveRefs
<1> QED
  BY <1>2, <1>4, <1>7, <1>8, <1>9

---------------------------------------------------------------------------
(* The initial states, and each action.                                    *)

LEMMA InitInv == Init => Inv
<1> SUFFICES ASSUME Init PROVE Inv
  OBVIOUS
<1> USE CheckpointAssumption
<1>1. /\ <<>> \in Seq(Turns) /\ <<>> \in Seq(RuntimeEvent) /\ <<>> \in Seq(Reading)
      /\ <<>> \in Seq(DomainEvent)
  BY EmptyIsSeq
<1>2. /\ provider \in ProviderType
      /\ provider.edits = [t \in Turns |-> 0]
  BY <1>1 DEF Init, ProviderType
<1>3. files \in Files /\ DOMAIN refs = {}
  BY DEF Init, Files, HeadFiles
<1>4. memory \in MemoryType
      /\ memory.checkpoints = {} /\ database = {}
  BY DEF Init, MemoryType
<1>5. /\ ingestion \in IngestionType
      /\ reactor \in ReactorType
      /\ reactor.work = Idle
  BY <1>1 DEF Init, Work, IngestionType, ReactorType
<1>6. past \in PastType
  BY DEF Init, PastType
<1>7. budget \in BudgetType
      /\ budget.edits = MaxEdits
  BY DEF Init, BudgetType
<1>8. Typed
  BY <1>2, <1>3, <1>4, <1>5, <1>6, <1>7 DEF Typed
<1>9. EditsBounded /\ RevertInRange /\ RecordHasRef
  BY <1>2, <1>5, <1>7 DEF EditsBounded, RevertInRange, RecordHasRef, Idle
<1>10. CountsDistinct /\ CapturedHaveRefs /\ ProjectionsAgree
  BY <1>4 DEF CountsDistinct, CapturedHaveRefs, ProjectionsAgree
<1> QED
  BY <1>8, <1>9, <1>10 DEF Inv

\* Steps that change neither checkpoints nor refs, and leave the worker where it is
\* or let it begin something that has no ref yet.
LEMMA OtherKept ==
  ASSUME Inv, UNCHANGED <<database, refs>>, memory'.checkpoints = memory.checkpoints,
         past'.deleted = past.deleted, past'.parted = past.parted,
         \/ reactor'.work = reactor.work
         \/ reactor'.work.op \notin {"record", "restore", "rollback"}
         \/ /\ reactor'.work.op = "rollback" /\ reactor.work.op = "restore"
            /\ reactor'.work.turnCount = reactor.work.turnCount
            /\ reactor'.work.seen = reactor.work.seen
  PROVE  RevertInRange' /\ RecordHasRef' /\ CountsDistinct' /\ CapturedHaveRefs' /\ ProjectionsAgree'
  BY DEF Inv, RevertInRange, RecordHasRef, CountsDistinct, CapturedHaveRefs, ProjectionsAgree,
         CurrentTurnCount

\* An event more in the reactor's queue, and the worker where it was.
LEMMA DomainGrows ==
  ASSUME Typed, NEW e \in DomainEvent, reactor' = [reactor EXCEPT !.domain = Append(@, e)]
  PROVE  reactor' \in ReactorType /\ reactor'.work = reactor.work
<1>1. reactor.domain \in Seq(DomainEvent)
  BY DEF Typed, ReactorType
<1>2. Append(reactor.domain, e) \in Seq(DomainEvent)
  BY <1>1, AppendIsSeq
<1> QED
  BY <1>2 DEF Typed, ReactorType

LEMMA RequestTurnInv == ASSUME Inv, RequestTurn PROVE Inv'
<1>1. Typed /\ EditsBounded
  BY DEF Inv
<1>2. reactor' \in ReactorType /\ reactor'.work = reactor.work
  <2>1. [type |-> "thread.turn-start-requested"] \in DomainEvent
    BY DEF DomainEvent
  <2> QED
    BY <1>1, <2>1, DomainGrows DEF RequestTurn
<1>3. provider' \in ProviderType /\ provider'.edits = provider.edits
  <2>1. provider \in ProviderType
    BY <1>1 DEF Typed
  <2>2. provider.asked + 1 \in 0 .. MaxTurns
    BY <2>1, CheckpointAssumption DEF RequestTurn, ProviderType
  <2>3. provider' = [provider EXCEPT !.asked = @ + 1]
    BY DEF RequestTurn
  <2> QED
    BY <2>1, <2>2, <2>3 DEF ProviderType
<1>4. Typed'
  BY <1>1, <1>2, <1>3 DEF Typed, RequestTurn
<1>5. EditsBounded'
  BY <1>1, <1>3 DEF EditsBounded, RequestTurn
<1> QED
  BY <1>2, <1>4, <1>5, OtherKept DEF Inv, RequestTurn

\* A runtime event reaches both subscribers; a worker's revert may lose its calm.
LEMMA EmitKeeps ==
  ASSUME Typed, NEW e \in RuntimeEvent, NEW r,
         r \in ReactorType,
         Emit(r, e)
  PROVE  /\ ingestion' \in IngestionType
         /\ reactor' \in ReactorType
         /\ reactor'.work = r.work
<1>1. Append(ingestion.queue, e) \in Seq(RuntimeEvent) /\ Append(r.runtime, e) \in Seq(RuntimeEvent)
  BY AppendIsSeq DEF Typed, IngestionType, ReactorType
<1> QED
  BY <1>1 DEF Emit, Typed, IngestionType, ReactorType

LEMMA DisturbedWork ==
  ASSUME NEW r \in ReactorType
  PROVE  /\ Disturbed(r) \in
              ReactorType
         /\ Disturbed(r).work.op = r.work.op
         /\ r.work.op \in {"restore", "rollback", "delete", "complete"} =>
              /\ Disturbed(r).work.turnCount = r.work.turnCount
              /\ Disturbed(r).work.seen = r.work.seen
         /\ r.work.op = "record" => Disturbed(r).work = r.work
<1>1. r.work \in Work
  BY DEF ReactorType
<1>2. CASE "calm" \in DOMAIN r.work
  <2>1. r.work \in [op : {"restore", "rollback", "delete", "complete"}, turnCount : Nat,
                          seen : SUBSET Checkpoint, calm : BOOLEAN]
    BY <1>1, <1>2 DEF Work, Idle
  <2>2. Disturbed(r) = [r EXCEPT !.work = [@ EXCEPT !.calm = FALSE]]
    BY <1>2 DEF Disturbed
  <2>3. [r.work EXCEPT !.calm = FALSE] \in
           [op : {"restore", "rollback", "delete", "complete"}, turnCount : Nat,
            seen : SUBSET Checkpoint, calm : BOOLEAN]
    BY <2>1
  <2>4. [r.work EXCEPT !.calm = FALSE] \in Work
    BY <2>3 DEF Work
  <2> DEFINE w == [r.work EXCEPT !.calm = FALSE]
  <2>5. /\ w.op = r.work.op /\ w.turnCount = r.work.turnCount
        /\ w.seen = r.work.seen /\ r.work.op # "record"
    BY <2>1
  <2>6. Disturbed(r).work = w
        /\ Disturbed(r) \in ReactorType
    <3> HIDE DEF w
    <3>1. Disturbed(r) = [r EXCEPT !.work = w] /\ w \in Work
      BY <2>2, <2>4 DEF w
    <3> QED
      BY <3>1 DEF ReactorType
  <2> QED
    BY <2>5, <2>6
<1>3. CASE "calm" \notin DOMAIN r.work
  BY <1>3 DEF Disturbed
<1> QED
  BY <1>2, <1>3

LEMMA DisturbedKeeps ==
  ASSUME Typed
  PROVE  /\ Disturbed(reactor) \in ReactorType
         /\ Disturbed(reactor).work.op = reactor.work.op
         /\ reactor.work.op \in {"restore", "rollback", "delete", "complete"} =>
              /\ Disturbed(reactor).work.turnCount = reactor.work.turnCount
              /\ Disturbed(reactor).work.seen = reactor.work.seen
         /\ reactor.work.op = "record" => Disturbed(reactor).work = reactor.work
  BY DisturbedWork DEF Typed

\* So the worker's invariants hold after a disturbance too.
LEMMA DisturbedOther ==
  ASSUME Inv, UNCHANGED <<database, refs>>, memory'.checkpoints = memory.checkpoints,
         past' = past, reactor'.work = Disturbed(reactor).work
  PROVE  RevertInRange' /\ RecordHasRef' /\ CountsDistinct' /\ CapturedHaveRefs' /\ ProjectionsAgree'
<1>1. RevertInRange' /\ RecordHasRef'
  BY DisturbedKeeps DEF Inv, RevertInRange, RecordHasRef, CurrentTurnCount
<1>2. CountsDistinct' /\ CapturedHaveRefs' /\ ProjectionsAgree'
  BY DEF Inv, CountsDistinct, CapturedHaveRefs, ProjectionsAgree
<1> QED
  BY <1>1, <1>2

LEMMA StartTurnInv == ASSUME Inv, StartTurn PROVE Inv'
<1> DEFINE t == provider.last + 1
<1>1. Typed /\ EditsBounded
  BY DEF Inv
<1>2. provider \in ProviderType /\ memory \in MemoryType
  BY <1>1 DEF Typed
<1>3. t \in Turns /\ t \in 0 .. MaxTurns
  BY <1>2, CheckpointAssumption DEF StartTurn, ProviderType, Turns
<1> HIDE DEF t
<1>4. provider' \in ProviderType /\ provider'.edits = provider.edits
  <2>1. Append(provider.conversation, t) \in Seq(Turns)
    BY <1>2, <1>3, AppendIsSeq DEF ProviderType
  <2>2. provider' = [provider EXCEPT !.alive = TRUE, !.turn = t, !.last = t,
                                     !.conversation = Append(@, t)]
    BY DEF StartTurn, t
  <2> QED
    BY <1>2, <1>3, <2>1, <2>2 DEF ProviderType
<1>5. memory' \in MemoryType /\ memory'.checkpoints = memory.checkpoints
  <2>1. memory' = [memory EXCEPT !.active = IF provider.alive THEN @ ELSE 0]
    BY DEF StartTurn
  <2> QED
    BY <1>2, <2>1, CheckpointAssumption DEF MemoryType
<1>6. Runtime("turn.started", t, "completed") \in RuntimeEvent
  BY <1>3 DEF Runtime, RuntimeEvent
<1>7. Emit(Disturbed(reactor), Runtime("turn.started", t, "completed"))
  BY DEF StartTurn, t
<1>8. /\ ingestion' \in IngestionType /\ reactor' \in ReactorType
      /\ reactor'.work = Disturbed(reactor).work
  BY <1>1, <1>6, <1>7, EmitKeeps, DisturbedKeeps
<1>9. Typed' /\ EditsBounded'
  BY <1>1, <1>4, <1>5, <1>8 DEF Typed, EditsBounded, StartTurn
<1> QED
  BY <1>5, <1>8, <1>9, DisturbedOther DEF Inv, StartTurn

LEMMA EditInv == ASSUME Inv, Edit PROVE Inv'
<1> DEFINE t == provider.turn
<1>1. Typed /\ EditsBounded
  BY DEF Inv
<1>2. provider \in ProviderType /\ budget \in BudgetType
  BY <1>1 DEF Typed
<1>3. t \in Turns
  BY <1>2, CheckpointAssumption DEF Edit, ProviderType, Turns
<1>4. provider.edits \in [Turns -> 0 .. MaxEdits] /\ budget.edits \in 0 .. MaxEdits
      /\ budget.edits > 0
  BY <1>2 DEF ProviderType, BudgetType, Edit
<1>5. provider.edits[t] + 1 \in 1 .. MaxEdits
  <2>1. provider.edits[t] \in 0 .. MaxEdits /\ provider.edits[t] + budget.edits <= MaxEdits
    BY <1>1, <1>3, <1>4 DEF EditsBounded
  <2> QED
    BY <1>4, <2>1, CheckpointAssumption
<1>6. provider' = [provider EXCEPT !.edits = [provider.edits EXCEPT ![t] = provider.edits[t] + 1]]
  BY DEF Edit
<1>7. budget' \in BudgetType /\ budget'.edits = budget.edits - 1
  <2>1. budget' = [budget EXCEPT !.edits = @ - 1]
    BY DEF Edit
  <2> QED
    BY <1>2, <1>4, <2>1, CheckpointAssumption DEF BudgetType
<1>8. files' \in Files
  <2>1. files' = files \cup {<<t, provider.edits[t] + 1>>} /\ files \in Files
    BY <1>1 DEF Edit, Typed
  <2> QED
    BY <1>3, <1>5, <2>1 DEF Files
<1>9. Runtime("turn.diff.updated", t, "completed") \in RuntimeEvent
  BY <1>3 DEF Runtime, RuntimeEvent
<1>10. /\ ingestion' \in IngestionType /\ reactor' \in ReactorType
       /\ reactor'.work = Disturbed(reactor).work
  <2>1. CASE Emit(Disturbed(reactor), Runtime("turn.diff.updated", t, "completed"))
    BY <1>1, <1>9, <2>1, EmitKeeps, DisturbedKeeps
  <2>2. CASE reactor' = Disturbed(reactor) /\ UNCHANGED ingestion
    BY <1>1, <2>2, DisturbedKeeps DEF Typed
  <2> QED
    BY <2>1, <2>2 DEF Edit
<1> HIDE DEF t
<1> DEFINE edits == [provider.edits EXCEPT ![t] = provider.edits[t] + 1]
<1>11. /\ provider' \in ProviderType
       /\ provider'.edits = edits
  <2>1. edits \in [Turns -> 0 .. MaxEdits]
    BY <1>3, <1>4, <1>5, CheckpointAssumption
  <2>2. provider' = [provider EXCEPT !.edits = edits]
    BY <1>6
  <2> HIDE DEF edits
  <2> QED
    BY <1>2, <2>1, <2>2 DEF ProviderType
<1>12. Typed'
  BY <1>1, <1>7, <1>8, <1>10, <1>11 DEF Typed, Edit
<1>13. EditsBounded'
  <2> SUFFICES ASSUME NEW u \in Turns PROVE provider'.edits[u] + budget'.edits <= MaxEdits
    BY DEF EditsBounded
  <2>1. /\ provider.edits[u] + budget.edits <= MaxEdits /\ provider.edits[u] \in 0 .. MaxEdits
        /\ provider'.edits[u] = IF u = t THEN provider.edits[u] + 1 ELSE provider.edits[u]
    BY <1>1, <1>3, <1>4, <1>11 DEF EditsBounded
  <2> QED
    BY <1>4, <1>7, <2>1, CheckpointAssumption
<1> QED
  BY <1>10, <1>12, <1>13, DisturbedOther DEF Inv, Edit

LEMMA EndTurnInv == ASSUME Inv, EndTurn PROVE Inv'
<1>1. Typed /\ EditsBounded
  BY DEF Inv
<1>2. provider \in ProviderType /\ reactor \in ReactorType
  BY <1>1 DEF Typed
<1>3. provider.turn \in Turns
  BY <1>2, CheckpointAssumption DEF EndTurn, ProviderType, Turns
<1>4. Runtime("turn.completed", provider.turn, Outcome[provider.turn]) \in RuntimeEvent
  BY <1>3, CheckpointAssumption DEF Runtime, RuntimeEvent, Turns
<1>5. provider' \in ProviderType /\ provider'.edits = provider.edits
  <2>1. provider' = [provider EXCEPT !.turn = 0] /\ 0 \in 0 .. MaxTurns
    BY CheckpointAssumption DEF EndTurn
  <2> QED
    BY <1>2, <2>1 DEF ProviderType
<1>6. /\ ingestion' \in IngestionType /\ reactor' \in ReactorType
      /\ reactor'.work = reactor.work
  BY <1>1, <1>2, <1>4, EmitKeeps DEF EndTurn, ReactorType
<1>7. Typed' /\ EditsBounded'
  BY <1>1, <1>5, <1>6 DEF Typed, EditsBounded, EndTurn
<1> QED
  BY <1>6, <1>7, OtherKept DEF Inv, EndTurn

LEMMA RequestRevertInv == ASSUME Inv, RequestRevert PROVE Inv'
<1>1. Typed /\ EditsBounded
  BY DEF Inv
<1>2. PICK n \in 0 .. MaxTurns - 1 :
        reactor' = [reactor EXCEPT
                      !.domain = Append(@, [type |-> "thread.checkpoint-revert-requested",
                                            turnCount |-> n])]
  BY DEF RequestRevert
<1>3. [type |-> "thread.checkpoint-revert-requested", turnCount |-> n] \in DomainEvent
  <2>1. n \in Nat
    BY CheckpointAssumption
  <2> QED
    BY <2>1 DEF DomainEvent
<1>4. reactor' \in ReactorType /\ reactor'.work = reactor.work
  BY <1>1, <1>2, <1>3, DomainGrows
<1>5. /\ past' \in PastType /\ past'.deleted = past.deleted /\ past'.parted = past.parted
  <2>1. past \in PastType /\ past' = [past EXCEPT !.asked = @ + 1]
    BY <1>1 DEF Typed, RequestRevert
  <2> QED
    BY <2>1 DEF PastType
<1>6. budget' \in BudgetType /\ budget'.edits = budget.edits
  <2>1. budget \in BudgetType /\ budget' = [budget EXCEPT !.reverts = @ - 1] /\ budget.reverts > 0
    BY <1>1 DEF Typed, RequestRevert
  <2> QED
    BY <2>1 DEF BudgetType
<1>7. Typed' /\ EditsBounded'
  BY <1>1, <1>4, <1>5, <1>6 DEF Typed, EditsBounded, RequestRevert
<1> QED
  BY <1>4, <1>5, <1>7, OtherKept DEF Inv, RequestRevert

---------------------------------------------------------------------------
(* What steps of the two workers have in common.                           *)

\* A step that leaves the edits alone spends none.
LEMMA EditsKept ==
  ASSUME EditsBounded, provider'.edits = provider.edits, budget'.edits = budget.edits
  PROVE  EditsBounded'
  BY DEF EditsBounded

LEMMA BudgetKept ==
  ASSUME Typed, UNCHANGED budget \/ Fault
  PROVE  budget' \in BudgetType /\ budget'.edits = budget.edits
<1>1. budget \in BudgetType
  BY DEF Typed
<1>2. CASE UNCHANGED budget
  BY <1>1, <1>2
<1>3. CASE Fault
  <2>1. budget.troubles > 0 /\ budget' = [budget EXCEPT !.troubles = @ - 1]
    BY <1>3 DEF Fault
  <2> QED
    BY <1>1, <2>1 DEF BudgetType
<1> QED
  BY <1>2, <1>3

\* What the worker holds has the fields of its operation.
LEMMA WorkOfOp ==
  ASSUME Typed
  PROVE  /\ reactor.work \in Work
         /\ reactor.work.op = "baseline" => reactor.work \in [op : {"baseline"}, count : Nat]
         /\ reactor.work.op \in {"capture", "record"} =>
              reactor.work \in [op : {"capture", "record"}, checkpoint : Checkpoint]
         /\ reactor.work.op \in {"restore", "rollback", "delete", "complete"} =>
              reactor.work \in [op : {"restore", "rollback", "delete", "complete"},
                                turnCount : Nat, seen : SUBSET Checkpoint, calm : BOOLEAN]
<1>1. reactor.work \in Work
  BY DEF Typed, ReactorType
<1> QED
  BY <1>1 DEF Work, Idle

LEMMA IdleIsWork == Idle \in Work /\ Idle.op = "idle"
  BY DEF Idle, Work

LEMMA BusyKeeps ==
  ASSUME Typed, NEW w \in Work, Busy(w)
  PROVE  reactor' \in ReactorType /\ reactor'.work = w
<1>1. reactor \in ReactorType /\ reactor' = [reactor EXCEPT !.work = w]
  BY DEF Typed, Busy
<1> QED
  BY <1>1 DEF ReactorType

LEMMA DomainTaken ==
  ASSUME Typed, reactor.domain # <<>>, NEW w \in Work, DomainDone(w)
  PROVE  /\ reactor' \in ReactorType /\ reactor'.work = w
         /\ Head(reactor.domain) \in DomainEvent
<1>1. reactor \in ReactorType /\ reactor.domain \in Seq(DomainEvent)
  BY DEF Typed, ReactorType
<1>2. Head(reactor.domain) \in DomainEvent /\ Tail(reactor.domain) \in Seq(DomainEvent)
  BY <1>1, HeadTailIn
<1>3. reactor' = [reactor EXCEPT !.domain = Tail(@), !.work = w]
  BY DEF DomainDone
<1> QED
  BY <1>1, <1>2, <1>3 DEF ReactorType

LEMMA RuntimeTaken ==
  ASSUME Typed, reactor.runtime # <<>>, NEW w \in Work, RuntimeDone(w)
  PROVE  reactor' \in ReactorType /\ reactor'.work = w
<1>1. reactor \in ReactorType /\ reactor.runtime \in Seq(RuntimeEvent)
  BY DEF Typed, ReactorType
<1>2. Tail(reactor.runtime) \in Seq(RuntimeEvent)
  BY <1>1, HeadTailIn
<1>3. reactor' = [reactor EXCEPT !.runtime = Tail(@), !.work = w]
  BY DEF RuntimeDone
<1> QED
  BY <1>1, <1>2, <1>3 DEF ReactorType

LEMMA HeadsTyped ==
  ASSUME Typed
  PROVE  /\ reactor.domain # <<>> => Head(reactor.domain) \in DomainEvent
         /\ reactor.runtime # <<>> => Head(reactor.runtime) \in RuntimeEvent
         /\ ingestion.queue # <<>> => /\ Head(ingestion.queue) \in RuntimeEvent
                                      /\ Tail(ingestion.queue) \in Seq(RuntimeEvent)
         /\ ingestion.reading # <<>> => Head(ingestion.reading) \in Reading
<1>1. /\ reactor.domain \in Seq(DomainEvent) /\ reactor.runtime \in Seq(RuntimeEvent)
      /\ ingestion.queue \in Seq(RuntimeEvent) /\ ingestion.reading \in Seq(Reading)
  BY DEF Typed, ReactorType, IngestionType
<1> QED
  BY <1>1, HeadTailIn

\* A placeholder goes to the reactor's queue, and leaves its worker alone.
LEMMA ToldKeeps ==
  ASSUME Typed, NEW c \in Checkpoint
  PROVE  Told(c) \in ReactorType /\ Told(c).work = reactor.work
<1>1. reactor \in ReactorType
  BY DEF Typed
<1>2. [type |-> "thread.turn-diff-completed", checkpoint |-> c] \in DomainEvent
  BY DEF DomainEvent
<1> DEFINE e == [type |-> "thread.turn-diff-completed", checkpoint |-> c]
<1> HIDE DEF e
<1>3. Append(reactor.domain, e) \in Seq(DomainEvent)
  BY <1>1, <1>2, AppendIsSeq DEF ReactorType, e
<1>4. Told(c) = IF c.status # "missing" THEN reactor
                ELSE [reactor EXCEPT !.domain = Append(@, e)]
  BY DEF Told, e
<1> QED
  BY <1>1, <1>3, <1>4 DEF ReactorType

\* A capture adds a ref, or replaces the one of its count.
LEMMA RefsGrow ==
  ASSUME Typed, NEW n \in Nat, refs' = WithRef(n, files)
  PROVE  /\ DOMAIN refs' = DOMAIN refs \cup {n}
         /\ DOMAIN refs' \subseteq Nat /\ \A m \in DOMAIN refs' : refs'[m] \in Files
<1>1. DOMAIN refs \subseteq Nat /\ (\A m \in DOMAIN refs : refs[m] \in Files) /\ files \in Files
  BY DEF Typed
<1>2. refs' = [m \in DOMAIN refs \cup {n} |-> IF m = n THEN files ELSE refs[m]]
  BY DEF WithRef
<1> QED
  BY <1>1, <1>2

---------------------------------------------------------------------------
(* The ingestion.                                                          *)

LEMMA IngestLifecycleInv == ASSUME Inv, IngestLifecycle PROVE Inv'
<1>1. Typed /\ EditsBounded
  BY DEF Inv
<1>2. ingestion \in IngestionType /\ memory \in MemoryType
  BY <1>1 DEF Typed
<1> DEFINE e == Head(ingestion.queue)
<1>3. e \in RuntimeEvent /\ Tail(ingestion.queue) \in Seq(RuntimeEvent)
  BY <1>1, HeadsTyped DEF IngestLifecycle
<1>4. e.turn \in 0 .. MaxTurns /\ 0 \in 0 .. MaxTurns
  BY <1>3, CheckpointAssumption DEF RuntimeEvent, Turns
<1>5. /\ ingestion' = [ingestion EXCEPT !.queue = Tail(@)]
      /\ \/ memory' = [memory EXCEPT
                         !.active = IF @ \notin {0, e.turn} THEN @
                                    ELSE IF e.type = "turn.started" THEN e.turn ELSE 0]
         \/ UNCHANGED memory
  BY DEF IngestLifecycle
<1>9. budget' \in BudgetType /\ budget'.edits = budget.edits
  BY <1>1, BudgetKept DEF IngestLifecycle
<1> HIDE DEF e
<1>6. ingestion' \in IngestionType
  BY <1>2, <1>3, <1>5 DEF IngestionType
<1>7. memory' \in MemoryType /\ memory'.checkpoints = memory.checkpoints
  BY <1>2, <1>4, <1>5 DEF MemoryType
<1>8. Typed' /\ EditsBounded'
  BY <1>1, <1>6, <1>7, <1>9, EditsKept DEF Typed, IngestLifecycle
<1> QED
  BY <1>7, <1>8, OtherKept DEF Inv, IngestLifecycle

LEMMA IngestDiffReadInv == ASSUME Inv, IngestDiffRead PROVE Inv'
<1>1. Typed /\ EditsBounded
  BY DEF Inv
<1> DEFINE t == Head(ingestion.queue).turn
           n == CurrentTurnCount(memory.checkpoints) + 1
<1>2. t \in Turns /\ Tail(ingestion.queue) \in Seq(RuntimeEvent)
  <2>1. Head(ingestion.queue) \in RuntimeEvent /\ Tail(ingestion.queue) \in Seq(RuntimeEvent)
    BY <1>1, HeadsTyped DEF IngestDiffRead
  <2> QED
    BY <2>1 DEF RuntimeEvent
<1>3. n \in Nat
  <2>1. memory.checkpoints \in SUBSET Checkpoint
    BY <1>1 DEF Typed, MemoryType
  <2>2. CurrentTurnCount(memory.checkpoints) \in Nat
    BY <2>1, CurrentTurnCountIsNat
  <2> QED
    BY <2>2
<1>4. ingestion' = [queue   |-> Tail(ingestion.queue),
                    reading |-> IF OfTurn(memory.checkpoints, t) # {} THEN <<>>
                                ELSE <<[turn |-> t, count |-> n]>>]
  BY DEF IngestDiffRead
<1> HIDE DEF t, n
<1>5. ingestion' \in IngestionType
  <2> DEFINE r == [turn |-> t, count |-> n]
  <2>1. r \in Reading
    BY <1>2, <1>3 DEF Reading
  <2> HIDE DEF r
  <2>2. <<>> \in Seq(Reading) /\ <<r>> \in Seq(Reading)
    BY <2>1, EmptyIsSeq, OneIsSeq
  <2> QED
    BY <1>2, <1>4, <2>2 DEF IngestionType, r
<1>6. Typed' /\ EditsBounded'
  BY <1>1, <1>5, EditsKept DEF Typed, IngestDiffRead
<1> QED
  BY <1>6, OtherKept DEF Inv, IngestDiffRead

LEMMA IngestDiffRecordInv == ASSUME Inv, IngestDiffRecord PROVE Inv'
<1>1. Typed /\ EditsBounded /\ RevertInRange /\ RecordHasRef
      /\ CountsDistinct /\ CapturedHaveRefs /\ ProjectionsAgree
  BY DEF Inv
<1> DEFINE c == [turn |-> Head(ingestion.reading).turn, count |-> Head(ingestion.reading).count,
                 status |-> "missing", captured |-> FALSE]
<1>2. c \in Checkpoint /\ ~c.captured
  <2>1. Head(ingestion.reading) \in Reading
    BY <1>1, HeadsTyped DEF IngestDiffRecord
  <2> QED
    BY <2>1 DEF Reading, Checkpoint
<1>4. ingestion' \in IngestionType
  <2>1. ingestion \in IngestionType /\ ingestion' = [ingestion EXCEPT !.reading = <<>>]
    BY <1>1 DEF Typed, IngestDiffRecord
  <2>2. <<>> \in Seq(Reading)
    BY EmptyIsSeq
  <2> QED
    BY <2>1, <2>2 DEF IngestionType
<1>5. UNCHANGED <<provider, files, refs>>
  BY DEF IngestDiffRecord
<1>11. budget' \in BudgetType /\ budget'.edits = budget.edits
  BY <1>1, BudgetKept DEF IngestDiffRecord
<1>12. CASE UNCHANGED <<memory, database, past, reactor>>
  <2>1. Typed' /\ EditsBounded'
    BY <1>1, <1>4, <1>5, <1>11, <1>12, EditsKept DEF Typed
  <2>2. RevertInRange' /\ RecordHasRef' /\ CountsDistinct' /\ CapturedHaveRefs' /\ ProjectionsAgree'
    BY <1>1, <1>5, <1>12
       DEF RevertInRange, RecordHasRef, CurrentTurnCount, CountsDistinct, CapturedHaveRefs,
           ProjectionsAgree
  <2> QED
    BY <2>1, <2>2 DEF Inv
<1>3. CASE RecordCheckpoint(c) /\ reactor' \in {Told(c), Disturbed(Told(c))}
  <2> HIDE DEF c
  <2>6. /\ memory' \in MemoryType /\ database' \subseteq Checkpoint /\ past' \in PastType
        /\ past'.deleted = past.deleted /\ CountsDistinct' /\ ProjectionsAgree'
        /\ \A d \in memory'.checkpoints : d.captured => d.count \in DOMAIN refs \cup past.deleted
    BY <1>1, <1>2, <1>3, RecordKeeps
  <2>7. /\ reactor' \in ReactorType
        /\ reactor'.work.op = reactor.work.op
        /\ reactor.work.op \in {"restore", "rollback", "delete", "complete"} =>
             /\ reactor'.work.turnCount = reactor.work.turnCount
             /\ reactor'.work.seen = reactor.work.seen
        /\ reactor.work.op = "record" => reactor'.work = reactor.work
    <3>1. Told(c) \in ReactorType /\ Told(c).work = reactor.work
      BY <1>1, <1>2, ToldKeeps
    <3>2. CASE reactor' = Told(c)
      BY <3>1, <3>2
    <3>3. CASE reactor' = Disturbed(Told(c))
      BY <3>1, <3>3, DisturbedWork
    <3> QED
      BY <1>3, <3>2, <3>3
  <2>8. Typed' /\ EditsBounded'
    BY <1>1, <1>4, <1>5, <1>11, <2>6, <2>7, EditsKept DEF Typed
  <2>9. RevertInRange' /\ RecordHasRef'
    BY <1>1, <1>5, <2>7 DEF RevertInRange, RecordHasRef, CurrentTurnCount
  <2>10. CapturedHaveRefs'
    BY <1>5, <2>6 DEF CapturedHaveRefs
  <2> QED
    BY <2>6, <2>8, <2>9, <2>10 DEF Inv
<1> QED
  BY <1>3, <1>12 DEF IngestDiffRecord

---------------------------------------------------------------------------
(* The checkpoint reactor.                                                 *)

LEMMA TakeBaselineInv == ASSUME Inv, TakeBaseline PROVE Inv'
<1>1. Typed /\ EditsBounded
  BY DEF Inv
<1> DEFINE n == CurrentTurnCount(memory.checkpoints)
           w == IF n \in DOMAIN refs THEN Idle ELSE [op |-> "baseline", count |-> n]
<1>2. n \in Nat
  BY <1>1, CurrentTurnCountIsNat DEF Typed, MemoryType
<1>3. w \in Work /\ w.op \in {"idle", "baseline"}
  BY <1>2, IdleIsWork DEF Work
<1>4. \/ reactor.domain # <<>> /\ DomainDone(w)
      \/ reactor.runtime # <<>> /\ RuntimeDone(w)
  BY DEF TakeBaseline, FromDomain, FromRuntime
<1>5. UNCHANGED <<provider, files, refs, memory, database, ingestion, past, budget>>
  BY DEF TakeBaseline
<1> HIDE DEF w
<1>6. reactor' \in ReactorType /\ reactor'.work = w
  BY <1>1, <1>3, <1>4, DomainTaken, RuntimeTaken
<1>7. Typed' /\ EditsBounded'
  BY <1>1, <1>5, <1>6, EditsKept DEF Typed
<1> QED
  BY <1>3, <1>5, <1>6, <1>7, OtherKept DEF Inv

LEMMA CaptureBaselineInv == ASSUME Inv, CaptureBaseline PROVE Inv'
<1>1. Typed /\ EditsBounded /\ CountsDistinct /\ CapturedHaveRefs /\ ProjectionsAgree
  BY DEF Inv
<1>2. reactor.work.count \in Nat
  BY <1>1, WorkOfOp DEF CaptureBaseline
<1>3. UNCHANGED <<provider, files, memory, database, ingestion, past>>
  BY DEF CaptureBaseline
<1>4. reactor' \in ReactorType /\ reactor'.work = Idle
  BY <1>1, IdleIsWork, BusyKeeps DEF CaptureBaseline
<1>5. /\ DOMAIN refs \subseteq DOMAIN refs'
      /\ DOMAIN refs' \subseteq Nat /\ \A m \in DOMAIN refs' : refs'[m] \in Files
  <2>1. CASE UNCHANGED refs
    BY <1>1, <2>1 DEF Typed
  <2>2. CASE refs' = WithRef(reactor.work.count, files)
    BY <1>1, <1>2, <2>2, RefsGrow
  <2> QED
    BY <2>1, <2>2 DEF CaptureBaseline
<1>6. budget' \in BudgetType /\ budget'.edits = budget.edits
  BY <1>1, BudgetKept DEF CaptureBaseline
<1>7. Typed' /\ EditsBounded'
  BY <1>1, <1>3, <1>4, <1>5, <1>6, EditsKept DEF Typed
<1>8. RevertInRange' /\ RecordHasRef'
  BY <1>4, IdleIsWork DEF RevertInRange, RecordHasRef
<1>9. CountsDistinct' /\ CapturedHaveRefs' /\ ProjectionsAgree'
  BY <1>1, <1>3, <1>5 DEF CountsDistinct, CapturedHaveRefs, ProjectionsAgree
<1> QED
  BY <1>7, <1>8, <1>9 DEF Inv

LEMMA TakeCompletionInv == ASSUME Inv, TakeCompletion PROVE Inv'
<1>1. Typed /\ EditsBounded
  BY DEF Inv
<1> DEFINE e == Head(reactor.runtime)
           cs == memory.checkpoints
           cp(n) == [turn |-> e.turn, count |-> n, captured |-> TRUE,
                     status |-> StatusFromRuntime(e.state)]
           w(n) == [op |-> "capture", checkpoint |-> cp(n)]
<1>2. reactor.runtime # <<>> /\ e \in RuntimeEvent /\ cs \in SUBSET Checkpoint
  BY <1>1, HeadsTyped DEF TakeCompletion, FromRuntime, Typed, MemoryType
<1>3. \E v \in Work : RuntimeDone(v) /\ v.op \in {"idle", "capture"}
  <2>1. CASE RuntimeDone(Idle)
    BY <2>1, IdleIsWork
  <2>2. CASE \E n \in CountsFor(cs, e.turn) : RuntimeDone(w(n))
    <3>1. PICK n \in CountsFor(cs, e.turn) : RuntimeDone(w(n))
      BY <2>2
    <3>2. n \in Nat
      <4>1. \A c \in OfTurn(cs, e.turn) : c.count \in Nat
        BY <1>2 DEF OfTurn, Checkpoint
      <4>2. CurrentTurnCount(cs) + 1 \in Nat
        BY <1>2, CurrentTurnCountIsNat
      <4> QED
        BY <3>1, <4>1, <4>2 DEF CountsFor
    <3>3. StatusFromRuntime(e.state) \in {"ready", "missing", "error"}
      BY DEF StatusFromRuntime
    <3>4. cp(n) \in Checkpoint
      BY <1>2, <3>2, <3>3 DEF Checkpoint, RuntimeEvent
    <3> HIDE DEF cp
    <3>5. w(n) \in Work /\ w(n).op = "capture"
      BY <3>4 DEF Work
    <3> QED
      BY <3>1, <3>5
  <2> QED
    BY <2>1, <2>2 DEF TakeCompletion
<1>4. PICK v \in Work : RuntimeDone(v) /\ v.op \in {"idle", "capture"}
  BY <1>3
<1>5. reactor' \in ReactorType /\ reactor'.work = v
  BY <1>1, <1>2, <1>4, RuntimeTaken
<1>6. UNCHANGED <<provider, files, refs, memory, database, ingestion, past, budget>>
  BY DEF TakeCompletion
<1>7. Typed' /\ EditsBounded'
  BY <1>1, <1>5, <1>6, EditsKept DEF Typed
<1> QED
  BY <1>4, <1>5, <1>6, <1>7, OtherKept DEF Inv

LEMMA TakePlaceholderInv == ASSUME Inv, TakePlaceholder PROVE Inv'
<1>1. Typed /\ EditsBounded
  BY DEF Inv
<1> DEFINE c == Head(reactor.domain).checkpoint
           d == [c EXCEPT !.status = "ready", !.captured = TRUE]
           w == IF HasCaptured(memory.checkpoints, c.turn) THEN Idle
                ELSE [op |-> "capture", checkpoint |-> d]
<1>2. reactor.domain # <<>> /\ c \in Checkpoint
  <2>1. reactor.domain # <<>> /\ Head(reactor.domain).type = "thread.turn-diff-completed"
    BY DEF TakePlaceholder, FromDomain
  <2>2. Head(reactor.domain) \in DomainEvent
    BY <1>1, <2>1, HeadsTyped
  <2> QED
    BY <2>1, <2>2 DEF DomainEvent
<1>3. d \in Checkpoint
  BY <1>2 DEF Checkpoint
<1>4. DomainDone(w)
  BY DEF TakePlaceholder
<1> HIDE DEF d
<1>5. w \in Work /\ w.op \in {"idle", "capture"}
  BY <1>3, IdleIsWork DEF Work
<1>6. reactor' \in ReactorType /\ reactor'.work = w
  BY <1>1, <1>2, <1>4, <1>5, DomainTaken
<1>7. UNCHANGED <<provider, files, refs, memory, database, ingestion, past, budget>>
  BY DEF TakePlaceholder
<1>8. Typed' /\ EditsBounded'
  BY <1>1, <1>6, <1>7, EditsKept DEF Typed
<1> QED
  BY <1>5, <1>6, <1>7, <1>8, OtherKept DEF Inv

\* A failed capture is told, or not even that.
LEMMA TellKeeps ==
  ASSUME Typed, reactor.work.op \in {"capture", "record"}, CaptureFails
  PROVE  past' \in PastType /\ past'.deleted = past.deleted /\ past'.parted = past.parted
<1>1. reactor.work.checkpoint.turn \in Turns
  BY WorkOfOp DEF Checkpoint
<1> DEFINE t == reactor.work.checkpoint.turn
<1>2. /\ past \in PastType
      /\ \/ past' = [past EXCEPT !.told = @ \cup {t}]
         \/ past' = [past EXCEPT !.untold = @ \cup {t}]
  BY DEF Typed, CaptureFails
<1> HIDE DEF t
<1>3. t \in Turns
  BY <1>1 DEF t
<1> QED
  BY <1>2, <1>3 DEF PastType

LEMMA CaptureFilesInv == ASSUME Inv, CaptureFiles PROVE Inv'
<1>1. Typed /\ EditsBounded /\ CountsDistinct /\ CapturedHaveRefs /\ ProjectionsAgree
  BY DEF Inv
<1> DEFINE c == reactor.work.checkpoint
           w == [reactor.work EXCEPT !.op = "record"]
<1>2. reactor.work \in [op : {"capture", "record"}, checkpoint : Checkpoint]
  BY <1>1, WorkOfOp DEF CaptureFiles
<1>3. c \in Checkpoint /\ c.count \in Nat /\ c.turn \in Turns
  BY <1>2 DEF Checkpoint
<1>4. UNCHANGED <<provider, files, memory, database, ingestion>>
  BY DEF CaptureFiles
<1>5. budget' \in BudgetType /\ budget'.edits = budget.edits
  BY <1>1, BudgetKept DEF CaptureFiles, CaptureFails
<1>6. CASE /\ refs' = WithRef(c.count, files) /\ Busy(w)
           /\ past' = [past EXCEPT !.deleted = @ \ {c.count},
                                   !.early = @ \cup ({c.turn} \cap {provider.turn})]
  <2>1. /\ DOMAIN refs' = DOMAIN refs \cup {c.count}
        /\ DOMAIN refs' \subseteq Nat /\ \A m \in DOMAIN refs' : refs'[m] \in Files
    BY <1>1, <1>3, <1>6, RefsGrow
  <2>2. w \in Work /\ w.op = "record" /\ w.checkpoint = c
    BY <1>2 DEF Work
  <2>3. reactor' \in ReactorType /\ reactor'.work = w
    BY <1>1, <1>6, <2>2, BusyKeeps
  <2>4. /\ past' \in PastType /\ past'.deleted = past.deleted \ {c.count}
        /\ past'.parted = past.parted
    <3> HIDE DEF c
    <3>1. past \in PastType
      BY <1>1 DEF Typed
    <3> QED
      BY <1>3, <1>6, <3>1 DEF PastType
  <2>5. Typed' /\ EditsBounded'
    BY <1>1, <1>4, <1>5, <2>1, <2>3, <2>4, EditsKept DEF Typed
  <2>6. RevertInRange' /\ RecordHasRef'
    BY <2>1, <2>2, <2>3 DEF RevertInRange, RecordHasRef
  <2>7. CountsDistinct' /\ CapturedHaveRefs' /\ ProjectionsAgree'
    BY <1>1, <1>4, <2>1, <2>4 DEF CountsDistinct, CapturedHaveRefs, ProjectionsAgree
  <2> QED
    BY <2>5, <2>6, <2>7 DEF Inv
<1>7. CASE CaptureFails /\ UNCHANGED refs
  <2>1. reactor' \in ReactorType /\ reactor'.work = Idle
    BY <1>1, <1>7, IdleIsWork, BusyKeeps DEF CaptureFails
  <2>2. past' \in PastType /\ past'.deleted = past.deleted /\ past'.parted = past.parted
    BY <1>1, <1>2, <1>7, TellKeeps
  <2>3. Typed' /\ EditsBounded'
    BY <1>1, <1>4, <1>5, <1>7, <2>1, <2>2, EditsKept DEF Typed
  <2> QED
    BY <1>4, <1>7, <2>1, <2>2, <2>3, IdleIsWork, OtherKept DEF Inv
<1> QED
  BY <1>6, <1>7 DEF CaptureFiles

LEMMA RecordCaptureInv == ASSUME Inv, RecordCapture PROVE Inv'
<1>1. Typed /\ EditsBounded /\ RecordHasRef
      /\ CountsDistinct /\ CapturedHaveRefs /\ ProjectionsAgree
  BY DEF Inv
<1> DEFINE c == reactor.work.checkpoint
<1>2. reactor.work.op = "record" /\ c \in Checkpoint
  BY <1>1, WorkOfOp DEF RecordCapture
<1>3. c.count \in DOMAIN refs
  BY <1>1, <1>2 DEF RecordHasRef
<1>4. UNCHANGED <<provider, files, refs, ingestion>>
  BY DEF RecordCapture
<1>5. budget' \in BudgetType /\ budget'.edits = budget.edits
  BY <1>1, BudgetKept DEF RecordCapture, CaptureFails
<1>6. CASE RecordCheckpoint(c) /\ reactor' = [Told(c) EXCEPT !.work = Idle]
  <2> HIDE DEF c
  <2>1. /\ memory' \in MemoryType /\ database' \subseteq Checkpoint /\ past' \in PastType
        /\ past'.deleted = past.deleted /\ CountsDistinct' /\ ProjectionsAgree'
        /\ \A d \in memory'.checkpoints : d.captured => d.count \in DOMAIN refs \cup past.deleted
    BY <1>1, <1>2, <1>3, <1>6, RecordKeeps
  <2>2. reactor' \in ReactorType /\ reactor'.work = Idle
    <3>1. Told(c) \in ReactorType
      BY <1>1, <1>2, ToldKeeps
    <3> QED
      BY <1>6, <3>1, IdleIsWork DEF ReactorType
  <2>3. Typed' /\ EditsBounded'
    BY <1>1, <1>4, <1>5, <2>1, <2>2, EditsKept DEF Typed
  <2>4. RevertInRange' /\ RecordHasRef'
    BY <2>2, IdleIsWork DEF RevertInRange, RecordHasRef
  <2>5. CapturedHaveRefs'
    BY <1>4, <2>1 DEF CapturedHaveRefs
  <2> QED
    BY <2>1, <2>3, <2>4, <2>5 DEF Inv
<1>7. CASE CaptureFails /\ UNCHANGED <<memory, database>>
  <2>1. reactor' \in ReactorType /\ reactor'.work = Idle
    BY <1>1, <1>7, IdleIsWork, BusyKeeps DEF CaptureFails
  <2>2. past' \in PastType /\ past'.deleted = past.deleted /\ past'.parted = past.parted
    BY <1>1, <1>2, <1>7, TellKeeps
  <2>3. Typed' /\ EditsBounded'
    BY <1>1, <1>4, <1>5, <1>7, <2>1, <2>2, EditsKept DEF Typed
  <2> QED
    BY <1>4, <1>7, <2>1, <2>2, <2>3, IdleIsWork, OtherKept DEF Inv
<1> QED
  BY <1>6, <1>7 DEF RecordCapture

---------------------------------------------------------------------------
(* Reverts.                                                                *)

\* A revert that is answered has one answer more, and nothing else; so has one whose
\* answer is lost.
LEMMA SettledKeeps ==
  ASSUME NEW p \in PastType
  PROVE  /\ Settled(p) \in PastType
         /\ Settled(p).deleted = p.deleted /\ Settled(p).parted = p.parted
         /\ Lost(p) \in PastType
         /\ Lost(p).deleted = p.deleted /\ Lost(p).parted = p.parted
  BY DEF Settled, Lost, PastType

LEMMA RefusedKeeps ==
  ASSUME Typed, TellRefused
  PROVE  past' \in PastType /\ past'.deleted = past.deleted /\ past'.parted = past.parted
<1>1. past \in PastType
  BY DEF Typed
<1> QED
  BY <1>1, SettledKeeps DEF TellRefused

LEMMA FailsKeeps ==
  ASSUME Typed, RevertFails
  PROVE  /\ reactor' \in ReactorType /\ reactor'.work = Idle
         /\ past' \in PastType /\ past'.deleted = past.deleted /\ past'.parted = past.parted
<1>1. past \in PastType
  BY DEF Typed
<1> QED
  BY <1>1, IdleIsWork, BusyKeeps, SettledKeeps DEF RevertFails

LEMMA TakeRevertInv == ASSUME Inv, TakeRevert PROVE Inv'
<1>1. Typed /\ EditsBounded /\ CountsDistinct /\ CapturedHaveRefs /\ ProjectionsAgree
  BY DEF Inv
<1> DEFINE n == Head(reactor.domain).turnCount
           cs == memory.checkpoints
           w == [op |-> "restore", turnCount |-> n, seen |-> cs, calm |-> InStep]
<1>2. reactor.domain # <<>> /\ n \in Nat /\ cs \in SUBSET Checkpoint
  <2>1. reactor.domain # <<>> /\ Head(reactor.domain).type = "thread.checkpoint-revert-requested"
    BY DEF TakeRevert, FromDomain
  <2>2. Head(reactor.domain) \in DomainEvent
    BY <1>1, <2>1, HeadsTyped
  <2> QED
    BY <1>1, <2>1, <2>2 DEF DomainEvent, Typed, MemoryType
<1>3. UNCHANGED <<provider, files, refs, memory, database, ingestion>>
  BY DEF TakeRevert
<1>6. budget' \in BudgetType /\ budget'.edits = budget.edits
  BY <1>1, BudgetKept DEF TakeRevert, TellRefused
<1>4. CASE DomainDone(Idle) /\ TellRefused
  <2>1. reactor' \in ReactorType /\ reactor'.work = Idle
    BY <1>1, <1>2, <1>4, IdleIsWork, DomainTaken
  <2>2. past' \in PastType /\ past'.deleted = past.deleted /\ past'.parted = past.parted
    BY <1>1, <1>4, RefusedKeeps
  <2>3. Typed' /\ EditsBounded'
    BY <1>1, <1>3, <1>6, <2>1, <2>2, EditsKept DEF Typed
  <2> QED
    BY <1>3, <2>1, <2>2, <2>3, IdleIsWork, OtherKept DEF Inv
<1>5. CASE n <= CurrentTurnCount(cs) /\ DomainDone(w) /\ UNCHANGED past
  <2>1. InStep \in BOOLEAN
    BY DEF InStep
  <2>2. w \in Work
    BY <1>2, <2>1 DEF Work
  <2>3. reactor' \in ReactorType /\ reactor'.work = w
    BY <1>1, <1>2, <1>5, <2>2, DomainTaken
  <2>4. Typed' /\ EditsBounded'
    BY <1>1, <1>3, <1>5, <1>6, <2>3, EditsKept DEF Typed
  <2>5. RevertInRange' /\ RecordHasRef'
    BY <1>5, <2>3 DEF RevertInRange, RecordHasRef, CurrentTurnCount
  <2>6. CountsDistinct' /\ CapturedHaveRefs' /\ ProjectionsAgree'
    BY <1>1, <1>3, <1>5 DEF CountsDistinct, CapturedHaveRefs, ProjectionsAgree
  <2> QED
    BY <2>4, <2>5, <2>6 DEF Inv
<1> QED
  <2>1. n \in Nat /\ CurrentTurnCount(cs) \in Nat
    BY <1>2, CurrentTurnCountIsNat
  <2> QED
    BY <1>4, <1>5, <2>1 DEF TakeRevert

LEMMA RestoreFilesInv == ASSUME Inv, RestoreFiles PROVE Inv'
<1>1. Typed /\ EditsBounded
  BY DEF Inv
<1> DEFINE n == reactor.work.turnCount
           w == [reactor.work EXCEPT !.op = "rollback"]
<1>2. /\ reactor.work.op = "restore"
      /\ reactor.work \in [op : {"restore", "rollback", "delete", "complete"},
                           turnCount : Nat, seen : SUBSET Checkpoint, calm : BOOLEAN]
  BY <1>1, WorkOfOp DEF RestoreFiles
<1>3. UNCHANGED <<provider, refs, memory, database, ingestion>>
  BY DEF RestoreFiles
<1>4. budget' \in BudgetType /\ budget'.edits = budget.edits
  BY <1>1, BudgetKept DEF RestoreFiles, TellRefused, RevertFails
<1>5. files \in Files /\ Restored(n) \in Files
  BY <1>1 DEF Typed, Restored, Files, HeadFiles
<1>6. CASE files' = Restored(n) /\ Busy(w) /\ UNCHANGED past
  <2>1. w \in Work /\ w.op = "rollback" /\ w.turnCount = n /\ w.seen = reactor.work.seen
    BY <1>2 DEF Work
  <2>2. reactor' \in ReactorType /\ reactor'.work = w
    BY <1>1, <1>6, <2>1, BusyKeeps
  <2>3. Typed' /\ EditsBounded'
    BY <1>1, <1>3, <1>4, <1>5, <1>6, <2>2, EditsKept DEF Typed
  <2> HIDE DEF w
  <2> QED
    BY <1>2, <1>3, <1>6, <2>1, <2>2, <2>3, OtherKept DEF Inv
<1>8. CASE Busy(Idle) /\ TellRefused /\ UNCHANGED files
  <2>1. /\ reactor' \in ReactorType /\ reactor'.work = Idle
        /\ past' \in PastType /\ past'.deleted = past.deleted /\ past'.parted = past.parted
    BY <1>1, <1>8, IdleIsWork, BusyKeeps, RefusedKeeps
  <2>2. Typed' /\ EditsBounded'
    BY <1>1, <1>3, <1>4, <1>5, <1>8, <2>1, EditsKept DEF Typed
  <2> QED
    BY <1>3, <2>1, <2>2, IdleIsWork, OtherKept DEF Inv
<1>7. CASE RevertFails /\ files' \in {files, Restored(n)}
  <2>1. /\ reactor' \in ReactorType /\ reactor'.work = Idle
        /\ past' \in PastType /\ past'.deleted = past.deleted /\ past'.parted = past.parted
    BY <1>1, <1>7, FailsKeeps
  <2>2. Typed' /\ EditsBounded'
    BY <1>1, <1>3, <1>4, <1>5, <1>7, <2>1, EditsKept DEF Typed
  <2> QED
    BY <1>3, <2>1, <2>2, IdleIsWork, OtherKept DEF Inv
<1> QED
  BY <1>6, <1>7, <1>8 DEF RestoreFiles

LEMMA RollbackConversationInv == ASSUME Inv, RollbackConversation PROVE Inv'
<1>1. Typed /\ EditsBounded /\ RevertInRange
  BY DEF Inv
<1> DEFINE len == Len(provider.conversation)
           num == TurnsToRollBack(reactor.work.seen, reactor.work.turnCount)
           rest == IF num >= len THEN <<>> ELSE SubSeq(provider.conversation, 1, len - num)
           w == [reactor.work EXCEPT !.op = "delete"]
<1>2. /\ reactor.work.op = "rollback"
      /\ reactor.work \in [op : {"restore", "rollback", "delete", "complete"},
                           turnCount : Nat, seen : SUBSET Checkpoint, calm : BOOLEAN]
  BY <1>1, WorkOfOp DEF RollbackConversation
<1>3. UNCHANGED <<files, refs, memory, database, ingestion>>
  BY DEF RollbackConversation
<1>4. budget' \in BudgetType /\ budget'.edits = budget.edits
  BY <1>1, BudgetKept DEF RollbackConversation, RevertFails
<1>5. num \in Nat
  <2>1. reactor.work.turnCount \in Nat /\ CurrentTurnCount(reactor.work.seen) \in Nat
    BY <1>2, CurrentTurnCountIsNat
  <2>2. reactor.work.turnCount <= CurrentTurnCount(reactor.work.seen)
    BY <1>1, <1>2 DEF RevertInRange
  <2> QED
    BY <2>1, <2>2 DEF TurnsToRollBack
<1>6. provider \in ProviderType /\ provider.conversation \in Seq(Turns)
  BY <1>1 DEF Typed, ProviderType
<1>7. rest \in Seq(Turns)
  <2> DEFINE s == provider.conversation
  <2>1. s \in Seq(Turns) /\ len \in Nat /\ len = Len(s)
    BY <1>6
  <2> HIDE DEF s, num
  <2>2. CASE num >= len
    BY <2>2, EmptyIsSeq
  <2>3. CASE ~(num >= len)
    <3>1. 1 \in 1 .. len /\ len - num \in 1 .. len
      BY <1>5, <2>1, <2>3
    <3>2. SubSeq(s, 1, len - num) \in Seq(Turns)
      BY <2>1, <3>1, SubSeqProperties
    <3> QED
      BY <2>3, <3>2 DEF s
  <2> QED
    BY <2>2, <2>3
<1>8. CASE provider' = [provider EXCEPT !.conversation = rest] /\ Busy(w) /\ UNCHANGED past
  <2>1. w \in Work /\ w.op = "delete"
    BY <1>2 DEF Work
  <2>2. reactor' \in ReactorType /\ reactor'.work = w
    BY <1>1, <1>8, <2>1, BusyKeeps
  <2> HIDE DEF rest, w
  <2>3. provider' \in ProviderType /\ provider'.edits = provider.edits
    BY <1>6, <1>7, <1>8 DEF ProviderType
  <2>4. Typed' /\ EditsBounded'
    BY <1>1, <1>3, <1>4, <1>8, <2>2, <2>3, EditsKept DEF Typed
  <2> QED
    BY <1>3, <1>8, <2>1, <2>2, <2>4, OtherKept DEF Inv
<1>9. CASE RevertFails /\ UNCHANGED provider
  <2>1. /\ reactor' \in ReactorType /\ reactor'.work = Idle
        /\ past' \in PastType /\ past'.deleted = past.deleted /\ past'.parted = past.parted
    BY <1>1, <1>9, FailsKeeps
  <2>2. Typed' /\ EditsBounded'
    BY <1>1, <1>3, <1>4, <1>9, <2>1, EditsKept DEF Typed
  <2> QED
    BY <1>3, <2>1, <2>2, IdleIsWork, OtherKept DEF Inv
<1> QED
  BY <1>8, <1>9 DEF RollbackConversation

LEMMA DeleteRefsInv == ASSUME Inv, DeleteRefs PROVE Inv'
<1>1. Typed /\ EditsBounded /\ CountsDistinct /\ CapturedHaveRefs /\ ProjectionsAgree
  BY DEF Inv
<1> DEFINE stale == StaleCounts(reactor.work.seen, reactor.work.turnCount)
           w == [reactor.work EXCEPT !.op = "complete"]
<1>2. reactor.work \in [op : {"restore", "rollback", "delete", "complete"},
                        turnCount : Nat, seen : SUBSET Checkpoint, calm : BOOLEAN]
  BY <1>1, WorkOfOp DEF DeleteRefs
<1>3. stale \subseteq Nat
  BY <1>2 DEF StaleCounts, Checkpoint
<1>4. UNCHANGED <<provider, files, memory, database, ingestion>>
  BY DEF DeleteRefs
<1>5. budget' \in BudgetType /\ budget'.edits = budget.edits
  BY <1>1, BudgetKept DEF DeleteRefs
<1> DEFINE after(gone) == [past EXCEPT !.deleted = @ \cup gone]
<1>6. PICK gone \in SUBSET stale :
         /\ refs' = [n \in DOMAIN refs \ gone |-> refs[n]]
         /\ \/ Busy(w) /\ past' = after(gone)
            \/ Busy(Idle) /\ past' \in {Settled(after(gone)), Lost(after(gone))}
  BY DEF DeleteRefs
<1> HIDE DEF stale
<1>7. gone \subseteq Nat
  BY <1>3
<1>8. /\ DOMAIN refs' = DOMAIN refs \ gone
      /\ DOMAIN refs' \subseteq Nat /\ \A m \in DOMAIN refs' : refs'[m] \in Files
  BY <1>1, <1>6 DEF Typed
<1>9. /\ after(gone) \in PastType /\ after(gone).deleted = past.deleted \cup gone
      /\ after(gone).parted = past.parted
  <2>1. past \in PastType
    BY <1>1 DEF Typed
  <2> QED
    BY <1>7, <2>1 DEF PastType
<1> HIDE DEF after
<1>10. past' \in PastType /\ past'.deleted = past.deleted \cup gone /\ past'.parted = past.parted
  BY <1>6, <1>9, SettledKeeps
<1>11. w \in Work /\ w.op = "complete"
  BY <1>2 DEF Work
<1>12. reactor' \in ReactorType /\ reactor'.work \in {w, Idle}
  BY <1>1, <1>6, <1>11, IdleIsWork, BusyKeeps
<1>13. Typed' /\ EditsBounded'
  BY <1>1, <1>4, <1>5, <1>8, <1>10, <1>12, EditsKept DEF Typed
<1>14. RevertInRange' /\ RecordHasRef'
  BY <1>11, <1>12, IdleIsWork DEF RevertInRange, RecordHasRef
<1>15. CountsDistinct' /\ CapturedHaveRefs' /\ ProjectionsAgree'
  BY <1>1, <1>4, <1>8, <1>10 DEF CountsDistinct, CapturedHaveRefs, ProjectionsAgree
<1> QED
  BY <1>13, <1>14, <1>15 DEF Inv

LEMMA CompleteRevertInv == ASSUME Inv, CompleteRevert PROVE Inv'
<1>1. Typed /\ EditsBounded /\ CountsDistinct /\ CapturedHaveRefs /\ ProjectionsAgree
  BY DEF Inv
<1> DEFINE n == reactor.work.turnCount
<1>2. UNCHANGED <<provider, files, refs, ingestion>>
  BY DEF CompleteRevert
<1>3. budget' \in BudgetType /\ budget'.edits = budget.edits
  BY <1>1, BudgetKept DEF CompleteRevert, RevertFails
<1> HIDE DEF n
<1>4. CASE /\ memory' = [memory EXCEPT !.checkpoints = Kept(@, n)]
           /\ database' = KeptRows(database, n)
           /\ past' = [Settled(past) EXCEPT !.deleted = {m \in @ : m <= n}]
           /\ Busy(Idle)
  <2>1. /\ memory' \in MemoryType
        /\ memory'.checkpoints = {c \in memory.checkpoints : c.count <= n}
    <3>1. memory \in MemoryType
      BY <1>1 DEF Typed
    <3>2. Kept(memory.checkpoints, n) \in SUBSET Checkpoint
      BY <3>1 DEF Kept, MemoryType
    <3> QED
      BY <1>4, <3>1, <3>2 DEF MemoryType, Kept
  <2>2. database' = {c \in database : c.count <= n} /\ database' \subseteq Checkpoint
    BY <1>1, <1>4 DEF KeptRows, Typed
  <2>3. /\ past' \in PastType /\ past'.deleted = {m \in past.deleted : m <= n}
        /\ past'.parted = past.parted
    <3>1. /\ Settled(past) \in PastType
          /\ Settled(past).deleted = past.deleted /\ Settled(past).parted = past.parted
      BY <1>1, SettledKeeps DEF Typed
    <3> QED
      BY <1>4, <3>1 DEF PastType
  <2>4. reactor' \in ReactorType /\ reactor'.work = Idle
    BY <1>1, <1>4, IdleIsWork, BusyKeeps
  <2>5. Typed' /\ EditsBounded'
    BY <1>1, <1>2, <1>3, <2>1, <2>2, <2>3, <2>4, EditsKept DEF Typed
  <2>6. RevertInRange' /\ RecordHasRef'
    BY <2>4, IdleIsWork DEF RevertInRange, RecordHasRef
  <2>7. CountsDistinct' /\ CapturedHaveRefs'
    BY <1>1, <1>2, <2>1, <2>2, <2>3 DEF CountsDistinct, CapturedHaveRefs
  <2>8. ProjectionsAgree'
    BY <1>1, <2>1, <2>2, <2>3 DEF ProjectionsAgree
  <2> QED
    BY <2>5, <2>6, <2>7, <2>8 DEF Inv
<1>5. CASE RevertFails /\ UNCHANGED <<memory, database>>
  <2>1. /\ reactor' \in ReactorType /\ reactor'.work = Idle
        /\ past' \in PastType /\ past'.deleted = past.deleted /\ past'.parted = past.parted
    BY <1>1, <1>5, FailsKeeps
  <2>2. Typed' /\ EditsBounded'
    BY <1>1, <1>2, <1>3, <1>5, <2>1, EditsKept DEF Typed
  <2> QED
    BY <1>2, <1>5, <2>1, <2>2, IdleIsWork, OtherKept DEF Inv
<1> QED
  BY <1>4, <1>5 DEF CompleteRevert, n

---------------------------------------------------------------------------
(* Crashes, and the specification.                                         *)

LEMMA RevertsInFinite ==
  ASSUME NEW s \in Seq(DomainEvent)
  PROVE  IsFiniteSet(RevertsIn(s)) /\ Cardinality(RevertsIn(s)) \in Nat
<1>1. IsFiniteSet(1 .. Len(s))
  BY FS_Interval
<1>2. RevertsIn(s) \subseteq 1 .. Len(s)
  BY DEF RevertsIn
<1> QED
  BY <1>1, <1>2, FS_Subset, FS_CardinalityType

LEMMA PendingIsNat == ASSUME Typed PROVE PendingReverts \in Nat
<1>1. Cardinality(RevertsIn(reactor.domain)) \in Nat
  BY RevertsInFinite DEF Typed, ReactorType
<1> QED
  BY <1>1 DEF PendingReverts

LEMMA CrashInv == ASSUME Inv, Crash PROVE Inv'
<1>1. Typed /\ EditsBounded
  BY DEF Inv
<1>2. provider' \in ProviderType /\ provider'.edits = provider.edits
  <2>1. provider \in ProviderType /\ 0 \in 0 .. MaxTurns
    BY <1>1, CheckpointAssumption DEF Typed
  <2>2. provider' = [provider EXCEPT !.alive = FALSE, !.turn = 0]
    BY DEF Crash
  <2> QED
    BY <2>1, <2>2 DEF ProviderType
<1>3. ingestion' \in IngestionType
  <2>1. <<>> \in Seq(RuntimeEvent) /\ <<>> \in Seq(Reading)
    BY EmptyIsSeq
  <2> QED
    BY <2>1 DEF Crash, IngestionType
<1>4. reactor' \in ReactorType /\ reactor'.work = Idle
  <2>1. <<>> \in Seq(DomainEvent) /\ <<>> \in Seq(RuntimeEvent)
    BY EmptyIsSeq
  <2> QED
    BY <2>1, IdleIsWork DEF Crash, ReactorType
<1>5. past' \in PastType /\ past'.deleted = past.deleted /\ past'.parted = past.parted
  <2> DEFINE more == {c.turn : c \in Placeholders}
  <2>1. past \in PastType /\ more \in SUBSET Turns /\ PendingReverts \in Nat
    BY <1>1, PendingIsNat DEF Typed, Placeholders, MemoryType, Checkpoint
  <2> DEFINE n == PendingReverts
  <2>2. past' = [past EXCEPT !.orphaned = @ \cup more, !.lost = @ + n]
    BY DEF Crash
  <2> HIDE DEF more
  <2>3. past.orphaned \cup more \in SUBSET Turns /\ past.lost + n \in Nat
    BY <2>1 DEF PastType
  <2> HIDE DEF n
  <2>4. past' = [past EXCEPT !.orphaned = past.orphaned \cup more, !.lost = past.lost + n]
    BY <2>2
  <2> QED
    BY <2>1, <2>3, <2>4 DEF PastType
<1>6. budget' \in BudgetType /\ budget'.edits = budget.edits
  BY <1>1, BudgetKept DEF Crash
<1>7. UNCHANGED <<files, refs, memory, database>>
  BY DEF Crash
<1>8. Typed' /\ EditsBounded'
  BY <1>1, <1>2, <1>3, <1>4, <1>5, <1>6, <1>7, EditsKept DEF Typed
<1> QED
  BY <1>4, <1>5, <1>7, <1>8, IdleIsWork, OtherKept DEF Inv

LEMMA NextInv == ASSUME Inv, [Next]_vars PROVE Inv'
<1>1. CASE UNCHANGED vars
  BY <1>1 DEF vars, Inv, Typed, EditsBounded, RevertInRange, RecordHasRef, CurrentTurnCount,
              CountsDistinct, CapturedHaveRefs, ProjectionsAgree
<1>2. CASE RequestTurn \/ StartTurn \/ Edit \/ EndTurn \/ RequestRevert
  BY <1>2, RequestTurnInv, StartTurnInv, EditInv, EndTurnInv, RequestRevertInv
<1>3. CASE Ingest
  BY <1>3, IngestLifecycleInv, IngestDiffReadInv, IngestDiffRecordInv DEF Ingest
<1>4. CASE React
  BY <1>4, TakeBaselineInv, CaptureBaselineInv, TakeCompletionInv, TakePlaceholderInv,
     CaptureFilesInv, RecordCaptureInv, TakeRevertInv, RestoreFilesInv,
     RollbackConversationInv, DeleteRefsInv, CompleteRevertInv DEF React
<1>5. CASE Crash
  BY <1>5, CrashInv
<1> QED
  BY <1>1, <1>2, <1>3, <1>4, <1>5 DEF Next

\* The inductive invariant holds in every state.
THEOREM InvHolds == Spec => []Inv
  BY InitInv, NextInv, PTL DEF Spec

\* No variable leaves its type: what the two workers queue for each other, hold
\* between two awaits, record and capture is of the kind the code declares.
THEOREM TypeCorrect == Spec => []TypeOK
<1>1. Inv => TypeOK
  BY TypedImpliesTypeOK DEF Inv
<1> QED
  BY <1>1, InvHolds, PTL

\* The unique index on the turn counts of a thread is never hit: rows that clash
\* are cleared first (applyThreadTurnsProjection), however late the two workers
\* record the numbers they chose.
THEOREM NoCountTwice == Spec => []CountsDistinct
<1>1. Inv => CountsDistinct
  BY DEF Inv
<1> QED
  BY <1>1, InvHolds, PTL

\* A checkpoint shown as captured can be restored, unless a revert took its ref:
\* the capture is recorded only after update-ref (captureAndDispatchCheckpoint).
THEOREM CapturesCanBeRestored == Spec => []CapturedHaveRefs
<1>1. Inv => CapturedHaveRefs
  BY DEF Inv
<1> QED
  BY <1>1, InvHolds, PTL

\* Thread in memory and rows in the database agree on every turn whose placeholder
\* came before its capture and whose count no other turn was given.
THEOREM ProjectionsStayTogether == Spec => []ProjectionsAgree
<1>1. Inv => ProjectionsAgree
  BY DEF Inv
<1> QED
  BY <1>1, InvHolds, PTL

---------------------------------------------------------------------------
(* Nothing is left open.                                                   *)

\* The reverts that are over, and the turns whose placeholders may stay.
Over == past.settled + past.lost

Excused == past.told \cup past.untold \cup past.orphaned

\* Every revert asked for is over, under way or in the queue.
RevertsCounted ==
    past.asked = Over + Cardinality(RevertsIn(reactor.domain))
                 + (IF reactor.work.op \in Reverting THEN 1 ELSE 0)

OnePerTurn == \A c, d \in memory.checkpoints : c.turn = d.turn => c = d

\* The events s have one that will replace turn t's placeholder.
Awaits(s, t) ==
    \E i \in 1 .. Len(s) :
        s[i].type = "thread.turn-diff-completed" /\ s[i].checkpoint.turn = t

\* Turn t's placeholder will be replaced, or its capture is under way.
Watched(t) ==
    \/ reactor.work.op \in {"capture", "record"} /\ reactor.work.checkpoint.turn = t
    \/ Awaits(reactor.domain, t)

PlaceholdersWatched ==
    \A c \in memory.checkpoints :
        c.status = "missing" => c.turn \in Excused \/ Watched(c.turn)

OpenInv == RevertsCounted /\ OnePerTurn /\ PlaceholdersWatched

LEMMA RevertsInEmpty == Cardinality(RevertsIn(<<>>)) = 0
<1>1. RevertsIn(<<>>) = {}
  BY DEF RevertsIn
<1> QED
  BY <1>1, FS_EmptySet

LEMMA RevertsInAppend ==
  ASSUME NEW s \in Seq(DomainEvent), NEW e \in DomainEvent
  PROVE  Cardinality(RevertsIn(Append(s, e)))
           = Cardinality(RevertsIn(s))
             + (IF e.type = "thread.checkpoint-revert-requested" THEN 1 ELSE 0)
<1> DEFINE n == Len(s) + 1
<1>1. IsFiniteSet(RevertsIn(s)) /\ Cardinality(RevertsIn(s)) \in Nat
  BY RevertsInFinite
<1>2. n \notin RevertsIn(s)
  BY DEF RevertsIn
<1>3. Len(Append(s, e)) = n /\ Append(s, e)[n] = e
      /\ \A i \in 1 .. Len(s) : Append(s, e)[i] = s[i]
  OBVIOUS
<1>4. 1 .. n = (1 .. Len(s)) \cup {n}
  OBVIOUS
<1> HIDE DEF n
<1>5. RevertsIn(Append(s, e))
        = RevertsIn(s) \cup (IF e.type = "thread.checkpoint-revert-requested" THEN {n} ELSE {})
  BY <1>3, <1>4 DEF RevertsIn
<1>6. CASE e.type = "thread.checkpoint-revert-requested"
  <2>1. RevertsIn(Append(s, e)) = RevertsIn(s) \cup {n}
    BY <1>5, <1>6
  <2> QED
    BY <1>1, <1>2, <1>6, <2>1, FS_AddElement
<1>7. CASE e.type # "thread.checkpoint-revert-requested"
  <2>1. RevertsIn(Append(s, e)) = RevertsIn(s)
    BY <1>5, <1>7
  <2> QED
    BY <1>1, <1>7, <2>1
<1> QED
  BY <1>6, <1>7

LEMMA RevertsInTail ==
  ASSUME NEW s \in Seq(DomainEvent), s # <<>>
  PROVE  Cardinality(RevertsIn(s))
           = Cardinality(RevertsIn(Tail(s)))
             + (IF Head(s).type = "thread.checkpoint-revert-requested" THEN 1 ELSE 0)
<1> DEFINE r == Tail(s)
           one == IF Head(s).type = "thread.checkpoint-revert-requested" THEN {1} ELSE {}
           later == RevertsIn(s) \ {1}
<1>1. /\ r \in Seq(DomainEvent) /\ Len(r) = Len(s) - 1 /\ Len(s) \in Nat /\ Len(s) >= 1
      /\ Head(s) = s[1] /\ \A i \in 1 .. Len(r) : r[i] = s[i + 1]
  OBVIOUS
<1>2. /\ IsFiniteSet(RevertsIn(s)) /\ Cardinality(RevertsIn(s)) \in Nat
      /\ IsFiniteSet(RevertsIn(r)) /\ Cardinality(RevertsIn(r)) \in Nat
  BY <1>1, RevertsInFinite
<1>3. ExistsBijection(RevertsIn(r), later)
  <2> DEFINE f == [i \in RevertsIn(r) |-> i + 1]
  <2>1. \A i \in RevertsIn(r) : i \in Nat /\ i + 1 \in later
    BY <1>1 DEF RevertsIn
  <2>2. \A j \in later : j - 1 \in RevertsIn(r) /\ (j - 1) + 1 = j
    <3> SUFFICES ASSUME NEW j \in later PROVE j - 1 \in RevertsIn(r) /\ (j - 1) + 1 = j
      OBVIOUS
    <3>1. j \in 2 .. Len(s) /\ s[j].type = "thread.checkpoint-revert-requested"
      BY <1>1 DEF RevertsIn
    <3>2. j - 1 \in 1 .. Len(r) /\ (j - 1) + 1 = j
      BY <1>1, <3>1
    <3> QED
      BY <1>1, <3>1, <3>2 DEF RevertsIn
  <2>3. f \in Bijection(RevertsIn(r), later)
    BY <2>1, <2>2 DEF Bijection, Injection, Surjection, IsInjective
  <2> QED
    BY <2>3 DEF ExistsBijection
<1>4. IsFiniteSet(later) /\ Cardinality(later) = Cardinality(RevertsIn(r))
  BY <1>2, <1>3, FS_Bijection, FS_Subset
<1>5. 1 \notin later /\ RevertsIn(s) = later \cup one
  BY <1>1 DEF RevertsIn
<1> HIDE DEF later, r
<1>6. CASE Head(s).type = "thread.checkpoint-revert-requested"
  <2>1. RevertsIn(s) = later \cup {1}
    BY <1>5, <1>6
  <2> QED
    BY <1>2, <1>4, <1>5, <1>6, <2>1, FS_AddElement DEF r
<1>7. CASE Head(s).type # "thread.checkpoint-revert-requested"
  <2>1. RevertsIn(s) = later
    BY <1>5, <1>7
  <2> QED
    BY <1>2, <1>4, <1>7, <2>1 DEF r
<1> QED
  BY <1>6, <1>7

LEMMA AwaitsAppend ==
  ASSUME NEW s \in Seq(DomainEvent), NEW e \in DomainEvent, NEW t
  PROVE  /\ Awaits(s, t) => Awaits(Append(s, e), t)
         /\ e.type = "thread.turn-diff-completed" /\ e.checkpoint.turn = t
              => Awaits(Append(s, e), t)
<1>1. Len(Append(s, e)) = Len(s) + 1 /\ Append(s, e)[Len(s) + 1] = e /\ Len(s) \in Nat
      /\ \A i \in 1 .. Len(s) : Append(s, e)[i] = s[i] /\ i \in 1 .. Len(s) + 1
  OBVIOUS
<1>2. Len(s) + 1 \in 1 .. Len(s) + 1
  BY <1>1
<1> QED
  BY <1>1, <1>2 DEF Awaits

LEMMA AwaitsTail ==
  ASSUME NEW s \in Seq(DomainEvent), s # <<>>, NEW t, Awaits(s, t)
  PROVE  \/ Awaits(Tail(s), t)
         \/ Head(s).type = "thread.turn-diff-completed" /\ Head(s).checkpoint.turn = t
<1>1. PICK i \in 1 .. Len(s) :
        s[i].type = "thread.turn-diff-completed" /\ s[i].checkpoint.turn = t
  BY DEF Awaits
<1>2. CASE i = 1
  BY <1>1, <1>2
<1>3. CASE i # 1
  <2>1. i - 1 \in 1 .. Len(Tail(s)) /\ Tail(s)[i - 1] = s[i]
    BY <1>3
  <2> QED
    BY <1>1, <2>1 DEF Awaits
<1> QED
  BY <1>2, <1>3

\* A disturbance takes a revert's calm, and nothing else.
LEMMA DisturbedFields ==
  ASSUME NEW r \in ReactorType
  PROVE  /\ Disturbed(r).domain = r.domain /\ Disturbed(r).runtime = r.runtime
         /\ Disturbed(r).work.op = r.work.op
         /\ r.work.op \notin Reverting => Disturbed(r).work = r.work
<1>1. r.work \in Work /\ DOMAIN r = {"domain", "runtime", "work"}
  BY DEF ReactorType
<1>2. CASE "calm" \in DOMAIN r.work
  <2>1. r.work \in [op : {"restore", "rollback", "delete", "complete"}, turnCount : Nat,
                    seen : SUBSET Checkpoint, calm : BOOLEAN]
    BY <1>1, <1>2 DEF Work, Idle
  <2>2. r.work.op \in Reverting
    BY <2>1 DEF Reverting
  <2>3. Disturbed(r) = [r EXCEPT !.work.calm = FALSE]
    BY <1>2 DEF Disturbed
  <2> QED
    BY <1>1, <2>2, <2>3, DisturbedWork
<1>3. CASE "calm" \notin DOMAIN r.work
  BY <1>3 DEF Disturbed
<1> QED
  BY <1>2, <1>3

\* Steps that neither ask for, take nor settle a revert, nor record, nor end a capture.
LEMMA OpenQuiet ==
  ASSUME OpenInv, memory'.checkpoints = memory.checkpoints,
         past'.asked = past.asked, Over' = Over, Excused \subseteq Excused',
         reactor'.domain = reactor.domain,
         reactor'.work.op \in Reverting <=> reactor.work.op \in Reverting,
         reactor.work.op \in {"capture", "record"} =>
           /\ reactor'.work.op \in {"capture", "record"}
           /\ reactor'.work.checkpoint.turn = reactor.work.checkpoint.turn
  PROVE  OpenInv'
<1>1. RevertsCounted'
  BY DEF OpenInv, RevertsCounted, RevertsIn
<1>2. OnePerTurn'
  BY DEF OpenInv, OnePerTurn
<1>3. PlaceholdersWatched'
  BY DEF OpenInv, PlaceholdersWatched, Watched, Awaits
<1> QED
  BY <1>1, <1>2, <1>3 DEF OpenInv

LEMMA InitOpen == Init => OpenInv
<1> SUFFICES ASSUME Init PROVE OpenInv
  OBVIOUS
<1>1. /\ reactor.domain = <<>> /\ reactor.work.op = "idle" /\ memory.checkpoints = {}
      /\ past.asked = 0 /\ Over = 0
  BY DEF Init, Idle, Over
<1> QED
  BY <1>1, RevertsInEmpty DEF OpenInv, RevertsCounted, OnePerTurn, PlaceholdersWatched, Reverting

LEMMA UserAndProviderOpen ==
  ASSUME Inv, OpenInv, RequestTurn \/ StartTurn \/ Edit \/ EndTurn \/ RequestRevert
  PROVE  OpenInv'
<1>1. /\ Typed /\ reactor \in ReactorType /\ memory \in MemoryType /\ past \in PastType
      /\ reactor.domain \in Seq(DomainEvent)
  BY DEF Inv, Typed, ReactorType
<1>2. CASE RequestTurn
  <2> DEFINE e == [type |-> "thread.turn-start-requested"]
  <2>1. e \in DomainEvent /\ e.type # "thread.checkpoint-revert-requested"
    BY DEF DomainEvent
  <2>2. /\ reactor' = [reactor EXCEPT !.domain = Append(@, e)]
        /\ UNCHANGED <<memory, past>>
    BY <1>2 DEF RequestTurn
  <2> HIDE DEF e
  <2>3. reactor'.domain = Append(reactor.domain, e) /\ reactor'.work = reactor.work
    BY <1>1, <2>2 DEF ReactorType
  <2>4. Cardinality(RevertsIn(reactor'.domain)) = Cardinality(RevertsIn(reactor.domain))
    BY <1>1, <2>1, <2>3, RevertsInAppend, RevertsInFinite
  <2>5. RevertsCounted'
    BY <2>2, <2>3, <2>4 DEF OpenInv, RevertsCounted, RevertsIn, Over
  <2>6. \A t : Awaits(reactor.domain, t) => Awaits(reactor'.domain, t)
    BY <1>1, <2>1, <2>3, AwaitsAppend
  <2>7. OnePerTurn' /\ PlaceholdersWatched'
    BY <2>2, <2>3, <2>6 DEF OpenInv, OnePerTurn, PlaceholdersWatched, Watched, Awaits, Excused
  <2> QED
    BY <2>5, <2>7 DEF OpenInv
<1>3. CASE StartTurn \/ Edit \/ EndTurn
  <2>1. memory'.checkpoints = memory.checkpoints
    BY <1>1, <1>3 DEF StartTurn, Edit, EndTurn, MemoryType
  <2>2. UNCHANGED past
    BY <1>3 DEF StartTurn, Edit, EndTurn
  <2>3. \E r \in {reactor, Disturbed(reactor)} :
          reactor'.domain = r.domain /\ reactor'.work = r.work
    <3>1. reactor \in ReactorType /\ Disturbed(reactor) \in ReactorType
      BY <1>1, DisturbedKeeps
    <3>2. \A r \in {reactor, Disturbed(reactor)} : \A e : Emit(r, e) =>
             reactor'.domain = r.domain /\ reactor'.work = r.work
      BY <3>1 DEF Emit, ReactorType
    <3>3. \E r \in {reactor, Disturbed(reactor)} : reactor' = r \/ \E e : Emit(r, e)
      BY <1>3 DEF StartTurn, Edit, EndTurn
    <3> QED
      BY <3>2, <3>3
  <2>4. /\ reactor'.domain = reactor.domain
        /\ reactor'.work.op = reactor.work.op
        /\ reactor.work.op \notin Reverting => reactor'.work = reactor.work
    BY <1>1, <2>3, DisturbedFields
  <2> QED
    BY <2>1, <2>2, <2>4, OpenQuiet DEF Reverting, Over, Excused
<1>4. CASE RequestRevert
  <2>1. PICK n \in 0 .. MaxTurns - 1 :
          reactor' = [reactor EXCEPT
                        !.domain = Append(@, [type |-> "thread.checkpoint-revert-requested",
                                              turnCount |-> n])]
    BY <1>4 DEF RequestRevert
  <2> DEFINE e == [type |-> "thread.checkpoint-revert-requested", turnCount |-> n]
  <2>2. e \in DomainEvent /\ e.type = "thread.checkpoint-revert-requested"
    <3>1. n \in Nat
      BY CheckpointAssumption
    <3> QED
      BY <3>1 DEF DomainEvent
  <2>3. reactor' = [reactor EXCEPT !.domain = Append(@, e)]
    BY <2>1
  <2> HIDE DEF e
  <2>4. reactor'.domain = Append(reactor.domain, e) /\ reactor'.work = reactor.work
    BY <1>1, <2>3 DEF ReactorType
  <2>5. past'.asked = past.asked + 1 /\ Over' = Over /\ Excused' = Excused /\ UNCHANGED memory
    <3>1. past' = [past EXCEPT !.asked = @ + 1] /\ UNCHANGED memory
      BY <1>4 DEF RequestRevert
    <3> QED
      BY <1>1, <3>1 DEF PastType, Over, Excused
  <2>6. Cardinality(RevertsIn(reactor'.domain)) = Cardinality(RevertsIn(reactor.domain)) + 1
    BY <1>1, <2>2, <2>4, RevertsInAppend
  <2>7. RevertsCounted'
    <3>1. /\ past.asked \in Nat /\ Over \in Nat
          /\ Cardinality(RevertsIn(reactor.domain)) \in Nat
      BY <1>1, RevertsInFinite DEF PastType, Over
    <3>2. (reactor'.work.op \in Reverting) <=> (reactor.work.op \in Reverting)
      BY <2>4
    <3> QED
      BY <2>5, <2>6, <3>1, <3>2 DEF OpenInv, RevertsCounted, RevertsIn
  <2>8. \A t : Awaits(reactor.domain, t) => Awaits(reactor'.domain, t)
    BY <1>1, <2>2, <2>4, AwaitsAppend
  <2>9. OnePerTurn' /\ PlaceholdersWatched'
    BY <2>5, <2>4, <2>8 DEF OpenInv, OnePerTurn, PlaceholdersWatched, Watched, Awaits
  <2> QED
    BY <2>7, <2>9 DEF OpenInv
<1> QED
  BY <1>2, <1>3, <1>4

\* What a record leaves of the checkpoints: one per turn, and a placeholder only
\* where one is recorded or was before.
LEMMA RecordPlaces ==
  ASSUME memory \in MemoryType, OnePerTurn, NEW c \in Checkpoint, RecordCheckpoint(c)
  PROVE  /\ OnePerTurn'
         /\ \A d \in memory'.checkpoints :
              d.status = "missing" =>
                \/ d \in memory.checkpoints /\ d.turn # c.turn
                \/ c.status = "missing" /\ d.turn = c.turn
<1>1. memory'.checkpoints = InMemory(memory.checkpoints, c)
  BY DEF RecordCheckpoint, MemoryType
<1>2. CASE c.status = "missing" /\ HasCaptured(memory.checkpoints, c.turn)
  <2>1. memory'.checkpoints = memory.checkpoints
    BY <1>1, <1>2 DEF InMemory
  <2> QED
    BY <1>2, <2>1 DEF OnePerTurn
<1>3. CASE ~(c.status = "missing" /\ HasCaptured(memory.checkpoints, c.turn))
  <2>1. memory'.checkpoints = {d \in memory.checkpoints : d.turn # c.turn} \cup {c}
    BY <1>1, <1>3 DEF InMemory
  <2> QED
    BY <2>1 DEF OnePerTurn
<1> QED
  BY <1>2, <1>3

\* A placeholder is told to the reactor, a capture is not.
LEMMA ToldOpen ==
  ASSUME Typed, NEW c \in Checkpoint
  PROVE  /\ Cardinality(RevertsIn(Told(c).domain)) = Cardinality(RevertsIn(reactor.domain))
         /\ \A t : Awaits(reactor.domain, t) => Awaits(Told(c).domain, t)
         /\ c.status = "missing" => Awaits(Told(c).domain, c.turn)
<1> DEFINE e == [type |-> "thread.turn-diff-completed", checkpoint |-> c]
<1>1. /\ e \in DomainEvent /\ e.type = "thread.turn-diff-completed"
      /\ e.checkpoint.turn = c.turn
  BY DEF DomainEvent
<1>2. reactor \in ReactorType /\ reactor.domain \in Seq(DomainEvent)
  BY DEF Typed, ReactorType
<1>3. Told(c) = IF c.status # "missing" THEN reactor
                ELSE [reactor EXCEPT !.domain = Append(@, e)]
  BY DEF Told
<1> HIDE DEF e
<1>4. CASE c.status # "missing"
  BY <1>3, <1>4
<1>5. CASE c.status = "missing"
  <2>1. Told(c).domain = Append(reactor.domain, e)
    BY <1>2, <1>3, <1>5 DEF ReactorType
  <2> QED
    BY <1>1, <1>2, <2>1, RevertsInAppend, RevertsInFinite, AwaitsAppend
<1> QED
  BY <1>4, <1>5

LEMMA IngestOpen == ASSUME Inv, OpenInv, Ingest PROVE OpenInv'
<1>1. /\ Typed /\ reactor \in ReactorType /\ memory \in MemoryType /\ past \in PastType
      /\ reactor.domain \in Seq(DomainEvent)
  BY DEF Inv, Typed, ReactorType
<1>2. CASE IngestLifecycle \/ IngestDiffRead
  <2>1. memory'.checkpoints = memory.checkpoints /\ UNCHANGED <<past, reactor>>
    BY <1>1, <1>2 DEF IngestLifecycle, IngestDiffRead, MemoryType
  <2> QED
    BY <2>1, OpenQuiet DEF Over, Excused
<1>3. CASE IngestDiffRecord /\ UNCHANGED <<past, memory, reactor>>
  BY <1>3, OpenQuiet DEF Over, Excused
<1>4. CASE IngestDiffRecord /\ ~UNCHANGED <<past, memory, reactor>>
  <2> DEFINE c == [turn |-> Head(ingestion.reading).turn, count |-> Head(ingestion.reading).count,
                   status |-> "missing", captured |-> FALSE]
  <2>1. c \in Checkpoint /\ c.status = "missing"
    <3>1. Head(ingestion.reading) \in Reading
      BY <1>1, <1>4, HeadsTyped DEF IngestDiffRecord
    <3> QED
      BY <3>1 DEF Reading, Checkpoint
  <2>2. RecordCheckpoint(c) /\ reactor' \in {Told(c), Disturbed(Told(c))}
    BY <1>4 DEF IngestDiffRecord
  <2> HIDE DEF c
  <2>3. past'.asked = past.asked /\ Over' = Over /\ Excused' = Excused
    BY <1>1, <2>2 DEF RecordCheckpoint, PastType, Over, Excused
  <2>4. /\ reactor'.domain = Told(c).domain
        /\ reactor'.work.op = reactor.work.op
        /\ reactor.work.op \notin Reverting => reactor'.work = reactor.work
    <3>1. Told(c) \in ReactorType /\ Told(c).work = reactor.work
      BY <1>1, <2>1, ToldKeeps
    <3> QED
      BY <2>2, <3>1, DisturbedFields
  <2>5. RevertsCounted'
    <3>1. Cardinality(RevertsIn(reactor'.domain)) = Cardinality(RevertsIn(reactor.domain))
      BY <1>1, <2>1, <2>4, ToldOpen
    <3> QED
      BY <2>3, <2>4, <3>1 DEF OpenInv, RevertsCounted, RevertsIn
  <2>6. OnePerTurn'
    BY <1>1, <2>1, <2>2, RecordPlaces DEF OpenInv
  <2>7. PlaceholdersWatched'
    <3> SUFFICES ASSUME NEW d \in memory'.checkpoints, d.status = "missing"
                 PROVE  d.turn \in Excused' \/ Watched(d.turn)'
      BY DEF PlaceholdersWatched
    <3>1. d \in memory.checkpoints \/ d.turn = c.turn
      BY <1>1, <2>1, <2>2, RecordPlaces DEF OpenInv
    <3>2. ASSUME d.turn = c.turn PROVE Watched(d.turn)'
      <4>1. Awaits(Told(c).domain, d.turn)
        BY <1>1, <2>1, <3>2, ToldOpen
      <4> QED
        BY <2>4, <4>1 DEF Watched, Awaits
    <3>3. ASSUME d \in memory.checkpoints, Watched(d.turn) PROVE Watched(d.turn)'
      <4>1. Awaits(reactor.domain, d.turn) => Awaits(Told(c).domain, d.turn)
        BY <1>1, <2>1, ToldOpen
      <4> QED
        BY <2>4, <3>3, <4>1 DEF Watched, Awaits, Reverting
    <3>4. d \in memory.checkpoints => d.turn \in Excused \/ Watched(d.turn)
      BY DEF OpenInv, PlaceholdersWatched
    <3> QED
      BY <2>3, <3>1, <3>2, <3>3, <3>4
  <2> QED
    BY <2>5, <2>6, <2>7 DEF OpenInv
<1> QED
  BY <1>2, <1>3, <1>4 DEF Ingest

\* The worker takes an event that asks for no revert, and goes on with w: if the
\* event is of a placeholder, its turn has a capture or is captured now.
LEMMA TookOpen ==
  ASSUME Inv, OpenInv, reactor.work = Idle, NEW w, w.op \notin Reverting,
         reactor'.work = w, UNCHANGED <<memory, past>>,
         \/ reactor'.domain = reactor.domain
         \/ /\ reactor.domain # <<>> /\ reactor'.domain = Tail(reactor.domain)
            /\ Head(reactor.domain).type # "thread.checkpoint-revert-requested"
            /\ Head(reactor.domain).type = "thread.turn-diff-completed" =>
                 LET t == Head(reactor.domain).checkpoint.turn
                 IN  \/ HasCaptured(memory.checkpoints, t)
                     \/ w.op = "capture" /\ w.checkpoint.turn = t
  PROVE  OpenInv'
<1>1. reactor.domain \in Seq(DomainEvent) /\ reactor.work.op = "idle"
  BY IdleIsWork DEF Inv, Typed, ReactorType
<1>2. Cardinality(RevertsIn(reactor'.domain)) = Cardinality(RevertsIn(reactor.domain))
  <2>1. CASE reactor'.domain = reactor.domain
    BY <2>1
  <2>2. CASE reactor'.domain # reactor.domain
    <3>1. /\ reactor.domain # <<>> /\ reactor'.domain = Tail(reactor.domain)
          /\ Head(reactor.domain).type # "thread.checkpoint-revert-requested"
          /\ Tail(reactor.domain) \in Seq(DomainEvent)
      BY <1>1, <2>2
    <3>2. Cardinality(RevertsIn(reactor.domain)) = Cardinality(RevertsIn(Tail(reactor.domain))) + 0
      BY <1>1, <3>1, RevertsInTail
    <3>3. Cardinality(RevertsIn(Tail(reactor.domain))) \in Nat
      BY <3>1, RevertsInFinite
    <3> QED
      BY <3>1, <3>2, <3>3
  <2> QED
    BY <2>1, <2>2
<1>3. RevertsCounted'
  BY <1>1, <1>2 DEF OpenInv, RevertsCounted, RevertsIn, Reverting, Over
<1>4. OnePerTurn'
  BY DEF OpenInv, OnePerTurn
<1>5. PlaceholdersWatched'
  <2> SUFFICES ASSUME NEW d \in memory.checkpoints, d.status = "missing", Watched(d.turn)
               PROVE  Watched(d.turn)'
    BY DEF OpenInv, PlaceholdersWatched, Excused
  <2>1. Awaits(reactor.domain, d.turn)
    BY <1>1 DEF Watched
  <2>2. ~HasCaptured(memory.checkpoints, d.turn)
    BY DEF OpenInv, OnePerTurn, HasCaptured, OfTurn
  <2>3. \/ Awaits(reactor'.domain, d.turn)
        \/ w.op = "capture" /\ w.checkpoint.turn = d.turn
    BY <1>1, <2>1, <2>2, AwaitsTail
  <2> QED
    BY <2>3 DEF Watched, Awaits
<1> QED
  BY <1>3, <1>4, <1>5 DEF OpenInv

\* A revert is over, in whatever way: one less under way, one more over.
LEMMA SettledOpen ==
  ASSUME Inv, OpenInv, reactor.work.op \in Reverting, reactor'.work = Idle,
         reactor'.domain = reactor.domain, memory'.checkpoints \subseteq memory.checkpoints,
         past'.asked = past.asked, Over' = Over + 1, Excused' = Excused
  PROVE  OpenInv'
<1>1. /\ reactor.domain \in Seq(DomainEvent) /\ reactor'.work.op = "idle"
      /\ Over \in Nat /\ Cardinality(RevertsIn(reactor.domain)) \in Nat
  BY IdleIsWork, RevertsInFinite DEF Inv, Typed, ReactorType, PastType, Over
<1>2. RevertsCounted'
  BY <1>1 DEF OpenInv, RevertsCounted, RevertsIn, Reverting
<1>3. OnePerTurn'
  BY DEF OpenInv, OnePerTurn
<1>4. PlaceholdersWatched'
  BY DEF OpenInv, PlaceholdersWatched, Watched, Awaits, Reverting
<1> QED
  BY <1>2, <1>3, <1>4 DEF OpenInv

LEMMA CaptureOpen ==
  ASSUME Inv, OpenInv,
         TakeBaseline \/ CaptureBaseline \/ TakeCompletion \/ TakePlaceholder
           \/ CaptureFiles \/ RecordCapture
  PROVE  OpenInv'
<1>1. /\ Typed /\ reactor \in ReactorType /\ memory \in MemoryType /\ past \in PastType
      /\ reactor.domain \in Seq(DomainEvent)
  BY DEF Inv, Typed, ReactorType
<1>2. CASE TakeBaseline
  <2> DEFINE n == CurrentTurnCount(memory.checkpoints)
             w == IF n \in DOMAIN refs THEN Idle ELSE [op |-> "baseline", count |-> n]
  <2>1. /\ reactor.work = Idle /\ UNCHANGED <<memory, past>>
        /\ \/ /\ reactor.domain # <<>> /\ DomainDone(w)
              /\ Head(reactor.domain).type = "thread.turn-start-requested"
           \/ RuntimeDone(w)
    BY <1>2 DEF TakeBaseline, FromDomain, FromRuntime
  <2>2. w.op \notin Reverting
    BY IdleIsWork DEF Reverting
  <2> HIDE DEF w
  <2>3. /\ reactor'.work = w
        /\ \/ reactor'.domain = reactor.domain
           \/ reactor.domain # <<>> /\ reactor'.domain = Tail(reactor.domain)
              /\ Head(reactor.domain).type = "thread.turn-start-requested"
    BY <1>1, <2>1 DEF DomainDone, RuntimeDone, ReactorType
  <2> QED
    BY <2>1, <2>2, <2>3, TookOpen
<1>3. CASE CaptureBaseline
  <2>1. /\ reactor.work.op = "baseline" /\ UNCHANGED <<memory, past>>
        /\ reactor'.work = Idle /\ reactor'.domain = reactor.domain
    BY <1>1, <1>3 DEF CaptureBaseline, Busy, ReactorType
  <2> QED
    BY <2>1, IdleIsWork, OpenQuiet DEF Reverting, Over, Excused
<1>4. CASE TakeCompletion
  <2>1. \E w : RuntimeDone(w) /\ w.op \in {"idle", "capture"}
    <3>1. CASE RuntimeDone(Idle)
      BY <3>1, IdleIsWork
    <3>2. CASE ~RuntimeDone(Idle)
      <4>1. PICK cp : RuntimeDone([op |-> "capture", checkpoint |-> cp])
        BY <1>4, <3>2 DEF TakeCompletion
      <4>2. [op |-> "capture", checkpoint |-> cp].op = "capture"
        OBVIOUS
      <4> QED
        BY <4>1, <4>2
    <3> QED
      BY <3>1, <3>2
  <2>2. PICK w : RuntimeDone(w) /\ w.op \in {"idle", "capture"}
    BY <2>1
  <2>3. /\ reactor.work = Idle /\ UNCHANGED <<memory, past>>
        /\ reactor'.work = w /\ reactor'.domain = reactor.domain
    BY <1>1, <1>4, <2>2 DEF TakeCompletion, FromRuntime, RuntimeDone, ReactorType
  <2> QED
    BY <2>2, <2>3, TookOpen DEF Reverting
<1>5. CASE TakePlaceholder
  <2> DEFINE c == Head(reactor.domain).checkpoint
             d == [c EXCEPT !.status = "ready", !.captured = TRUE]
             w == IF HasCaptured(memory.checkpoints, c.turn) THEN Idle
                  ELSE [op |-> "capture", checkpoint |-> d]
  <2>1. /\ reactor.work = Idle /\ UNCHANGED <<memory, past>> /\ DomainDone(w)
        /\ reactor.domain # <<>> /\ Head(reactor.domain).type = "thread.turn-diff-completed"
    BY <1>5 DEF TakePlaceholder, FromDomain
  <2>2. d.turn = c.turn
    <3>1. c \in Checkpoint
      BY <1>1, <2>1, HeadsTyped DEF DomainEvent
    <3> QED
      BY <3>1 DEF Checkpoint
  <2> HIDE DEF d
  <2>3. /\ w.op \notin Reverting
        /\ \/ HasCaptured(memory.checkpoints, c.turn)
           \/ w.op = "capture" /\ w.checkpoint.turn = c.turn
    BY <2>2, IdleIsWork DEF Reverting
  <2> HIDE DEF w
  <2>4. reactor'.work = w /\ reactor'.domain = Tail(reactor.domain)
    BY <1>1, <2>1 DEF DomainDone, ReactorType
  <2> QED
    BY <2>1, <2>3, <2>4, TookOpen
<1> DEFINE v == reactor.work.checkpoint
<1>6. ASSUME reactor.work.op \in {"capture", "record"}, CaptureFails, memory' = memory
      PROVE  OpenInv'
  <2>1. /\ reactor'.domain = reactor.domain /\ reactor'.work.op = "idle"
        /\ past'.asked = past.asked /\ Over' = Over /\ Excused' = Excused \cup {v.turn}
    <3> HIDE DEF v
    <3>1. \/ past' = [past EXCEPT !.told = @ \cup {v.turn}]
          \/ past' = [past EXCEPT !.untold = @ \cup {v.turn}]
      BY <1>6 DEF CaptureFails, v
    <3>2. past'.asked = past.asked /\ Over' = Over /\ Excused' = Excused \cup {v.turn}
      BY <1>1, <3>1 DEF PastType, Over, Excused
    <3> QED
      BY <1>1, <1>6, <3>2, IdleIsWork DEF Busy, CaptureFails, ReactorType
  <2>2. RevertsCounted'
    BY <1>6, <2>1 DEF OpenInv, RevertsCounted, RevertsIn, Reverting
  <2>3. OnePerTurn'
    BY <1>6 DEF OpenInv, OnePerTurn
  <2>4. PlaceholdersWatched'
    BY <1>6, <2>1 DEF OpenInv, PlaceholdersWatched, Watched, Awaits
  <2> QED
    BY <2>2, <2>3, <2>4 DEF OpenInv
<1>7. CASE CaptureFiles
  <2>1. CASE CaptureFails
    BY <1>6, <1>7, <2>1 DEF CaptureFiles
  <2>2. CASE /\ Busy([reactor.work EXCEPT !.op = "record"])
             /\ past' = [past EXCEPT !.deleted = @ \ {reactor.work.checkpoint.count},
                                     !.early = @ \cup ({reactor.work.checkpoint.turn}
                                                        \cap {provider.turn})]
    <3>1. reactor.work \in [op : {"capture", "record"}, checkpoint : Checkpoint]
      BY <1>1, <1>7, WorkOfOp DEF CaptureFiles
    <3>2. /\ reactor'.domain = reactor.domain /\ reactor'.work.op = "record"
          /\ reactor'.work.checkpoint = v
      BY <1>1, <2>2, <3>1 DEF Busy, ReactorType
    <3>3. /\ past'.asked = past.asked /\ Over' = Over /\ Excused' = Excused
          /\ UNCHANGED memory /\ reactor.work.op = "capture"
      BY <1>1, <1>7, <2>2 DEF PastType, CaptureFiles, Over, Excused
    <3> QED
      BY <3>2, <3>3, OpenQuiet DEF Reverting
  <2> QED
    BY <1>7, <2>1, <2>2 DEF CaptureFiles
<1>8. CASE RecordCapture
  <2>1. CASE CaptureFails /\ UNCHANGED memory
    BY <1>6, <1>8, <2>1 DEF RecordCapture
  <2>2. CASE RecordCheckpoint(v) /\ reactor' = [Told(v) EXCEPT !.work = Idle]
    <3>1. v \in Checkpoint /\ reactor.work.op = "record"
      BY <1>1, <1>8, WorkOfOp DEF RecordCapture
    <3> HIDE DEF v
    <3>2. reactor'.domain = Told(v).domain /\ reactor'.work.op = "idle"
      <4>1. Told(v) \in ReactorType
        BY <1>1, <3>1, ToldKeeps
      <4> QED
        BY <2>2, <4>1, IdleIsWork DEF ReactorType
    <3>3. past'.asked = past.asked /\ Over' = Over /\ Excused' = Excused
      BY <1>1, <2>2 DEF RecordCheckpoint, PastType, Over, Excused
    <3>4. RevertsCounted'
      <4>1. Cardinality(RevertsIn(reactor'.domain)) = Cardinality(RevertsIn(reactor.domain))
        BY <1>1, <3>1, <3>2, ToldOpen
      <4> QED
        BY <3>1, <3>2, <3>3, <4>1 DEF OpenInv, RevertsCounted, RevertsIn, Reverting
    <3>5. OnePerTurn'
      BY <1>1, <2>2, <3>1, RecordPlaces DEF OpenInv
    <3>6. PlaceholdersWatched'
      <4> SUFFICES ASSUME NEW d \in memory'.checkpoints, d.status = "missing"
                   PROVE  d.turn \in Excused' \/ Awaits(reactor'.domain, d.turn)
        BY DEF PlaceholdersWatched, Watched, Awaits
      <4>1. \/ d \in memory.checkpoints /\ d.turn # v.turn
            \/ v.status = "missing" /\ d.turn = v.turn
        BY <1>1, <2>2, <3>1, RecordPlaces DEF OpenInv
      <4>2. ASSUME v.status = "missing", d.turn = v.turn PROVE Awaits(reactor'.domain, d.turn)
        BY <1>1, <3>1, <3>2, <4>2, ToldOpen
      <4>3. ASSUME d \in memory.checkpoints, d.turn # v.turn
            PROVE  d.turn \in Excused \/ Awaits(reactor'.domain, d.turn)
        <5>1. d.turn \in Excused \/ Awaits(reactor.domain, d.turn)
          BY <4>3 DEF OpenInv, PlaceholdersWatched, Watched, v
        <5> QED
          BY <1>1, <3>1, <3>2, <5>1, ToldOpen
      <4> QED
        BY <3>3, <4>1, <4>2, <4>3
    <3> QED
      BY <3>4, <3>5, <3>6 DEF OpenInv
  <2> QED
    BY <1>8, <2>1, <2>2 DEF RecordCapture
<1> QED
  BY <1>2, <1>3, <1>4, <1>5, <1>7, <1>8

\* What taking a request to revert does to the queue.
LEMMA RevertTaken ==
  ASSUME Typed, FromDomain("thread.checkpoint-revert-requested"), NEW w, DomainDone(w)
  PROVE  /\ reactor'.work = w /\ reactor'.domain = Tail(reactor.domain)
         /\ Cardinality(RevertsIn(reactor.domain)) = Cardinality(RevertsIn(reactor'.domain)) + 1
         /\ Cardinality(RevertsIn(reactor'.domain)) \in Nat
         /\ \A t : Awaits(reactor.domain, t) => Awaits(reactor'.domain, t)
<1>1. /\ reactor \in ReactorType /\ reactor.domain \in Seq(DomainEvent)
      /\ reactor.domain # <<>>
      /\ Head(reactor.domain).type = "thread.checkpoint-revert-requested"
  BY DEF Typed, ReactorType, FromDomain
<1>2. reactor'.work = w /\ reactor'.domain = Tail(reactor.domain)
  BY <1>1 DEF DomainDone, ReactorType
<1>3. Tail(reactor.domain) \in Seq(DomainEvent)
  BY <1>1
<1>4. Cardinality(RevertsIn(reactor.domain)) = Cardinality(RevertsIn(Tail(reactor.domain))) + 1
  BY <1>1, RevertsInTail
<1>5. Cardinality(RevertsIn(Tail(reactor.domain))) \in Nat
  BY <1>3, RevertsInFinite
<1>6. \A t : Awaits(reactor.domain, t) => Awaits(Tail(reactor.domain), t)
  BY <1>1, AwaitsTail
<1> QED
  BY <1>2, <1>4, <1>5, <1>6

\* An answer, told or lost, is one revert less to wait for.
LEMMA OneMoreOver ==
  ASSUME past \in PastType, past' \in {Settled(past), Lost(past)}
  PROVE  past'.asked = past.asked /\ Over' = Over + 1 /\ Excused' = Excused
  BY DEF Settled, Lost, PastType, Over, Excused

LEMMA RevertOpen ==
  ASSUME Inv, OpenInv,
         TakeRevert \/ RestoreFiles \/ RollbackConversation \/ DeleteRefs \/ CompleteRevert
  PROVE  OpenInv'
<1>1. /\ Typed /\ reactor \in ReactorType /\ memory \in MemoryType /\ past \in PastType
      /\ reactor.domain \in Seq(DomainEvent)
  BY DEF Inv, Typed, ReactorType
<1>2. CASE TakeRevert
  <2>1. /\ FromDomain("thread.checkpoint-revert-requested") /\ reactor.work.op = "idle"
        /\ UNCHANGED memory
    BY <1>2, IdleIsWork DEF TakeRevert, FromDomain
  <2>2. \E w : /\ DomainDone(w)
               /\ \/ w.op = "idle" /\ TellRefused
                  \/ w.op = "restore" /\ UNCHANGED past
    <3>1. CASE DomainDone(Idle) /\ TellRefused
      BY <3>1, IdleIsWork
    <3>2. CASE ~(DomainDone(Idle) /\ TellRefused)
      <4>1. PICK n, cs, b : /\ DomainDone([op |-> "restore", turnCount |-> n, seen |-> cs, calm |-> b])
                            /\ UNCHANGED past
        BY <1>2, <3>2 DEF TakeRevert
      <4>2. [op |-> "restore", turnCount |-> n, seen |-> cs, calm |-> b].op = "restore"
        OBVIOUS
      <4> QED
        BY <4>1, <4>2
    <3> QED
      BY <3>1, <3>2
  <2>3. PICK w : /\ DomainDone(w)
                 /\ \/ w.op = "idle" /\ TellRefused
                    \/ w.op = "restore" /\ UNCHANGED past
    BY <2>2
  <2>4. /\ reactor'.work = w
        /\ Cardinality(RevertsIn(reactor.domain)) = Cardinality(RevertsIn(reactor'.domain)) + 1
        /\ Cardinality(RevertsIn(reactor'.domain)) \in Nat
        /\ \A t : Awaits(reactor.domain, t) => Awaits(reactor'.domain, t)
    BY <1>1, <2>1, <2>3, RevertTaken
  <2>5. /\ past'.asked = past.asked /\ Excused' = Excused
        /\ Over' = IF w.op = "idle" THEN Over + 1 ELSE Over
        /\ w.op \in {"idle", "restore"} /\ Over \in Nat
    BY <1>1, <2>3, OneMoreOver DEF TellRefused, Over, Excused, PastType
  <2>6. RevertsCounted'
    BY <2>1, <2>4, <2>5 DEF OpenInv, RevertsCounted, RevertsIn, Reverting
  <2>7. OnePerTurn'
    BY <2>1 DEF OpenInv, OnePerTurn
  <2>8. PlaceholdersWatched'
    BY <2>1, <2>4, <2>5 DEF OpenInv, PlaceholdersWatched, Watched, Awaits
  <2> QED
    BY <2>6, <2>7, <2>8 DEF OpenInv
<1>3. ASSUME reactor.work.op \in Reverting, Busy(Idle), UNCHANGED memory,
             past' \in {Settled(past), Lost(past)}
      PROVE  OpenInv'
  <2>1. reactor'.work = Idle /\ reactor'.domain = reactor.domain
    BY <1>1, <1>3 DEF Busy, ReactorType
  <2>2. past'.asked = past.asked /\ Over' = Over + 1 /\ Excused' = Excused
    BY <1>1, <1>3, OneMoreOver
  <2> QED
    BY <1>3, <2>1, <2>2, SettledOpen
<1>4. ASSUME NEW op \in Reverting, reactor.work.op \in Reverting,
             Busy([reactor.work EXCEPT !.op = op]), UNCHANGED memory,
             past'.asked = past.asked, Over' = Over, Excused' = Excused
      PROVE  OpenInv'
  <2>1. reactor'.domain = reactor.domain /\ reactor'.work.op = op
    <3>1. reactor.work \in [op : {"restore", "rollback", "delete", "complete"},
                            turnCount : Nat, seen : SUBSET Checkpoint, calm : BOOLEAN]
      BY <1>1, <1>4, WorkOfOp DEF Reverting
    <3> QED
      BY <1>1, <1>4, <3>1 DEF Busy, ReactorType
  <2> QED
    BY <1>4, <2>1, OpenQuiet DEF Reverting
<1>5. CASE RestoreFiles
  <2>1. reactor.work.op \in Reverting /\ UNCHANGED memory
    BY <1>5 DEF RestoreFiles, Reverting
  <2>2. \/ Busy(Idle) /\ past' \in {Settled(past), Lost(past)}
        \/ Busy([reactor.work EXCEPT !.op = "rollback"]) /\ UNCHANGED past
    BY <1>5 DEF RestoreFiles, RevertFails, TellRefused
  <2> QED
    BY <1>3, <1>4, <2>1, <2>2 DEF Reverting, Over, Excused
<1>6. CASE RollbackConversation
  <2>1. reactor.work.op \in Reverting /\ UNCHANGED memory
    BY <1>6 DEF RollbackConversation, Reverting
  <2>2. \/ Busy(Idle) /\ past' \in {Settled(past), Lost(past)}
        \/ Busy([reactor.work EXCEPT !.op = "delete"]) /\ UNCHANGED past
    BY <1>6 DEF RollbackConversation, RevertFails
  <2> QED
    BY <1>3, <1>4, <2>1, <2>2 DEF Reverting, Over, Excused
<1>7. CASE DeleteRefs
  <2>1. reactor.work.op \in Reverting /\ UNCHANGED memory
    BY <1>7 DEF DeleteRefs, Reverting
  <2> DEFINE after(gone) == [past EXCEPT !.deleted = @ \cup gone]
  <2>2. PICK gone \in SUBSET StaleCounts(reactor.work.seen, reactor.work.turnCount) :
          \/ Busy([reactor.work EXCEPT !.op = "complete"]) /\ past' = after(gone)
          \/ Busy(Idle) /\ past' \in {Settled(after(gone)), Lost(after(gone))}
    BY <1>7 DEF DeleteRefs
  <2>3. CASE Busy([reactor.work EXCEPT !.op = "complete"]) /\ past' = after(gone)
    <3>1. past'.asked = past.asked /\ Over' = Over /\ Excused' = Excused
      BY <1>1, <2>3 DEF PastType, Over, Excused
    <3> QED
      BY <1>4, <2>1, <2>3, <3>1 DEF Reverting
  <2>4. CASE Busy(Idle) /\ past' \in {Settled(after(gone)), Lost(after(gone))}
    <3>1. reactor'.work = Idle /\ reactor'.domain = reactor.domain
      BY <1>1, <2>4 DEF Busy, ReactorType
    <3>2. past'.asked = past.asked /\ Over' = Over + 1 /\ Excused' = Excused
      <4> DEFINE p == after(gone)
      <4>1. /\ p.asked = past.asked /\ p.settled = past.settled /\ p.lost = past.lost
            /\ p.told = past.told /\ p.untold = past.untold /\ p.orphaned = past.orphaned
            /\ DOMAIN p = DOMAIN past
        BY <1>1 DEF PastType
      <4> HIDE DEF p
      <4>2. past' \in {[p EXCEPT !.settled = @ + 1], [p EXCEPT !.lost = @ + 1]}
        BY <2>4 DEF Settled, Lost, p
      <4>3. CASE past' = [p EXCEPT !.settled = @ + 1]
        BY <1>1, <4>1, <4>3 DEF PastType, Over, Excused
      <4>4. CASE past' = [p EXCEPT !.lost = @ + 1]
        BY <1>1, <4>1, <4>4 DEF PastType, Over, Excused
      <4> QED
        BY <4>2, <4>3, <4>4
    <3> QED
      BY <2>1, <3>1, <3>2, SettledOpen
  <2> QED
    BY <2>2, <2>3, <2>4
<1>8. CASE CompleteRevert
  <2>1. reactor.work.op \in Reverting
    BY <1>8 DEF CompleteRevert, Reverting
  <2>2. CASE RevertFails /\ UNCHANGED memory
    BY <1>3, <2>1, <2>2 DEF RevertFails
  <2>3. CASE /\ memory' = [memory EXCEPT !.checkpoints = Kept(@, reactor.work.turnCount)]
             /\ past' = [Settled(past) EXCEPT !.deleted = {m \in @ : m <= reactor.work.turnCount}]
             /\ Busy(Idle)
    <3>1. memory'.checkpoints \subseteq memory.checkpoints
      BY <1>1, <2>3 DEF MemoryType, Kept
    <3>2. /\ reactor'.work = Idle /\ reactor'.domain = reactor.domain
          /\ past'.asked = past.asked /\ Over' = Over + 1 /\ Excused' = Excused
      BY <1>1, <2>3 DEF Busy, Settled, ReactorType, PastType, Over, Excused
    <3> QED
      BY <2>1, <3>1, <3>2, SettledOpen
  <2> QED
    BY <1>8, <2>2, <2>3 DEF CompleteRevert
<1> QED
  BY <1>2, <1>5, <1>6, <1>7, <1>8

LEMMA StepOpen == ASSUME Inv, OpenInv, [Next]_vars PROVE OpenInv'
<1>1. CASE UNCHANGED vars
  BY <1>1 DEF vars, OpenInv, RevertsCounted, RevertsIn, OnePerTurn, PlaceholdersWatched, Watched,
              Awaits, Over, Excused
<1>2. CASE Crash
  <2>1. past \in PastType /\ PendingReverts \in Nat
    BY PendingIsNat DEF Inv, Typed
  <2>2. /\ reactor'.domain = <<>> /\ reactor'.work.op = "idle" /\ UNCHANGED memory
        /\ past' = [past EXCEPT !.orphaned = @ \cup {c.turn : c \in Placeholders},
                                !.lost = @ + PendingReverts]
    BY <1>2, IdleIsWork DEF Crash
  <2>3. /\ past'.asked = past.asked /\ past.asked \in Nat /\ Over' = Over + PendingReverts
        /\ {c.turn : c \in Placeholders} \subseteq Excused'
    <3> DEFINE more == {c.turn : c \in Placeholders}
    <3>1. past' = [past EXCEPT !.orphaned = @ \cup more, !.lost = @ + PendingReverts]
      BY <2>2
    <3> HIDE DEF more
    <3>2. past'.asked = past.asked /\ past.asked \in Nat /\ Over' = Over + PendingReverts
          /\ more \subseteq Excused'
      BY <2>1, <3>1 DEF PastType, Over, Excused
    <3> QED
      BY <3>2 DEF more
  <2>4. past.asked = Over + PendingReverts
    <3>1. Cardinality(RevertsIn(reactor.domain)) \in Nat /\ Over \in Nat
      BY <2>1, RevertsInFinite DEF Inv, Typed, ReactorType, PastType, Over
    <3> QED
      BY <3>1 DEF OpenInv, RevertsCounted, PendingReverts
  <2>5. RevertsCounted'
    BY <2>2, <2>3, <2>4, RevertsInEmpty DEF RevertsCounted, RevertsIn, Reverting
  <2>6. OnePerTurn' /\ PlaceholdersWatched'
    BY <2>2, <2>3 DEF OpenInv, OnePerTurn, PlaceholdersWatched, Placeholders
  <2> QED
    BY <2>5, <2>6 DEF OpenInv
<1> QED
  BY <1>1, <1>2, UserAndProviderOpen, IngestOpen, CaptureOpen, RevertOpen DEF Next, React

\* When both workers have nothing left to do, every placeholder has been replaced, or
\* the failure of its capture was told, or telling it failed as well, or it was one when
\* the server died; and the reverts asked for are those that were answered and those
\* whose answer failed or fell to a crash (processDomainEvent, handleRevertRequested).
THEOREM NothingStaysOpen == Spec => []NothingLeftOpen
<1>1. Inv /\ OpenInv /\ [Next]_vars => (Inv /\ OpenInv)'
  BY NextInv, StepOpen
<1>2. Inv /\ OpenInv => NothingLeftOpen
  <2> SUFFICES ASSUME Inv, OpenInv, Drained PROVE NothingLeftOpen
    BY DEF NothingLeftOpen
  <2>1. /\ reactor.domain = <<>> /\ reactor.work.op = "idle" /\ Over \in Nat
    BY IdleIsWork DEF Drained, Inv, Typed, PastType, Over
  <2>2. past.asked = Over
    BY <2>1, RevertsInEmpty DEF OpenInv, RevertsCounted, Reverting
  <2>3. \A t : ~Watched(t)
    BY <2>1 DEF Watched, Awaits
  <2> QED
    BY <2>2, <2>3 DEF NothingLeftOpen, OpenInv, PlaceholdersWatched, Placeholders, Over, Excused
<1> QED
  BY <1>1, <1>2, InitInv, InitOpen, PTL DEF Spec

---------------------------------------------------------------------------
(* Captures are complete.                                                  *)

\* What the events s say is about the turns up to n ...
Upto(s, n) == \A i \in 1 .. Len(s) : s[i].turn <= n

\* ... and so is what events of the engine say.
DomainUpto(s, n) ==
    \A i \in 1 .. Len(s) :
        s[i].type = "thread.turn-diff-completed" => s[i].checkpoint.turn <= n

WorkUpto(w, n) == w.op \in {"capture", "record"} => w.checkpoint.turn <= n

\* What is told, worked on or recorded is about a turn that has begun.
TurnsBegun ==
    /\ provider.turn <= provider.last
    /\ Upto(ingestion.queue, provider.last)
    /\ Upto(ingestion.reading, provider.last)
    /\ Upto(reactor.runtime, provider.last)
    /\ DomainUpto(reactor.domain, provider.last)
    /\ WorkUpto(reactor.work, provider.last)
    /\ \A c \in memory.checkpoints : c.turn <= provider.last

LEMMA UptoAppend ==
  ASSUME NEW S, NEW s \in Seq(S), NEW e \in S, NEW n, Upto(s, n), e.turn <= n
  PROVE  Upto(Append(s, e), n)
<1>1. Len(Append(s, e)) = Len(s) + 1 /\ Append(s, e)[Len(s) + 1] = e /\ Len(s) \in Nat
      /\ \A i \in 1 .. Len(s) + 1 : i = Len(s) + 1 \/ (i \in 1 .. Len(s) /\ Append(s, e)[i] = s[i])
  OBVIOUS
<1> QED
  BY <1>1 DEF Upto

LEMMA UptoTail ==
  ASSUME NEW S, NEW s \in Seq(S), s # <<>>, NEW n, Upto(s, n)
  PROVE  Upto(Tail(s), n) /\ Head(s).turn <= n
<1>1. /\ Len(Tail(s)) = Len(s) - 1 /\ Head(s) = s[1] /\ 1 \in 1 .. Len(s) /\ Len(s) \in Nat
      /\ \A i \in 1 .. Len(s) - 1 : Tail(s)[i] = s[i + 1] /\ i + 1 \in 1 .. Len(s)
  OBVIOUS
<1> QED
  BY <1>1 DEF Upto

LEMMA DomainUptoAppend ==
  ASSUME NEW s \in Seq(DomainEvent), NEW e \in DomainEvent, NEW n, DomainUpto(s, n),
         e.type = "thread.turn-diff-completed" => e.checkpoint.turn <= n
  PROVE  DomainUpto(Append(s, e), n)
<1>1. Len(Append(s, e)) = Len(s) + 1 /\ Append(s, e)[Len(s) + 1] = e /\ Len(s) \in Nat
      /\ \A i \in 1 .. Len(s) + 1 : i = Len(s) + 1 \/ (i \in 1 .. Len(s) /\ Append(s, e)[i] = s[i])
  OBVIOUS
<1> QED
  BY <1>1 DEF DomainUpto

LEMMA DomainUptoTail ==
  ASSUME NEW s \in Seq(DomainEvent), s # <<>>, NEW n, DomainUpto(s, n)
  PROVE  /\ DomainUpto(Tail(s), n)
         /\ Head(s).type = "thread.turn-diff-completed" => Head(s).checkpoint.turn <= n
<1>1. /\ Len(Tail(s)) = Len(s) - 1 /\ Head(s) = s[1] /\ 1 \in 1 .. Len(s) /\ Len(s) \in Nat
      /\ \A i \in 1 .. Len(s) - 1 : Tail(s)[i] = s[i + 1] /\ i + 1 \in 1 .. Len(s)
  OBVIOUS
<1> QED
  BY <1>1 DEF DomainUpto

LEMMA UptoEmpty == \A n : Upto(<<>>, n) /\ DomainUpto(<<>>, n)
  BY DEF Upto, DomainUpto

LEMMA UptoMore ==
  ASSUME NEW m \in Nat, NEW n \in Nat, m <= n, NEW S, NEW s \in Seq(S),
         \A x \in S : x.turn \in Nat, Upto(s, m)
  PROVE  Upto(s, n)
<1> SUFFICES ASSUME NEW i \in 1 .. Len(s) PROVE s[i].turn <= n
  BY DEF Upto
<1>1. s[i] \in S
  OBVIOUS
<1>2. s[i].turn \in Nat /\ s[i].turn <= m
  BY <1>1 DEF Upto
<1> QED
  BY <1>2

LEMMA TurnsAreNat ==
  /\ \A x \in RuntimeEvent : x.turn \in Nat
  /\ \A x \in Reading : x.turn \in Nat
  /\ \A x \in Checkpoint : x.turn \in Nat
  BY DEF RuntimeEvent, Reading, Checkpoint, Turns

LEMMA InitBegun == Init => TurnsBegun
<1> SUFFICES ASSUME Init PROVE TurnsBegun
  OBVIOUS
<1>1. /\ provider.turn = 0 /\ provider.last = 0 /\ ingestion.queue = <<>> /\ ingestion.reading = <<>>
      /\ reactor.runtime = <<>> /\ reactor.domain = <<>> /\ reactor.work.op = "idle"
      /\ memory.checkpoints = {}
  BY DEF Init, Idle
<1> QED
  BY <1>1, UptoEmpty DEF TurnsBegun, WorkUpto

\* The events of the provider's turns.
LEMMA EmitBegun ==
  ASSUME Inv, TurnsBegun, NEW r \in {reactor, Disturbed(reactor)}, NEW e \in RuntimeEvent,
         (reactor' = r /\ UNCHANGED ingestion) \/ Emit(r, e),
         provider.last \in Nat, provider'.last \in Nat, provider.last <= provider'.last,
         provider'.turn <= provider'.last, e.turn <= provider'.last,
         memory'.checkpoints = memory.checkpoints
  PROVE  TurnsBegun'
<1> DEFINE n == provider'.last
<1>1. /\ Typed /\ reactor \in ReactorType /\ ingestion \in IngestionType /\ memory \in MemoryType
      /\ reactor.runtime \in Seq(RuntimeEvent) /\ ingestion.queue \in Seq(RuntimeEvent)
  BY DEF Inv, Typed, ReactorType, IngestionType
<1>2. /\ r \in ReactorType /\ r.domain = reactor.domain /\ r.runtime = reactor.runtime
      /\ r.work.op = reactor.work.op
      /\ r.work.op \notin Reverting => r.work = reactor.work
  BY <1>1, DisturbedKeeps, DisturbedFields
<1>3. /\ reactor'.domain = reactor.domain /\ reactor'.work = r.work
      /\ reactor'.runtime \in {reactor.runtime, Append(reactor.runtime, e)}
      /\ ingestion'.reading = ingestion.reading
      /\ ingestion'.queue \in {ingestion.queue, Append(ingestion.queue, e)}
  BY <1>1, <1>2 DEF Emit, ReactorType, IngestionType
<1>4. \A x : x \in Nat /\ x <= provider.last => x <= n
  OBVIOUS
<1>5. Upto(ingestion.queue, n) /\ Upto(ingestion.reading, n) /\ Upto(reactor.runtime, n)
  <2>1. ingestion.reading \in Seq(Reading)
    BY <1>1 DEF IngestionType
  <2> QED
    BY <1>1, <2>1, UptoMore, TurnsAreNat DEF TurnsBegun
<1>6. DomainUpto(reactor.domain, n) /\ WorkUpto(reactor.work, n)
  <2>1. \A i \in 1 .. Len(reactor.domain) :
          reactor.domain[i].type = "thread.turn-diff-completed" =>
            reactor.domain[i].checkpoint.turn \in Nat
    <3> SUFFICES ASSUME NEW i \in 1 .. Len(reactor.domain),
                        reactor.domain[i].type = "thread.turn-diff-completed"
                 PROVE  reactor.domain[i].checkpoint.turn \in Nat
      OBVIOUS
    <3>1. reactor.domain[i] \in DomainEvent
      BY <1>1 DEF ReactorType
    <3>2. reactor.domain[i].checkpoint \in Checkpoint
      BY <3>1 DEF DomainEvent
    <3> QED
      BY <3>2 DEF Checkpoint, Turns
  <2>2. reactor.work.op \in {"capture", "record"} => reactor.work.checkpoint.turn \in Nat
    BY <1>1, WorkOfOp DEF Checkpoint, Turns
  <2> QED
    BY <1>4, <2>1, <2>2 DEF TurnsBegun, DomainUpto, WorkUpto
<1>7. \A c \in memory.checkpoints : c.turn <= n
  BY <1>1, <1>4 DEF TurnsBegun, MemoryType, Checkpoint, Turns
<1>8. Upto(ingestion'.queue, n) /\ Upto(reactor'.runtime, n)
  BY <1>1, <1>3, <1>5, UptoAppend
<1>9. WorkUpto(reactor'.work, n)
  BY <1>2, <1>3, <1>6 DEF WorkUpto, Reverting
<1>10. /\ Upto(ingestion'.reading, n) /\ DomainUpto(reactor'.domain, n)
       /\ \A c \in memory'.checkpoints : c.turn <= n
  BY <1>3, <1>5, <1>6, <1>7
<1> QED
  BY <1>8, <1>9, <1>10 DEF TurnsBegun, Upto, DomainUpto, WorkUpto

\* What a record adds to the checkpoints and tells the reactor.
LEMMA RecordBegun ==
  ASSUME Inv, TurnsBegun, NEW c \in Checkpoint, c.turn <= provider.last, RecordCheckpoint(c)
  PROVE  /\ memory'.checkpoints \subseteq memory.checkpoints \cup {c}
         /\ \A d \in memory'.checkpoints : d.turn <= provider.last
         /\ DomainUpto(Told(c).domain, provider.last)
         /\ Told(c).runtime = reactor.runtime /\ Told(c).work = reactor.work
<1>1. /\ memory \in MemoryType /\ reactor \in ReactorType /\ reactor.domain \in Seq(DomainEvent)
  BY DEF Inv, Typed, ReactorType
<1>2. memory'.checkpoints \subseteq memory.checkpoints \cup {c}
  BY <1>1 DEF RecordCheckpoint, MemoryType, InMemory
<1> DEFINE e == [type |-> "thread.turn-diff-completed", checkpoint |-> c]
<1>3. e \in DomainEvent /\ e.checkpoint = c
  BY DEF DomainEvent
<1>4. Told(c) = IF c.status # "missing" THEN reactor
                ELSE [reactor EXCEPT !.domain = Append(@, e)]
  BY DEF Told
<1> HIDE DEF e
<1>5. /\ Told(c).domain \in {reactor.domain, Append(reactor.domain, e)}
      /\ Told(c).runtime = reactor.runtime /\ Told(c).work = reactor.work
  BY <1>1, <1>4 DEF ReactorType
<1>6. DomainUpto(Append(reactor.domain, e), provider.last)
  BY <1>1, <1>3, DomainUptoAppend DEF TurnsBegun
<1> QED
  BY <1>2, <1>5, <1>6 DEF TurnsBegun

LEMMA UserAndProviderBegun ==
  ASSUME Inv, TurnsBegun, RequestTurn \/ StartTurn \/ Edit \/ EndTurn \/ RequestRevert
  PROVE  TurnsBegun'
<1>1. /\ provider \in ProviderType /\ reactor \in ReactorType /\ memory \in MemoryType
      /\ reactor.domain \in Seq(DomainEvent)
  BY DEF Inv, Typed, ReactorType
<1>2. ASSUME NEW e \in DomainEvent, e.type # "thread.turn-diff-completed",
             reactor' = [reactor EXCEPT !.domain = Append(@, e)],
             UNCHANGED <<ingestion, memory>>,
             provider'.last = provider.last, provider'.turn = provider.turn
      PROVE  TurnsBegun'
  <2>1. /\ reactor'.domain = Append(reactor.domain, e)
        /\ reactor'.runtime = reactor.runtime /\ reactor'.work = reactor.work
    BY <1>1, <1>2 DEF ReactorType
  <2>2. DomainUpto(Append(reactor.domain, e), provider.last)
    BY <1>1, <1>2, DomainUptoAppend DEF TurnsBegun
  <2> QED
    BY <1>2, <2>1, <2>2 DEF TurnsBegun, Upto, DomainUpto, WorkUpto
<1>3. CASE RequestTurn
  <2> DEFINE e == [type |-> "thread.turn-start-requested"]
  <2>1. e \in DomainEvent /\ e.type # "thread.turn-diff-completed"
    BY DEF DomainEvent
  <2>2. /\ reactor' = [reactor EXCEPT !.domain = Append(@, e)] /\ UNCHANGED <<ingestion, memory>>
        /\ provider' = [provider EXCEPT !.asked = @ + 1]
    BY <1>3 DEF RequestTurn
  <2> HIDE DEF e
  <2>3. provider'.last = provider.last /\ provider'.turn = provider.turn
    BY <1>1, <2>2 DEF ProviderType
  <2> QED
    BY <1>2, <2>1, <2>2, <2>3
<1>4. CASE RequestRevert
  <2>1. PICK n \in 0 .. MaxTurns - 1 :
          reactor' = [reactor EXCEPT
                        !.domain = Append(@, [type |-> "thread.checkpoint-revert-requested",
                                              turnCount |-> n])]
    BY <1>4 DEF RequestRevert
  <2> DEFINE e == [type |-> "thread.checkpoint-revert-requested", turnCount |-> n]
  <2>2. e \in DomainEvent /\ e.type # "thread.turn-diff-completed"
    <3>1. n \in Nat
      BY CheckpointAssumption
    <3> QED
      BY <3>1 DEF DomainEvent
  <2>3. /\ reactor' = [reactor EXCEPT !.domain = Append(@, e)]
        /\ UNCHANGED <<ingestion, memory, provider>>
    BY <1>4, <2>1 DEF RequestRevert
  <2> HIDE DEF e
  <2> QED
    BY <1>2, <2>2, <2>3
<1>5. /\ provider.turn \in 0 .. MaxTurns /\ provider.last \in 0 .. MaxTurns /\ MaxTurns \in Nat
  BY <1>1, CheckpointAssumption DEF ProviderType
<1>6. CASE StartTurn
  <2> DEFINE t == provider.last + 1
  <2>1. /\ provider' = [provider EXCEPT !.alive = TRUE, !.turn = t, !.last = t,
                                        !.conversation = Append(@, t)]
        /\ memory' = [memory EXCEPT !.active = IF provider.alive THEN @ ELSE 0]
        /\ Emit(Disturbed(reactor), Runtime("turn.started", t, "completed"))
    BY <1>6 DEF StartTurn
  <2>2. t \in Turns /\ t \in Nat /\ provider.last \in Nat /\ provider.last <= t
    BY <1>1, <1>5, <1>6, CheckpointAssumption DEF StartTurn, ProviderType, Turns
  <2> HIDE DEF t
  <2>3. provider'.turn = t /\ provider'.last = t /\ memory'.checkpoints = memory.checkpoints
    BY <1>1, <2>1 DEF ProviderType, MemoryType
  <2>4. /\ Runtime("turn.started", t, "completed") \in RuntimeEvent
        /\ Runtime("turn.started", t, "completed").turn = t
    BY <2>2 DEF Runtime, RuntimeEvent
  <2> QED
    BY <2>1, <2>2, <2>3, <2>4, EmitBegun
<1>7. CASE Edit
  <2> DEFINE t == provider.turn
             e == Runtime("turn.diff.updated", t, "completed")
  <2>1. /\ provider' = [provider EXCEPT !.edits[t] = @ + 1] /\ UNCHANGED memory /\ t # 0
        /\ \/ Emit(Disturbed(reactor), e)
           \/ reactor' = Disturbed(reactor) /\ UNCHANGED ingestion
    BY <1>7 DEF Edit
  <2>2. t \in Turns
    BY <1>5, <2>1 DEF Turns
  <2>3. e \in RuntimeEvent /\ e.turn = t
    BY <2>2 DEF Runtime, RuntimeEvent
  <2> HIDE DEF e
  <2>4. provider'.turn = t /\ provider'.last = provider.last
    BY <1>1, <2>1 DEF ProviderType
  <2> HIDE DEF t
  <2>5. t <= provider.last
    BY DEF TurnsBegun, t
  <2> QED
    BY <1>5, <2>1, <2>3, <2>4, <2>5, EmitBegun
<1>8. CASE EndTurn
  <2> DEFINE t == provider.turn
             e == Runtime("turn.completed", t, Outcome[t])
  <2>1. /\ provider' = [provider EXCEPT !.turn = 0] /\ UNCHANGED memory /\ t # 0
        /\ Emit(reactor, e)
    BY <1>8 DEF EndTurn
  <2>2. t \in Turns
    BY <1>5, <2>1 DEF Turns
  <2>3. e \in RuntimeEvent /\ e.turn = t
    BY <2>2, CheckpointAssumption DEF Runtime, RuntimeEvent, Turns
  <2> HIDE DEF e
  <2>4. provider'.turn = 0 /\ provider'.last = provider.last
    BY <1>1, <2>1 DEF ProviderType
  <2>5. t <= provider.last
    BY DEF TurnsBegun
  <2> QED
    BY <1>5, <2>1, <2>3, <2>4, <2>5, EmitBegun
<1> QED
  BY <1>3, <1>4, <1>6, <1>7, <1>8

LEMMA IngestBegun == ASSUME Inv, TurnsBegun, Ingest PROVE TurnsBegun'
<1>1. /\ Typed /\ reactor \in ReactorType /\ memory \in MemoryType /\ ingestion \in IngestionType
      /\ ingestion.queue \in Seq(RuntimeEvent) /\ ingestion.reading \in Seq(Reading)
  BY DEF Inv, Typed, IngestionType
<1>2. CASE IngestLifecycle
  <2>1. /\ ingestion.queue # <<>> /\ ingestion'.queue = Tail(ingestion.queue)
        /\ ingestion'.reading = ingestion.reading /\ memory'.checkpoints = memory.checkpoints
        /\ UNCHANGED <<provider, reactor>>
    BY <1>1, <1>2 DEF IngestLifecycle, IngestionType, MemoryType
  <2>2. Upto(Tail(ingestion.queue), provider.last)
    BY <1>1, <2>1, UptoTail DEF TurnsBegun
  <2> QED
    BY <2>1, <2>2 DEF TurnsBegun, Upto, DomainUpto, WorkUpto
<1>3. CASE IngestDiffRead
  <2> DEFINE t == Head(ingestion.queue).turn
             read == [turn |-> t, count |-> CurrentTurnCount(memory.checkpoints) + 1]
  <2>1. /\ ingestion.queue # <<>> /\ ingestion'.queue = Tail(ingestion.queue)
        /\ ingestion'.reading = IF OfTurn(memory.checkpoints, t) # {} THEN <<>> ELSE <<read>>
        /\ UNCHANGED <<provider, reactor, memory>>
    BY <1>3 DEF IngestDiffRead
  <2>2. Upto(Tail(ingestion.queue), provider.last) /\ read.turn <= provider.last
    BY <1>1, <2>1, UptoTail DEF TurnsBegun
  <2> HIDE DEF t, read
  <2>3. Upto(ingestion'.reading, provider.last)
    BY <2>1, <2>2 DEF Upto
  <2> QED
    BY <2>1, <2>2, <2>3 DEF TurnsBegun, Upto, DomainUpto, WorkUpto
<1>5. CASE IngestDiffRecord /\ UNCHANGED <<memory, past, reactor>>
  <2>1. /\ ingestion'.queue = ingestion.queue /\ ingestion'.reading = <<>> /\ UNCHANGED provider
    BY <1>1, <1>5 DEF IngestDiffRecord, IngestionType
  <2> QED
    BY <1>5, <2>1, UptoEmpty DEF TurnsBegun, Upto, DomainUpto, WorkUpto
<1>4. CASE IngestDiffRecord /\ ~UNCHANGED <<memory, past, reactor>>
  <2> DEFINE c == [turn |-> Head(ingestion.reading).turn, count |-> Head(ingestion.reading).count,
                   status |-> "missing", captured |-> FALSE]
  <2>1. /\ ingestion.reading # <<>> /\ ingestion' = [ingestion EXCEPT !.reading = <<>>]
        /\ RecordCheckpoint(c) /\ reactor' \in {Told(c), Disturbed(Told(c))} /\ UNCHANGED provider
    BY <1>4 DEF IngestDiffRecord
  <2>2. c \in Checkpoint /\ c.turn <= provider.last
    <3>1. Head(ingestion.reading) \in Reading
      BY <1>1, <2>1, HeadsTyped
    <3>2. Head(ingestion.reading).turn <= provider.last
      BY <1>1, <2>1, UptoTail DEF TurnsBegun
    <3> QED
      BY <3>1, <3>2 DEF Reading, Checkpoint
  <2> HIDE DEF c
  <2>3. ingestion'.queue = ingestion.queue /\ ingestion'.reading = <<>>
    BY <1>1, <2>1 DEF IngestionType
  <2>4. /\ \A d \in memory'.checkpoints : d.turn <= provider.last
        /\ DomainUpto(Told(c).domain, provider.last)
        /\ Told(c).runtime = reactor.runtime /\ Told(c).work = reactor.work
    BY <2>1, <2>2, RecordBegun
  <2>5. /\ reactor'.domain = Told(c).domain /\ reactor'.runtime = reactor.runtime
        /\ reactor'.work.op = reactor.work.op
        /\ reactor.work.op \notin Reverting => reactor'.work = reactor.work
    <3>1. Told(c) \in ReactorType
      BY <1>1, <2>2, ToldKeeps
    <3> QED
      BY <2>1, <2>4, <3>1, DisturbedFields
  <2>6. WorkUpto(reactor'.work, provider.last)
    BY <2>5 DEF TurnsBegun, WorkUpto, Reverting
  <2> QED
    BY <2>1, <2>3, <2>4, <2>5, <2>6, UptoEmpty DEF TurnsBegun, Upto, DomainUpto, WorkUpto
<1> QED
  BY <1>2, <1>3, <1>4, <1>5 DEF Ingest

\* The worker goes on with w, having taken an event or none.
LEMMA WorkBegun ==
  ASSUME Inv, TurnsBegun, NEW w, WorkUpto(w, provider.last),
         reactor'.work = w, UNCHANGED ingestion,
         provider'.last = provider.last, provider'.turn = provider.turn,
         memory'.checkpoints \subseteq memory.checkpoints,
         \/ reactor'.domain = reactor.domain
         \/ reactor.domain # <<>> /\ reactor'.domain = Tail(reactor.domain),
         \/ reactor'.runtime = reactor.runtime
         \/ reactor.runtime # <<>> /\ reactor'.runtime = Tail(reactor.runtime)
  PROVE  TurnsBegun'
<1>1. reactor.domain \in Seq(DomainEvent) /\ reactor.runtime \in Seq(RuntimeEvent)
  BY DEF Inv, Typed, ReactorType
<1>2. Upto(reactor'.runtime, provider.last) /\ DomainUpto(reactor'.domain, provider.last)
  BY <1>1, UptoTail, DomainUptoTail DEF TurnsBegun
<1> QED
  BY <1>2 DEF TurnsBegun, Upto, DomainUpto, WorkUpto

LEMMA CaptureBegun ==
  ASSUME Inv, TurnsBegun,
         TakeBaseline \/ CaptureBaseline \/ TakeCompletion \/ TakePlaceholder
           \/ CaptureFiles \/ RecordCapture
  PROVE  TurnsBegun'
<1>1. /\ Typed /\ reactor \in ReactorType /\ memory \in MemoryType
      /\ reactor.domain \in Seq(DomainEvent) /\ reactor.runtime \in Seq(RuntimeEvent)
  BY DEF Inv, Typed, ReactorType
<1>2. UNCHANGED <<provider, ingestion>>
  BY DEF TakeBaseline, CaptureBaseline, TakeCompletion, TakePlaceholder, CaptureFiles, RecordCapture
<1>3. WorkUpto(Idle, provider.last)
  BY IdleIsWork DEF WorkUpto
<1>4. CASE TakeBaseline
  <2> DEFINE n == CurrentTurnCount(memory.checkpoints)
             w == IF n \in DOMAIN refs THEN Idle ELSE [op |-> "baseline", count |-> n]
  <2>1. /\ UNCHANGED memory
        /\ \/ reactor.domain # <<>> /\ DomainDone(w)
           \/ reactor.runtime # <<>> /\ RuntimeDone(w)
    BY <1>4 DEF TakeBaseline, FromDomain, FromRuntime
  <2>2. WorkUpto(w, provider.last)
    BY <1>3 DEF WorkUpto
  <2> HIDE DEF w
  <2>3. /\ reactor'.work = w
        /\ \/ reactor'.domain = reactor.domain
           \/ reactor.domain # <<>> /\ reactor'.domain = Tail(reactor.domain)
        /\ \/ reactor'.runtime = reactor.runtime
           \/ reactor.runtime # <<>> /\ reactor'.runtime = Tail(reactor.runtime)
    BY <1>1, <2>1 DEF DomainDone, RuntimeDone, ReactorType
  <2> QED
    BY <1>2, <2>1, <2>2, <2>3, WorkBegun
<1>5. CASE CaptureBaseline
  <2>1. /\ UNCHANGED memory /\ reactor'.work = Idle /\ reactor'.domain = reactor.domain
        /\ reactor'.runtime = reactor.runtime
    BY <1>1, <1>5 DEF CaptureBaseline, Busy, ReactorType
  <2> QED
    BY <1>2, <1>3, <2>1, WorkBegun
<1>6. CASE TakeCompletion
  <2>1. /\ reactor.runtime # <<>> /\ UNCHANGED memory
        /\ Head(reactor.runtime).turn <= provider.last
    BY <1>1, <1>6, UptoTail DEF TakeCompletion, FromRuntime, TurnsBegun
  <2>2. \E w : RuntimeDone(w) /\ WorkUpto(w, provider.last)
    <3>1. CASE RuntimeDone(Idle)
      BY <1>3, <3>1
    <3>2. CASE ~RuntimeDone(Idle)
      <4>1. PICK n : RuntimeDone([op |-> "capture",
                        checkpoint |-> [turn |-> Head(reactor.runtime).turn, count |-> n,
                                        captured |-> TRUE,
                                        status |-> StatusFromRuntime(Head(reactor.runtime).state)]])
        BY <1>6, <3>2 DEF TakeCompletion
      <4> DEFINE c == [turn |-> Head(reactor.runtime).turn, count |-> n, captured |-> TRUE,
                       status |-> StatusFromRuntime(Head(reactor.runtime).state)]
                 w == [op |-> "capture", checkpoint |-> c]
      <4>2. c.turn <= provider.last
        BY <2>1
      <4> HIDE DEF c
      <4>3. WorkUpto(w, provider.last)
        BY <4>2 DEF WorkUpto
      <4> QED
        BY <4>1, <4>3 DEF c
    <3> QED
      BY <3>1, <3>2
  <2>3. PICK w : RuntimeDone(w) /\ WorkUpto(w, provider.last)
    BY <2>2
  <2>4. /\ reactor'.work = w /\ reactor'.domain = reactor.domain
        /\ reactor'.runtime = Tail(reactor.runtime)
    BY <1>1, <2>3 DEF RuntimeDone, ReactorType
  <2> QED
    BY <1>2, <2>1, <2>3, <2>4, WorkBegun
<1>7. CASE TakePlaceholder
  <2> DEFINE c == Head(reactor.domain).checkpoint
             d == [c EXCEPT !.status = "ready", !.captured = TRUE]
             w == IF HasCaptured(memory.checkpoints, c.turn) THEN Idle
                  ELSE [op |-> "capture", checkpoint |-> d]
  <2>1. /\ UNCHANGED memory /\ DomainDone(w) /\ reactor.domain # <<>>
        /\ Head(reactor.domain).type = "thread.turn-diff-completed"
    BY <1>7 DEF TakePlaceholder, FromDomain
  <2>2. d.turn = c.turn /\ c.turn <= provider.last
    <3>1. c \in Checkpoint
      BY <1>1, <2>1, HeadsTyped DEF DomainEvent
    <3> QED
      BY <1>1, <2>1, <3>1, DomainUptoTail DEF Checkpoint, TurnsBegun
  <2> HIDE DEF d
  <2>3. WorkUpto(w, provider.last)
    BY <1>3, <2>2 DEF WorkUpto
  <2> HIDE DEF w
  <2>4. /\ reactor'.work = w /\ reactor'.domain = Tail(reactor.domain)
        /\ reactor'.runtime = reactor.runtime
    BY <1>1, <2>1 DEF DomainDone, ReactorType
  <2> QED
    BY <1>2, <2>1, <2>3, <2>4, WorkBegun
<1>8. CASE CaptureFiles
  <2>1. reactor.work \in [op : {"capture", "record"}, checkpoint : Checkpoint]
    BY <1>1, <1>8, WorkOfOp DEF CaptureFiles
  <2>2. WorkUpto([reactor.work EXCEPT !.op = "record"], provider.last)
    BY <2>1 DEF TurnsBegun, WorkUpto
  <2>3. \E w \in {Idle, [reactor.work EXCEPT !.op = "record"]} : Busy(w)
    BY <1>8 DEF CaptureFiles, CaptureFails
  <2>4. PICK w : Busy(w) /\ WorkUpto(w, provider.last)
    BY <1>3, <2>2, <2>3
  <2>5. /\ reactor'.work = w /\ reactor'.domain = reactor.domain
        /\ reactor'.runtime = reactor.runtime
    BY <1>1, <2>4 DEF Busy, ReactorType
  <2>6. UNCHANGED memory
    BY <1>8 DEF CaptureFiles
  <2> QED
    BY <1>2, <2>4, <2>5, <2>6, WorkBegun
<1>9. CASE RecordCapture
  <2> DEFINE c == reactor.work.checkpoint
  <2>1. c \in Checkpoint /\ c.turn <= provider.last
    BY <1>1, <1>9, WorkOfOp DEF RecordCapture, TurnsBegun, WorkUpto
  <2>2. CASE Busy(Idle) /\ UNCHANGED memory
    <3>1. /\ reactor'.work = Idle /\ reactor'.domain = reactor.domain
          /\ reactor'.runtime = reactor.runtime
      BY <1>1, <2>2 DEF Busy, ReactorType
    <3> QED
      BY <1>2, <1>3, <2>2, <3>1, WorkBegun
  <2>3. CASE RecordCheckpoint(c) /\ reactor' = [Told(c) EXCEPT !.work = Idle]
    <3> HIDE DEF c
    <3>1. /\ \A d \in memory'.checkpoints : d.turn <= provider.last
          /\ DomainUpto(Told(c).domain, provider.last)
          /\ Told(c).runtime = reactor.runtime /\ Told(c).work = reactor.work
      BY <2>1, <2>3, RecordBegun
    <3>2. Told(c) \in ReactorType
      BY <1>1, <2>1, ToldKeeps
    <3>3. /\ reactor'.domain = Told(c).domain /\ reactor'.runtime = reactor.runtime
          /\ reactor'.work = Idle
      BY <2>3, <3>1, <3>2 DEF ReactorType
    <3> QED
      BY <1>2, <1>3, <3>1, <3>3 DEF TurnsBegun, Upto, DomainUpto, WorkUpto
  <2> QED
    BY <1>9, <2>2, <2>3 DEF RecordCapture, CaptureFails
<1> QED
  BY <1>4, <1>5, <1>6, <1>7, <1>8, <1>9

LEMMA RevertBegun ==
  ASSUME Inv, TurnsBegun,
         TakeRevert \/ RestoreFiles \/ RollbackConversation \/ DeleteRefs \/ CompleteRevert
  PROVE  TurnsBegun'
<1>1. /\ Typed /\ reactor \in ReactorType /\ memory \in MemoryType /\ provider \in ProviderType
  BY DEF Inv, Typed
<1>2. \E w : /\ w.op \notin {"capture", "record"}
             /\ Busy(w) \/ (reactor.domain # <<>> /\ DomainDone(w))
  <2>1. ASSUME NEW op \in Reverting, reactor.work.op \in Reverting
        PROVE  [reactor.work EXCEPT !.op = op].op \notin {"capture", "record"}
    BY <1>1, <2>1, WorkOfOp DEF Reverting
  <2>2. CASE TakeRevert
    <3>1. CASE DomainDone(Idle)
      BY <2>2, <3>1, IdleIsWork DEF TakeRevert, FromDomain
    <3>2. CASE ~DomainDone(Idle)
      <4>1. PICK n, cs, b : DomainDone([op |-> "restore", turnCount |-> n, seen |-> cs, calm |-> b])
        BY <2>2, <3>2 DEF TakeRevert
      <4>2. [op |-> "restore", turnCount |-> n, seen |-> cs, calm |-> b].op = "restore"
        OBVIOUS
      <4>3. reactor.domain # <<>>
        BY <2>2 DEF TakeRevert, FromDomain
      <4> QED
        BY <4>1, <4>2, <4>3
    <3> QED
      BY <3>1, <3>2
  <2>3. CASE RestoreFiles \/ RollbackConversation \/ DeleteRefs \/ CompleteRevert
    <3>1. \/ Busy(Idle)
          \/ /\ reactor.work.op \in Reverting
             /\ \E op \in Reverting : Busy([reactor.work EXCEPT !.op = op])
      BY <2>3 DEF RestoreFiles, RollbackConversation, DeleteRefs, CompleteRevert, RevertFails,
                  Reverting
    <3> QED
      BY <2>1, <3>1, IdleIsWork
  <2> QED
    BY <2>2, <2>3
<1>3. PICK w : /\ w.op \notin {"capture", "record"}
               /\ Busy(w) \/ (reactor.domain # <<>> /\ DomainDone(w))
  BY <1>2
<1>4. /\ reactor'.work = w /\ reactor'.runtime = reactor.runtime
      /\ \/ reactor'.domain = reactor.domain
         \/ reactor.domain # <<>> /\ reactor'.domain = Tail(reactor.domain)
  BY <1>1, <1>3 DEF Busy, DomainDone, ReactorType
<1>5. memory'.checkpoints \subseteq memory.checkpoints
  BY <1>1 DEF TakeRevert, RestoreFiles, RollbackConversation, DeleteRefs, CompleteRevert, Kept,
              MemoryType
<1>6. UNCHANGED ingestion /\ provider'.last = provider.last /\ provider'.turn = provider.turn
  BY <1>1 DEF TakeRevert, RestoreFiles, RollbackConversation, DeleteRefs, CompleteRevert,
              ProviderType
<1>7. WorkUpto(w, provider.last)
  BY <1>3 DEF WorkUpto
<1> QED
  BY <1>4, <1>5, <1>6, <1>7, WorkBegun

LEMMA StepBegun == ASSUME Inv, TurnsBegun, [Next]_vars PROVE TurnsBegun'
<1>1. CASE UNCHANGED vars
  BY <1>1 DEF vars, TurnsBegun, Upto, DomainUpto, WorkUpto
<1>2. CASE Crash
  <2>1. /\ reactor'.domain = <<>> /\ reactor'.runtime = <<>> /\ reactor'.work = Idle
        /\ ingestion'.queue = <<>> /\ ingestion'.reading = <<>> /\ UNCHANGED memory
        /\ provider'.turn = 0 /\ provider'.last = provider.last /\ provider.last \in Nat
    BY <1>2, CheckpointAssumption DEF Crash, Inv, Typed, ProviderType
  <2> QED
    BY <2>1, UptoEmpty, IdleIsWork DEF TurnsBegun, Upto, DomainUpto, WorkUpto
<1> QED
  BY <1>1, <1>2, UserAndProviderBegun, IngestBegun, CaptureBegun, RevertBegun DEF Next, React

EditsOf(t) == {t} \X (1 .. provider.edits[t])

\* The ref of c has all its turn's edits, and there will be no more.
Whole(c) ==
    c.turn \notin past.early =>
      c.turn # provider.turn /\ c.count \in DOMAIN refs /\ EditsOf(c.turn) \subseteq refs[c.count]

\* As long as nothing is reverted no edit is lost, and captures have them.
CompleteInv ==
    past.asked = 0 =>
      /\ \A t \in Turns : EditsOf(t) \subseteq files
      /\ \A c \in memory.checkpoints : c.captured => Whole(c)
      /\ reactor.work.op = "record" => Whole(reactor.work.checkpoint)

LEMMA InitComplete == Init => CompleteInv
<1> SUFFICES ASSUME Init PROVE CompleteInv
  OBVIOUS
<1>1. memory.checkpoints = {} /\ reactor.work.op = "idle"
  BY IdleIsWork DEF Init
<1>2. \A t \in Turns : 1 .. provider.edits[t] = {}
  BY DEF Init
<1> QED
  BY <1>1, <1>2 DEF CompleteInv, EditsOf

\* As long as nothing is reverted, no revert is under way or in the queue.
LEMMA NoRevertYet ==
  ASSUME Inv, OpenInv, past.asked = 0
  PROVE  /\ reactor.work.op \notin Reverting
         /\ ~FromDomain("thread.checkpoint-revert-requested")
<1> DEFINE k == Cardinality(RevertsIn(reactor.domain))
           one == IF reactor.work.op \in Reverting THEN 1 ELSE 0
<1>1. Typed /\ Over \in Nat /\ reactor.domain \in Seq(DomainEvent)
  BY DEF Inv, Typed, PastType, ReactorType, Over
<1>2. k \in Nat /\ one \in Nat /\ 0 = Over + k + one
  BY <1>1, RevertsInFinite DEF OpenInv, RevertsCounted
<1> HIDE DEF k, one
<1>3. k = 0 /\ one = 0
  BY <1>1, <1>2
<1>4. reactor.work.op \notin Reverting
  BY <1>3 DEF one
<1>5. ASSUME FromDomain("thread.checkpoint-revert-requested") PROVE FALSE
  <2> DEFINE later == Cardinality(RevertsIn(Tail(reactor.domain)))
  <2>1. reactor.domain # <<>> /\ Head(reactor.domain).type = "thread.checkpoint-revert-requested"
    BY <1>5 DEF FromDomain
  <2>2. k = later + 1
    BY <1>1, <2>1, RevertsInTail DEF k
  <2>3. later \in Nat
    BY <1>1, <2>1, HeadTailIn, RevertsInFinite
  <2> HIDE DEF later
  <2> QED
    BY <1>3, <2>2, <2>3
<1> QED
  BY <1>4, <1>5

\* Steps that only take checkpoints away, keep files, refs and edits, and let no
\* turn that has a capture run.
LEMMA CompleteQuiet ==
  ASSUME CompleteInv, UNCHANGED <<files, refs>>,
         past'.asked = past.asked, past'.early = past.early, provider'.edits = provider.edits,
         \A c \in memory'.checkpoints : c.captured => c \in memory.checkpoints,
         reactor'.work.op = "record" =>
           reactor.work.op = "record" /\ reactor'.work.checkpoint = reactor.work.checkpoint,
         \/ provider'.turn = provider.turn
         \/ /\ \A c \in memory.checkpoints : c.turn # provider'.turn
            /\ reactor.work.op = "record" => reactor.work.checkpoint.turn # provider'.turn
  PROVE  CompleteInv'
<1>1. ASSUME past.asked = 0 PROVE (\A t \in Turns : EditsOf(t) \subseteq files)'
  BY <1>1 DEF CompleteInv, EditsOf
<1>2. ASSUME NEW c, Whole(c), provider'.turn = provider.turn \/ c.turn # provider'.turn
      PROVE  Whole(c)'
  BY <1>2 DEF Whole, EditsOf
<1>3. ASSUME past.asked = 0 PROVE (\A c \in memory.checkpoints : c.captured => Whole(c))'
  BY <1>2, <1>3 DEF CompleteInv
<1>4. ASSUME past.asked = 0 PROVE (reactor.work.op = "record" => Whole(reactor.work.checkpoint))'
  BY <1>4 DEF CompleteInv, Whole, EditsOf
<1> QED
  BY <1>1, <1>3, <1>4 DEF CompleteInv

\* A turn that begins has no checkpoint and no capture under way.
LEMMA StartTurnComplete == ASSUME Inv, TurnsBegun, CompleteInv, StartTurn PROVE CompleteInv'
<1>1. /\ Typed /\ provider \in ProviderType /\ reactor \in ReactorType /\ memory \in MemoryType
      /\ provider.last \in Nat
  BY CheckpointAssumption DEF Inv, Typed, ProviderType
<1> DEFINE t == provider.last + 1
<1>2. /\ provider' = [provider EXCEPT !.alive = TRUE, !.turn = t, !.last = t,
                                      !.conversation = Append(@, t)]
      /\ memory' = [memory EXCEPT !.active = IF provider.alive THEN @ ELSE 0]
      /\ Emit(Disturbed(reactor), Runtime("turn.started", t, "completed"))
      /\ UNCHANGED <<files, refs, past>>
  BY DEF StartTurn
<1>3. t \in Nat /\ \A x \in Nat : x <= provider.last => x # t
  BY <1>1
<1> HIDE DEF t
<1>4. /\ provider'.turn = t /\ provider'.edits = provider.edits
      /\ memory'.checkpoints = memory.checkpoints
  BY <1>1, <1>2 DEF ProviderType, MemoryType
<1>5. reactor'.work = Disturbed(reactor).work
  BY <1>1, <1>2, DisturbedKeeps DEF Emit, ReactorType
<1>6. reactor'.work.op = "record" =>
        reactor.work.op = "record" /\ reactor'.work.checkpoint = reactor.work.checkpoint
  BY <1>1, <1>5, DisturbedKeeps
<1>7. \A c \in memory.checkpoints : c.turn # t
  BY <1>1, <1>3, TurnsAreNat DEF TurnsBegun, MemoryType
<1>8. reactor.work.op = "record" => reactor.work.checkpoint.turn # t
  BY <1>1, <1>3, TurnsAreNat, WorkOfOp DEF TurnsBegun, WorkUpto
<1> QED
  BY <1>2, <1>4, <1>6, <1>7, <1>8, CompleteQuiet

\* An edit adds to the files what it adds to its turn's edits, of which no
\* capture claims to be whole.
LEMMA EditComplete == ASSUME Inv, CompleteInv, Edit PROVE CompleteInv'
<1> DEFINE t == provider.turn
           k == provider.edits[t]
<1>1. /\ Typed /\ provider \in ProviderType /\ reactor \in ReactorType
  BY DEF Inv, Typed
<1>2. /\ t # 0 /\ provider' = [provider EXCEPT !.edits[t] = @ + 1]
      /\ files' = files \cup {<<t, k + 1>>} /\ UNCHANGED <<refs, memory, past>>
      /\ reactor'.work = Disturbed(reactor).work
  BY <1>1, DisturbedKeeps DEF Edit, Emit, ReactorType
<1>3. t \in Turns /\ k \in Nat
  <2>1. t \in Turns
    BY <1>1, <1>2 DEF ProviderType, Turns
  <2> QED
    BY <1>1, <2>1, CheckpointAssumption DEF ProviderType
<1>4. /\ provider'.turn = t /\ provider'.edits[t] = k + 1
      /\ \A u \in Turns : u # t => provider'.edits[u] = provider.edits[u]
  BY <1>1, <1>2, <1>3 DEF ProviderType
<1> HIDE DEF k
<1>5. past.asked = 0 /\ CompleteInv =>
        /\ \A u \in Turns : EditsOf(u) \subseteq files
        /\ \A c \in memory.checkpoints : c.captured => Whole(c)
        /\ reactor.work.op = "record" => Whole(reactor.work.checkpoint)
  BY DEF CompleteInv
<1>6. ASSUME past.asked = 0, NEW u \in Turns PROVE EditsOf(u)' \subseteq files'
  <2>1. EditsOf(u) \subseteq files
    BY <1>5, <1>6
  <2>2. CASE u # t
    BY <1>2, <1>4, <2>1, <2>2 DEF EditsOf
  <2>3. CASE u = t
    <3>1. 1 .. (k + 1) = (1 .. k) \cup {k + 1}
      BY <1>3
    <3> QED
      BY <1>2, <1>4, <2>1, <2>3, <3>1 DEF EditsOf, k
  <2> QED
    BY <2>2, <2>3
<1>7. ASSUME NEW c \in Checkpoint, Whole(c) PROVE Whole(c)'
  <2>1. c.turn \in Turns
    BY DEF Checkpoint
  <2> QED
    BY <1>2, <1>4, <1>7, <2>1 DEF Whole, EditsOf
<1>8. past.asked = 0 => (\A c \in memory.checkpoints : c.captured => Whole(c))'
  BY <1>1, <1>2, <1>5, <1>7 DEF Typed, MemoryType
<1>9. past.asked = 0 => (reactor.work.op = "record" => Whole(reactor.work.checkpoint))'
  <2> SUFFICES ASSUME past.asked = 0, reactor'.work.op = "record"
               PROVE  Whole(reactor.work.checkpoint)'
    OBVIOUS
  <2> DEFINE v == reactor.work.checkpoint
  <2>1. reactor.work.op = "record" /\ reactor'.work.checkpoint = v
    BY <1>1, <1>2, DisturbedKeeps
  <2>2. v \in Checkpoint /\ Whole(v)
    BY <1>1, <1>5, <2>1, WorkOfOp
  <2>3. v.turn \in Turns
    BY <2>2 DEF Checkpoint
  <2> HIDE DEF v
  <2> QED
    BY <1>2, <1>4, <2>1, <2>2, <2>3 DEF Whole, EditsOf
<1>10. past'.asked = past.asked
  BY <1>2
<1> QED
  BY <1>6, <1>8, <1>9, <1>10 DEF CompleteInv

\* A capture of all the files takes nothing from what is whole.
LEMMA WholeKept ==
  ASSUME NEW n, refs' = WithRef(n, files), UNCHANGED provider, past.early \subseteq past'.early,
         NEW c, Whole(c), EditsOf(c.turn) \subseteq files
  PROVE  Whole(c)'
<1>1. DOMAIN refs' = DOMAIN refs \cup {n}
      /\ \A m \in DOMAIN refs' : refs'[m] = IF m = n THEN files ELSE refs[m]
  BY DEF WithRef
<1> QED
  BY <1>1 DEF Whole, EditsOf

LEMMA CaptureComplete ==
  ASSUME Inv, CompleteInv,
         TakeBaseline \/ CaptureBaseline \/ TakeCompletion \/ TakePlaceholder
           \/ CaptureFiles \/ RecordCapture
  PROVE  CompleteInv'
<1>1. /\ Typed /\ reactor \in ReactorType /\ memory \in MemoryType /\ past \in PastType
  BY DEF Inv, Typed
<1>2. UNCHANGED <<provider, files>>
  BY DEF TakeBaseline, CaptureBaseline, TakeCompletion, TakePlaceholder, CaptureFiles, RecordCapture
<1>3. past.asked = 0 =>
        /\ \A t \in Turns : EditsOf(t) \subseteq files
        /\ \A c \in memory.checkpoints : c.captured /\ c.turn \in Turns => Whole(c)
  BY DEF CompleteInv
<1>4. \A c \in memory.checkpoints : c.turn \in Turns
  BY <1>1 DEF MemoryType, Checkpoint
<1>5. CASE TakeBaseline \/ TakeCompletion \/ TakePlaceholder
  <2>1. UNCHANGED <<refs, memory, past>>
    BY <1>5 DEF TakeBaseline, TakeCompletion, TakePlaceholder
  <2>2. reactor'.work.op # "record"
    <3>1. \A w : DomainDone(w) \/ RuntimeDone(w) => reactor'.work = w
      BY <1>1 DEF DomainDone, RuntimeDone, ReactorType
    <3>2. \E w : (DomainDone(w) \/ RuntimeDone(w)) /\ w.op # "record"
      <4>1. CASE TakeBaseline
        <5> DEFINE n == CurrentTurnCount(memory.checkpoints)
                   w == IF n \in DOMAIN refs THEN Idle ELSE [op |-> "baseline", count |-> n]
        <5>1. DomainDone(w) \/ RuntimeDone(w)
          BY <4>1 DEF TakeBaseline
        <5>2. w.op # "record"
          BY IdleIsWork
        <5> QED
          BY <5>1, <5>2
      <4>2. CASE TakeCompletion \/ TakePlaceholder
        <5>1. \/ DomainDone(Idle) \/ RuntimeDone(Idle)
              \/ \E v : DomainDone([op |-> "capture", checkpoint |-> v])
                        \/ RuntimeDone([op |-> "capture", checkpoint |-> v])
          BY <4>2 DEF TakeCompletion, TakePlaceholder
        <5>2. \A v : [op |-> "capture", checkpoint |-> v].op # "record"
          OBVIOUS
        <5> QED
          BY <5>1, <5>2, IdleIsWork
      <4> QED
        BY <1>5, <4>1, <4>2
    <3> QED
      BY <3>1, <3>2
  <2> QED
    BY <1>2, <2>1, <2>2, CompleteQuiet
<1>6. CASE CaptureBaseline
  <2>1. UNCHANGED <<memory, past>> /\ reactor'.work.op = "idle"
    BY <1>1, <1>6, IdleIsWork DEF CaptureBaseline, Busy, ReactorType
  <2>2. CASE UNCHANGED refs
    BY <1>2, <2>1, <2>2, CompleteQuiet
  <2>3. CASE refs' = WithRef(reactor.work.count, files)
    <3>1. past.asked = 0 => \A c \in memory.checkpoints : c.captured => Whole(c)'
      BY <1>2, <1>3, <1>4, <2>1, <2>3, WholeKept
    <3> QED
      BY <1>2, <1>3, <2>1, <3>1 DEF CompleteInv, EditsOf
  <2> QED
    BY <1>6, <2>2, <2>3 DEF CaptureBaseline
<1> DEFINE v == reactor.work.checkpoint
<1>7. CASE CaptureFiles
  <2>1. reactor.work \in [op : {"capture", "record"}, checkpoint : Checkpoint] /\ UNCHANGED memory
    BY <1>1, <1>7, WorkOfOp DEF CaptureFiles
  <2>2. CASE CaptureFails /\ UNCHANGED refs
    <3>1. /\ reactor'.work.op = "idle" /\ past'.asked = past.asked /\ past'.early = past.early
      BY <1>1, <2>2, IdleIsWork DEF Busy, CaptureFails, ReactorType, PastType
    <3> QED
      BY <1>2, <2>1, <2>2, <3>1, CompleteQuiet
  <2>3. CASE /\ refs' = WithRef(v.count, files)
             /\ Busy([reactor.work EXCEPT !.op = "record"])
             /\ past' = [past EXCEPT !.deleted = @ \ {v.count},
                                     !.early = @ \cup ({v.turn} \cap {provider.turn})]
    <3>1. v \in Checkpoint /\ v.turn \in Turns
      BY <2>1 DEF Checkpoint
    <3>2. reactor'.work.op = "record" /\ reactor'.work.checkpoint = v
      BY <1>1, <2>1, <2>3 DEF Busy, ReactorType
    <3> HIDE DEF v
    <3>3. /\ past'.asked = past.asked
          /\ past'.early = past.early \cup ({v.turn} \cap {provider.turn})
      BY <1>1, <2>3 DEF PastType
    <3>4. past.asked = 0 => \A c \in memory.checkpoints : c.captured => Whole(c)'
      BY <1>2, <1>3, <1>4, <2>3, <3>3, WholeKept
    <3>5. v.count \in DOMAIN refs' /\ refs'[v.count] = files
      BY <2>3 DEF WithRef
    <3>6. PICK d : d = v
      OBVIOUS
    <3>7. past.asked = 0 => Whole(d)'
      BY <1>2, <1>3, <3>1, <3>3, <3>5, <3>6 DEF Whole, EditsOf
    <3>8. past.asked = 0 => (reactor.work.op = "record" => Whole(reactor.work.checkpoint))'
      BY <3>2, <3>6, <3>7 DEF Whole, EditsOf
    <3> QED
      BY <1>2, <1>3, <2>1, <3>3, <3>4, <3>8 DEF CompleteInv, EditsOf
  <2> QED
    BY <1>7, <2>2, <2>3 DEF CaptureFiles
<1>8. CASE RecordCapture
  <2>1. /\ reactor.work.op = "record" /\ v \in Checkpoint /\ UNCHANGED refs
    BY <1>1, <1>8, WorkOfOp DEF RecordCapture
  <2>2. CASE CaptureFails /\ UNCHANGED memory
    <3>1. /\ reactor'.work.op = "idle" /\ past'.asked = past.asked /\ past'.early = past.early
      BY <1>1, <2>2, IdleIsWork DEF Busy, CaptureFails, ReactorType, PastType
    <3> QED
      BY <1>2, <2>1, <2>2, <3>1, CompleteQuiet
  <2>3. CASE RecordCheckpoint(v) /\ reactor' = [Told(v) EXCEPT !.work = Idle]
    <3>1. past.asked = 0 => Whole(v)
      BY <2>1 DEF CompleteInv
    <3> HIDE DEF v
    <3>2. /\ past'.asked = past.asked /\ past'.early = past.early
          /\ memory'.checkpoints \subseteq memory.checkpoints \cup {v}
      BY <1>1, <2>3 DEF RecordCheckpoint, InMemory, PastType, MemoryType
    <3>3. reactor'.work.op = "idle"
      <4>1. Told(v) \in ReactorType
        BY <1>1, <2>1, ToldKeeps
      <4> QED
        BY <2>3, <4>1, IdleIsWork DEF ReactorType
    <3>4. past.asked = 0 => \A c \in memory'.checkpoints : c.captured => Whole(c)
      BY <1>3, <1>4, <3>1, <3>2
    <3> QED
      BY <1>2, <1>3, <2>1, <3>2, <3>3, <3>4 DEF CompleteInv, Whole, EditsOf
  <2> QED
    BY <1>8, <2>2, <2>3 DEF RecordCapture
<1> QED
  BY <1>5, <1>6, <1>7, <1>8

LEMMA StepComplete ==
  ASSUME Inv, OpenInv, TurnsBegun, CompleteInv, [Next]_vars
  PROVE  CompleteInv'
<1>1. /\ Typed /\ provider \in ProviderType /\ reactor \in ReactorType /\ memory \in MemoryType
      /\ past \in PastType
  BY DEF Inv, Typed
<1>2. /\ \A c \in memory.checkpoints : c.turn # 0
      /\ reactor.work.op = "record" => reactor.work.checkpoint.turn # 0
  BY <1>1, WorkOfOp DEF MemoryType, Checkpoint, Turns
<1>3. CASE UNCHANGED vars
  BY <1>3 DEF vars, CompleteInv, Whole, EditsOf
<1>4. CASE RequestTurn \/ EndTurn
  <2>1. /\ UNCHANGED <<files, refs, memory, past>>
        /\ provider'.edits = provider.edits /\ provider'.turn \in {provider.turn, 0}
    BY <1>1, <1>4 DEF RequestTurn, EndTurn, ProviderType
  <2>2. reactor'.work = reactor.work
    BY <1>1, <1>4 DEF RequestTurn, EndTurn, Emit, ReactorType
  <2> QED
    BY <1>2, <2>1, <2>2, CompleteQuiet
<1>5. CASE RequestRevert
  <2>1. past'.asked = past.asked + 1 /\ past.asked \in Nat
    BY <1>1, <1>5 DEF RequestRevert, PastType
  <2>2. past'.asked # 0
    BY <2>1
  <2> QED
    BY <2>2 DEF CompleteInv
<1>6. CASE IngestLifecycle \/ IngestDiffRead
  <2>1. UNCHANGED <<provider, files, refs, reactor, past>> /\ memory'.checkpoints = memory.checkpoints
    BY <1>1, <1>6 DEF IngestLifecycle, IngestDiffRead, MemoryType
  <2> QED
    BY <2>1, CompleteQuiet
<1>10. CASE IngestDiffRecord /\ UNCHANGED <<memory, past, reactor>>
  <2>1. UNCHANGED <<provider, files, refs>>
    BY <1>10 DEF IngestDiffRecord
  <2> QED
    BY <1>10, <2>1, CompleteQuiet
<1>7. CASE IngestDiffRecord /\ ~UNCHANGED <<memory, past, reactor>>
  <2> DEFINE c == [turn |-> Head(ingestion.reading).turn, count |-> Head(ingestion.reading).count,
                   status |-> "missing", captured |-> FALSE]
  <2>1. /\ RecordCheckpoint(c) /\ reactor' \in {Told(c), Disturbed(Told(c))}
        /\ UNCHANGED <<provider, files, refs>> /\ ~c.captured
    BY <1>7 DEF IngestDiffRecord
  <2>2. c \in Checkpoint
    <3>1. Head(ingestion.reading) \in Reading
      BY <1>1, <1>7, HeadsTyped DEF IngestDiffRecord
    <3> QED
      BY <3>1 DEF Reading, Checkpoint
  <2> HIDE DEF c
  <2>3. /\ past'.asked = past.asked /\ past'.early = past.early
        /\ memory'.checkpoints \subseteq memory.checkpoints \cup {c}
    BY <1>1, <2>1 DEF RecordCheckpoint, InMemory, PastType, MemoryType
  <2>4. reactor'.work.op = "record" => reactor'.work = reactor.work /\ reactor.work.op = "record"
    <3>1. Told(c) \in ReactorType /\ Told(c).work = reactor.work
      BY <1>1, <2>2, ToldKeeps
    <3> QED
      BY <2>1, <3>1, DisturbedFields DEF Reverting
  <2> QED
    BY <2>1, <2>3, <2>4, CompleteQuiet
<1>8. CASE TakeRevert \/ RestoreFiles \/ RollbackConversation \/ DeleteRefs \/ CompleteRevert
  <2>1. \/ reactor.work.op \in Reverting
        \/ FromDomain("thread.checkpoint-revert-requested")
    BY <1>8 DEF TakeRevert, RestoreFiles, RollbackConversation, DeleteRefs, CompleteRevert, Reverting
  <2>2. past.asked # 0
    BY <2>1, NoRevertYet
  <2>3. past'.asked = past.asked
    <3>1. \/ UNCHANGED past \/ past' \in {Settled(past), Lost(past)}
          \/ \E s : past' = [Settled(past) EXCEPT !.deleted = s]
          \/ \E s : LET p == [past EXCEPT !.deleted = s] IN past' \in {p, Settled(p), Lost(p)}
      <4>1. CASE DeleteRefs
        BY <4>1 DEF DeleteRefs
      <4>2. CASE TakeRevert \/ RestoreFiles \/ RollbackConversation \/ CompleteRevert
        BY <4>2 DEF TakeRevert, RestoreFiles, RollbackConversation, CompleteRevert, RevertFails,
                    TellRefused
      <4> QED
        BY <1>8, <4>1, <4>2
    <3> QED
      BY <1>1, <3>1 DEF Settled, Lost, PastType
  <2> QED
    BY <2>2, <2>3 DEF CompleteInv
<1>9. CASE Crash
  <2>1. /\ UNCHANGED <<files, refs, memory>> /\ provider'.edits = provider.edits
        /\ provider'.turn = 0 /\ past'.asked = past.asked /\ past'.early = past.early
        /\ reactor'.work.op = "idle"
    BY <1>1, <1>9, IdleIsWork DEF Crash, ProviderType, PastType
  <2> QED
    BY <1>2, <2>1, CompleteQuiet
<1> QED
  BY <1>3, <1>4, <1>5, <1>6, <1>7, <1>8, <1>9, <1>10, StartTurnComplete, EditComplete, CaptureComplete
     DEF Next, Ingest, React

\* A capture that was not taken while its turn ran holds every edit of the turn, as
\* long as no revert is asked for: refs are written from the whole work tree
\* (captureCheckpoint), which nothing but a revert takes edits from.
THEOREM CapturesHoldEveryEdit == Spec => []CapturesAreComplete
<1>1. Init => Inv /\ OpenInv /\ TurnsBegun /\ CompleteInv
  BY InitInv, InitOpen, InitBegun, InitComplete
<1>2. Inv /\ OpenInv /\ TurnsBegun /\ CompleteInv /\ [Next]_vars
        => (Inv /\ OpenInv /\ TurnsBegun /\ CompleteInv)'
  BY NextInv, StepOpen, StepBegun, StepComplete
<1>3. CompleteInv => CapturesAreComplete
  BY DEF CompleteInv, CapturesAreComplete, Whole, EditsOf
<1> QED
  BY <1>1, <1>2, <1>3, PTL DEF Spec

---------------------------------------------------------------------------
(* A calm revert is whole.                                                 *)

LEMMA LargestExists ==
  ASSUME NEW cs \in SUBSET Checkpoint, NEW b \in Nat, \A c \in cs : c.count <= b, cs # {}
  PROVE  \E c \in cs : \A d \in cs : d.count <= c.count
<1> SUFFICES ASSUME \A c \in cs : \E d \in cs : ~(d.count <= c.count) PROVE FALSE
  OBVIOUS
<1> DEFINE S == {n \in Nat : \E c \in cs : n <= c.count}
<1>1. \A c \in cs : c.count \in Nat
  BY DEF Checkpoint
<1>2. 0 \in S
  BY <1>1
<1>3. \A n \in Nat : n \in S => n + 1 \in S
  <2> SUFFICES ASSUME NEW n \in Nat, NEW c \in cs, n <= c.count PROVE n + 1 \in S
    OBVIOUS
  <2>1. PICK d \in cs : ~(d.count <= c.count)
    OBVIOUS
  <2>2. n + 1 <= d.count
    BY <1>1, <2>1
  <2> QED
    BY <2>2
<1> HIDE DEF S
<1>4. b + 1 \in S
  BY <1>2, <1>3, Induction
<1>5. PICK c \in cs : b + 1 <= c.count
  BY <1>4 DEF S
<1> QED
  BY <1>1, <1>5

\* No checkpoint has a count above the current turn count.
LEMMA CurrentIsLargest ==
  ASSUME NEW cs \in SUBSET Checkpoint, NEW b \in Nat, \A c \in cs : c.count <= b
  PROVE  \A c \in cs : c.count <= CurrentTurnCount(cs)
<1> SUFFICES ASSUME NEW c \in cs PROVE c.count <= CurrentTurnCount(cs)
  OBVIOUS
<1>1. \E e \in cs : \A d \in cs : d.count <= e.count
  BY LargestExists
<1> QED
  BY <1>1 DEF CurrentTurnCount

CountsBounded == \E b \in Nat : \A c \in memory.checkpoints : c.count <= b

LEMMA StepBounded == ASSUME Inv, CountsBounded, [Next]_vars PROVE CountsBounded'
<1>1. /\ Typed /\ memory \in MemoryType
  BY DEF Inv, Typed
<1>2. ASSUME NEW c \in Checkpoint, memory'.checkpoints \subseteq memory.checkpoints \cup {c}
      PROVE  CountsBounded'
  <2>1. PICK b \in Nat : \A d \in memory.checkpoints : d.count <= b
    BY DEF CountsBounded
  <2>2. c.count \in Nat /\ \A d \in memory.checkpoints : d.count \in Nat
    BY <1>1 DEF Checkpoint, MemoryType
  <2>3. b + c.count \in Nat /\ c.count <= b + c.count
        /\ \A d \in memory.checkpoints : d.count <= b + c.count
    BY <2>1, <2>2
  <2> QED
    BY <1>2, <2>3 DEF CountsBounded
<1>3. ASSUME memory'.checkpoints \subseteq memory.checkpoints PROVE CountsBounded'
  BY <1>3 DEF CountsBounded
<1>4. ASSUME NEW c \in Checkpoint, RecordCheckpoint(c) PROVE CountsBounded'
  BY <1>1, <1>2, <1>4 DEF RecordCheckpoint, InMemory, MemoryType
<1>5. CASE IngestDiffRecord
  <2> DEFINE c == [turn |-> Head(ingestion.reading).turn, count |-> Head(ingestion.reading).count,
                   status |-> "missing", captured |-> FALSE]
  <2>1. c \in Checkpoint
    <3>1. Head(ingestion.reading) \in Reading
      BY <1>1, <1>5, HeadsTyped DEF IngestDiffRecord
    <3> QED
      BY <3>1 DEF Reading, Checkpoint
  <2>2. RecordCheckpoint(c) \/ UNCHANGED memory
    BY <1>5 DEF IngestDiffRecord
  <2> HIDE DEF c
  <2> QED
    BY <1>3, <1>4, <2>1, <2>2
<1>6. CASE RecordCapture
  <2>1. reactor.work.checkpoint \in Checkpoint
    BY <1>1, <1>6, WorkOfOp DEF RecordCapture
  <2>2. RecordCheckpoint(reactor.work.checkpoint) \/ UNCHANGED memory
    BY <1>6 DEF RecordCapture
  <2> QED
    BY <1>3, <1>4, <2>1, <2>2
<1>7. CASE CompleteRevert
  <2>1. memory'.checkpoints \subseteq memory.checkpoints
    BY <1>1, <1>7 DEF CompleteRevert, Kept, MemoryType
  <2> QED
    BY <1>3, <2>1
<1>8. CASE StartTurn \/ IngestLifecycle
  <2>1. memory'.checkpoints = memory.checkpoints
    BY <1>1, <1>8 DEF StartTurn, IngestLifecycle, MemoryType
  <2> QED
    BY <1>3, <2>1
<1>9. CASE \/ UNCHANGED vars \/ RequestTurn \/ Edit \/ EndTurn \/ RequestRevert \/ IngestDiffRead
           \/ TakeBaseline \/ CaptureBaseline \/ TakeCompletion \/ TakePlaceholder \/ CaptureFiles
           \/ TakeRevert \/ RestoreFiles \/ RollbackConversation \/ DeleteRefs \/ Crash
  <2>1. UNCHANGED memory
    BY <1>9 DEF vars, RequestTurn, Edit, EndTurn, RequestRevert, IngestDiffRead, TakeBaseline,
      CaptureBaseline, TakeCompletion, TakePlaceholder, CaptureFiles, TakeRevert, RestoreFiles,
      RollbackConversation, DeleteRefs, Crash
  <2> QED
    BY <1>3, <2>1
<1> QED
  BY <1>5, <1>6, <1>7, <1>8, <1>9 DEF Next, Ingest, React

Pairs(cs) == {<<c.turn, c.count>> : c \in cs}

\* The first n turns of the conversation with their counts.
Steps(n) == {<<provider.conversation[i], i>> : i \in 1 .. n}

\* Where a calm revert has come to: the checkpoints it will keep are those of the
\* turns it goes back to, and each thing it has done so far has been done right.
CalmInv ==
    reactor.work.op \in Reverting /\ reactor.work.calm =>
      LET n == reactor.work.turnCount IN
      /\ n <= Len(provider.conversation)
      /\ Pairs(Kept(memory.checkpoints, n)) = Steps(n)
      /\ reactor.work.op \in {"restore", "rollback"} =>
           CurrentTurnCount(reactor.work.seen) = Len(provider.conversation)
      /\ reactor.work.op \in {"delete", "complete"} => Len(provider.conversation) = n
      /\ reactor.work.op \in {"rollback", "delete", "complete"} => files = Restored(n)

\* In step, the current turn count is the length of the conversation.
LEMMA InStepCounts ==
  ASSUME Typed, InStep
  PROVE  /\ CurrentTurnCount(memory.checkpoints) = Len(provider.conversation)
         /\ \A n \in Nat : n <= Len(provider.conversation) =>
              Pairs(Kept(memory.checkpoints, n)) = Steps(n)
<1> DEFINE cs == memory.checkpoints
           conv == provider.conversation
           L == Len(conv)
<1>1. cs \in SUBSET Checkpoint /\ conv \in Seq(Turns) /\ L \in Nat
  BY DEF Typed, MemoryType, ProviderType
<1>2. {<<c.turn, c.count>> : c \in cs} = {<<conv[i], i>> : i \in 1 .. L}
  BY DEF InStep
<1>3. \A c \in cs : c.count \in 1 .. L /\ conv[c.count] = c.turn
  <2> SUFFICES ASSUME NEW c \in cs PROVE c.count \in 1 .. L /\ conv[c.count] = c.turn
    OBVIOUS
  <2>1. PICK i \in 1 .. L : <<c.turn, c.count>> = <<conv[i], i>>
    BY <1>2
  <2> QED
    BY <2>1
<1>4. \A i \in 1 .. L : \E c \in cs : c.turn = conv[i] /\ c.count = i
  <2> SUFFICES ASSUME NEW i \in 1 .. L PROVE \E c \in cs : c.turn = conv[i] /\ c.count = i
    OBVIOUS
  <2>1. <<conv[i], i>> \in {<<c.turn, c.count>> : c \in cs}
    BY <1>2
  <2> QED
    BY <2>1
<1> HIDE DEF cs, conv
<1>5. CurrentTurnCount(cs) = L
  <2>1. CASE L = 0
    <3>1. cs = {}
      BY <1>3, <2>1
    <3> QED
      BY <2>1, <3>1 DEF CurrentTurnCount
  <2>2. CASE L # 0
    <3>1. L \in 1 .. L
      BY <1>1, <2>2
    <3>2. PICK e \in cs : e.count = L
      BY <1>4, <3>1
    <3>3. \A d \in cs : d.count <= e.count
      BY <1>1, <1>3, <3>2
    <3>4. PICK m : /\ m = (CHOOSE c \in cs : \A d \in cs : d.count <= c.count)
                   /\ m \in cs /\ \A d \in cs : d.count <= m.count
      BY <3>3
    <3>5. m.count = L
      BY <1>1, <1>3, <3>2, <3>4
    <3> QED
      BY <3>3, <3>4, <3>5 DEF CurrentTurnCount
  <2> QED
    BY <2>1, <2>2
<1>6. ASSUME NEW n \in Nat, n <= L
      PROVE  {<<c.turn, c.count>> : c \in {c \in cs : c.count <= n}} = {<<conv[i], i>> : i \in 1 .. n}
  <2> DEFINE A == {<<c.turn, c.count>> : c \in {c \in cs : c.count <= n}}
             B == {<<conv[i], i>> : i \in 1 .. n}
  <2>1. ASSUME NEW x \in A PROVE x \in B
    <3>1. PICK c \in cs : c.count <= n /\ x = <<c.turn, c.count>>
      OBVIOUS
    <3>2. c.count \in 1 .. n /\ x = <<conv[c.count], c.count>>
      BY <1>1, <1>3, <3>1
    <3> QED
      BY <3>2
  <2>2. ASSUME NEW x \in B PROVE x \in A
    <3>1. PICK i \in 1 .. n : x = <<conv[i], i>>
      OBVIOUS
    <3>2. i \in 1 .. L /\ i <= n
      BY <1>1, <1>6
    <3>3. PICK c \in cs : c.turn = conv[i] /\ c.count = i
      BY <1>4, <3>2
    <3>4. c \in {d \in cs : d.count <= n} /\ x = <<c.turn, c.count>>
      BY <3>1, <3>2, <3>3
    <3> QED
      BY <3>4
  <2> QED
    BY <2>1, <2>2
<1> QED
  BY <1>5, <1>6 DEF Pairs, Kept, Steps, cs, conv

\* A placeholder with an up-to-date number changes nothing of what a calm revert
\* will keep.
LEMMA PlaceholderKeeps ==
  ASSUME Inv, OnePerTurn, CountsBounded, NEW n \in Nat,
         Pairs(Kept(memory.checkpoints, n)) = Steps(n),
         NEW c \in Checkpoint, c.status = "missing", RecordCheckpoint(c),
         c.count \in CountsFor(memory.checkpoints, c.turn)
  PROVE  Pairs(Kept(memory'.checkpoints, n)) = Pairs(Kept(memory.checkpoints, n))
<1> DEFINE cs == memory.checkpoints
           t == c.turn
<1>1. memory \in MemoryType /\ cs \in SUBSET Checkpoint
  BY DEF Inv, Typed, MemoryType
<1>2. memory'.checkpoints = InMemory(cs, c)
  BY <1>1 DEF RecordCheckpoint, MemoryType
<1>3. \A d, e \in cs : d.turn = e.turn => d = e
  BY DEF OnePerTurn
<1>4. CASE HasCaptured(cs, t)
  BY <1>2, <1>4 DEF InMemory
<1>5. CASE ~HasCaptured(cs, t)
  <2>1. memory'.checkpoints = {d \in cs : d.turn # t} \cup {c}
    BY <1>2, <1>5 DEF InMemory
  <2>2. CASE OfTurn(cs, t) # {}
    <3>1. PICK d \in cs : d.turn = t /\ c.count = d.count
      BY <2>2 DEF CountsFor, OfTurn
    <3>2. \A e \in cs : e = d \/ e.turn # t
      BY <1>3, <3>1
    <3> DEFINE cs2 == memory'.checkpoints
    <3>3. \A e \in cs2 : \E f \in cs : f.turn = e.turn /\ f.count = e.count
      BY <2>1, <3>1
    <3>4. \A f \in cs : \E e \in cs2 : f.turn = e.turn /\ f.count = e.count
      BY <2>1, <3>1, <3>2
    <3> HIDE DEF cs, cs2
    <3>5. Pairs(Kept(cs2, n)) \subseteq Pairs(Kept(cs, n))
      <4> SUFFICES ASSUME NEW e \in cs2, e.count <= n
                   PROVE  \E f \in cs : f.count <= n /\ <<e.turn, e.count>> = <<f.turn, f.count>>
        BY DEF Pairs, Kept
      <4> QED
        BY <3>3
    <3>6. Pairs(Kept(cs, n)) \subseteq Pairs(Kept(cs2, n))
      <4> SUFFICES ASSUME NEW e \in cs, e.count <= n
                   PROVE  \E f \in cs2 : f.count <= n /\ <<e.turn, e.count>> = <<f.turn, f.count>>
        BY DEF Pairs, Kept
      <4> QED
        BY <3>4
    <3> QED
      BY <3>5, <3>6 DEF cs, cs2
  <2>3. CASE OfTurn(cs, t) = {}
    <3>1. c.count = CurrentTurnCount(cs) + 1 /\ CurrentTurnCount(cs) \in Nat
      BY <1>1, <2>3, CurrentTurnCountIsNat DEF CountsFor
    <3>2. \A d \in cs : d.count <= CurrentTurnCount(cs)
      BY <1>1, CurrentIsLargest DEF CountsBounded
    <3>3. n <= CurrentTurnCount(cs)
      <4>1. CASE n = 0
        BY <3>1, <4>1
      <4>2. CASE n # 0
        <5>1. n \in 1 .. n
          BY <4>2
        <5>2. <<provider.conversation[n], n>> \in Pairs(Kept(cs, n))
          BY <5>1 DEF Steps
        <5>3. PICK d \in cs : d.count = n
          BY <5>2 DEF Pairs, Kept
        <5> QED
          BY <3>2, <5>3
      <4> QED
        BY <4>1, <4>2
    <3>4. ~(c.count <= n)
      BY <3>1, <3>3
    <3>5. {d \in cs : d.turn # t} = cs
      BY <2>3 DEF OfTurn
    <3>6. Kept(memory'.checkpoints, n) = Kept(cs, n)
      BY <2>1, <3>4, <3>5 DEF Kept
    <3> QED
      BY <3>6
  <2> QED
    BY <2>2, <2>3
<1> QED
  BY <1>4, <1>5

LEMMA InitCalm == Init => CountsBounded /\ CalmInv
<1> SUFFICES ASSUME Init PROVE CountsBounded /\ CalmInv
  OBVIOUS
<1>1. memory.checkpoints = {} /\ reactor.work.op = "idle"
  BY IdleIsWork DEF Init
<1> QED
  BY <1>1 DEF CountsBounded, CalmInv, Reverting

\* Steps that leave a calm revert where it is, or end its calm.
LEMMA CalmQuiet ==
  ASSUME CalmInv, UNCHANGED <<files, refs>>, provider'.conversation = provider.conversation,
         \/ reactor'.work = reactor.work
         \/ reactor'.work.op \notin Reverting
         \/ ~reactor'.work.calm,
         \/ memory'.checkpoints = memory.checkpoints
         \/ Pairs(Kept(memory'.checkpoints, reactor.work.turnCount))
              = Pairs(Kept(memory.checkpoints, reactor.work.turnCount))
  PROVE  CalmInv'
<1> SUFFICES ASSUME reactor'.work.op \in Reverting, reactor'.work.calm, reactor'.work = reactor.work
             PROVE  CalmInv'
  BY DEF CalmInv
<1> DEFINE n == reactor.work.turnCount
<1>1. /\ n <= Len(provider.conversation)
      /\ Pairs(Kept(memory.checkpoints, n)) = Steps(n)
      /\ reactor.work.op \in {"restore", "rollback"} =>
           CurrentTurnCount(reactor.work.seen) = Len(provider.conversation)
      /\ reactor.work.op \in {"delete", "complete"} => Len(provider.conversation) = n
      /\ reactor.work.op \in {"rollback", "delete", "complete"} => files = Restored(n)
  BY DEF CalmInv
<1>2. Pairs(Kept(memory'.checkpoints, n)) = Pairs(Kept(memory.checkpoints, n))
  OBVIOUS
<1>3. reactor'.work.turnCount = n /\ reactor'.work.op = reactor.work.op
      /\ reactor'.work.seen = reactor.work.seen
  OBVIOUS
<1> HIDE DEF n
<1> QED
  BY <1>1, <1>2, <1>3 DEF CalmInv, Pairs, Kept, Steps, Restored, CurrentTurnCount

\* A disturbed revert is not calm.
LEMMA DisturbedNotCalm ==
  ASSUME NEW r \in ReactorType
  PROVE  Disturbed(r).work.op \in Reverting => ~Disturbed(r).work.calm
<1>1. r.work \in Work
  BY DEF ReactorType
<1>2. CASE "calm" \in DOMAIN r.work
  <2>1. r.work \in [op : {"restore", "rollback", "delete", "complete"}, turnCount : Nat,
                    seen : SUBSET Checkpoint, calm : BOOLEAN]
    BY <1>1, <1>2 DEF Work, Idle
  <2>2. Disturbed(r) = [r EXCEPT !.work = [@ EXCEPT !.calm = FALSE]]
    BY <1>2 DEF Disturbed
  <2> DEFINE w == [r.work EXCEPT !.calm = FALSE]
  <2>3. w.calm = FALSE
    BY <2>1
  <2> HIDE DEF w
  <2>4. Disturbed(r).work = w
    BY <2>2 DEF ReactorType, w
  <2> QED
    BY <2>3, <2>4
<1>3. CASE "calm" \notin DOMAIN r.work
  <2>1. Disturbed(r) = r
    BY <1>3 DEF Disturbed
  <2>2. r.work.op \notin Reverting
    BY <1>1, <1>3 DEF Work, Idle, Reverting
  <2> QED
    BY <2>1, <2>2
<1> QED
  BY <1>2, <1>3

LEMMA OtherCalm ==
  ASSUME Inv, CalmInv,
         \/ RequestTurn \/ StartTurn \/ Edit \/ EndTurn \/ RequestRevert
         \/ IngestLifecycle \/ IngestDiffRead \/ TakeBaseline \/ CaptureBaseline \/ TakeCompletion
         \/ TakePlaceholder \/ CaptureFiles \/ RecordCapture \/ Crash
  PROVE  CalmInv'
<1>1. /\ Typed /\ reactor \in ReactorType /\ memory \in MemoryType /\ provider \in ProviderType
  BY DEF Inv, Typed
<1>2. CASE RequestTurn \/ EndTurn \/ RequestRevert \/ IngestLifecycle \/ IngestDiffRead
  <2>1. UNCHANGED <<files, refs>> /\ memory'.checkpoints = memory.checkpoints
    BY <1>1, <1>2 DEF RequestTurn, EndTurn, RequestRevert, IngestLifecycle, IngestDiffRead, MemoryType
  <2>2. provider'.conversation = provider.conversation
    BY <1>1, <1>2 DEF RequestTurn, EndTurn, RequestRevert, IngestLifecycle, IngestDiffRead,
                      ProviderType
  <2>3. reactor'.work = reactor.work
    BY <1>1, <1>2 DEF RequestTurn, EndTurn, RequestRevert, IngestLifecycle, IngestDiffRead, Emit,
                      ReactorType
  <2> QED
    BY <2>1, <2>2, <2>3, CalmQuiet
<1>3. CASE StartTurn \/ Edit
  <2>1. reactor'.work = Disturbed(reactor).work
    BY <1>1, <1>3, DisturbedKeeps DEF StartTurn, Edit, Emit, ReactorType
  <2> QED
    BY <1>1, <2>1, DisturbedNotCalm DEF CalmInv
<1>4. CASE TakeBaseline \/ TakeCompletion \/ TakePlaceholder
  <2>1. UNCHANGED <<files, refs, memory, provider>>
    BY <1>4 DEF TakeBaseline, TakeCompletion, TakePlaceholder
  <2>2. reactor'.work.op \notin Reverting
    <3>1. \A w : DomainDone(w) \/ RuntimeDone(w) => reactor'.work = w
      BY <1>1 DEF DomainDone, RuntimeDone, ReactorType
    <3>2. \E w : (DomainDone(w) \/ RuntimeDone(w)) /\ w.op \notin Reverting
      <4>1. CASE TakeBaseline
        <5> DEFINE n == CurrentTurnCount(memory.checkpoints)
                   w == IF n \in DOMAIN refs THEN Idle ELSE [op |-> "baseline", count |-> n]
        <5>1. DomainDone(w) \/ RuntimeDone(w)
          BY <4>1 DEF TakeBaseline
        <5>2. w.op \notin Reverting
          BY IdleIsWork DEF Reverting
        <5> QED
          BY <5>1, <5>2
      <4>2. CASE TakeCompletion \/ TakePlaceholder
        <5>1. \/ DomainDone(Idle) \/ RuntimeDone(Idle)
              \/ \E v : DomainDone([op |-> "capture", checkpoint |-> v])
                        \/ RuntimeDone([op |-> "capture", checkpoint |-> v])
          BY <4>2 DEF TakeCompletion, TakePlaceholder
        <5>2. \A v : [op |-> "capture", checkpoint |-> v].op \notin Reverting
          BY DEF Reverting
        <5>3. Idle.op \notin Reverting
          BY IdleIsWork DEF Reverting
        <5> QED
          BY <5>1, <5>2, <5>3
      <4> QED
        BY <1>4, <4>1, <4>2
    <3> QED
      BY <3>1, <3>2
  <2> QED
    BY <2>1, <2>2, CalmQuiet
<1>5. CASE CaptureBaseline \/ RecordCapture \/ Crash
  <2>1. reactor'.work = Idle
    <3>1. CASE CaptureBaseline \/ Crash
      BY <1>1, <3>1 DEF CaptureBaseline, Crash, Busy, ReactorType
    <3>2. CASE RecordCapture
      <4>1. Told(reactor.work.checkpoint) \in ReactorType
        BY <1>1, <3>2, WorkOfOp, ToldKeeps DEF RecordCapture
      <4>2. \/ Busy(Idle)
            \/ reactor' = [Told(reactor.work.checkpoint) EXCEPT !.work = Idle]
        BY <3>2 DEF RecordCapture, CaptureFails
      <4> QED
        BY <1>1, <4>1, <4>2 DEF Busy, ReactorType
    <3> QED
      BY <1>5, <3>1, <3>2
  <2> QED
    BY <2>1, IdleIsWork DEF CalmInv, Reverting
<1>6. CASE CaptureFiles
  <2>1. reactor.work \in [op : {"capture", "record"}, checkpoint : Checkpoint]
    BY <1>1, <1>6, WorkOfOp DEF CaptureFiles
  <2>2. Busy(Idle) \/ Busy([reactor.work EXCEPT !.op = "record"])
    BY <1>6 DEF CaptureFiles, CaptureFails
  <2>3. reactor'.work.op \in {"idle", "record"}
    BY <1>1, <2>1, <2>2, IdleIsWork DEF Busy, ReactorType
  <2> QED
    BY <2>3 DEF CalmInv, Reverting
<1> QED
  BY <1>2, <1>3, <1>4, <1>5, <1>6

LEMMA PlaceholderCalm ==
  ASSUME Inv, OnePerTurn, CountsBounded, CalmInv, IngestDiffRecord
  PROVE  CalmInv'
<1>1. Typed /\ reactor \in ReactorType
  BY DEF Inv, Typed
<1> DEFINE c == [turn |-> Head(ingestion.reading).turn, count |-> Head(ingestion.reading).count,
                 status |-> "missing", captured |-> FALSE]
           late == c.count \notin CountsFor(memory.checkpoints, c.turn)
<1>7. CASE UNCHANGED <<memory, reactor>>
  <2>1. UNCHANGED <<provider, files, refs>>
    BY DEF IngestDiffRecord
  <2> QED
    BY <1>7, <2>1 DEF CalmInv, Pairs, Kept, Steps, Restored, CurrentTurnCount
<1> SUFFICES ASSUME ~UNCHANGED <<memory, reactor>> PROVE CalmInv'
  BY <1>7
<1>2. /\ RecordCheckpoint(c) /\ reactor' = (IF late THEN Disturbed(Told(c)) ELSE Told(c))
      /\ UNCHANGED <<provider, files, refs>> /\ c.status = "missing"
  BY DEF IngestDiffRecord
<1>3. c \in Checkpoint
  <2>1. Head(ingestion.reading) \in Reading
    BY <1>1, HeadsTyped DEF IngestDiffRecord
  <2> QED
    BY <2>1 DEF Reading, Checkpoint
<1> HIDE DEF c
<1>4. Told(c) \in ReactorType /\ Told(c).work = reactor.work
  BY <1>1, <1>3, ToldKeeps
<1>5. CASE late
  <2>1. reactor' = Disturbed(Told(c))
    BY <1>2, <1>5
  <2> QED
    BY <1>4, <2>1, DisturbedNotCalm DEF CalmInv
<1>6. CASE ~late
  <2>1. reactor'.work = reactor.work
    BY <1>2, <1>4, <1>6
  <2>2. CASE ~(reactor.work.op \in Reverting /\ reactor.work.calm)
    BY <2>1, <2>2 DEF CalmInv
  <2>3. CASE reactor.work.op \in Reverting /\ reactor.work.calm
    <3> DEFINE n == reactor.work.turnCount
    <3>1. n \in Nat
      BY <1>1, <2>3, WorkOfOp DEF Reverting
    <3>2. Pairs(Kept(memory.checkpoints, n)) = Steps(n)
      BY <2>3 DEF CalmInv
    <3> HIDE DEF n
    <3>3. Pairs(Kept(memory'.checkpoints, n)) = Pairs(Kept(memory.checkpoints, n))
      BY <1>2, <1>3, <1>6, <3>1, <3>2, PlaceholderKeeps
    <3> QED
      BY <1>2, <2>1, <3>3, CalmQuiet DEF n
  <2> QED
    BY <2>2, <2>3
<1> QED
  BY <1>5, <1>6

LEMMA TakeRevertCalm == ASSUME Inv, CalmInv, TakeRevert PROVE CalmInv'
<1>1. Typed /\ reactor \in ReactorType
  BY DEF Inv, Typed
<1> DEFINE n == Head(reactor.domain).turnCount
           cs == memory.checkpoints
           w == [op |-> "restore", turnCount |-> n, seen |-> cs, calm |-> InStep]
<1>2. UNCHANGED <<provider, files, refs, memory>>
  BY DEF TakeRevert
<1>3. n \in Nat
  <2>1. reactor.domain # <<>> /\ Head(reactor.domain).type = "thread.checkpoint-revert-requested"
    BY DEF TakeRevert, FromDomain
  <2>2. Head(reactor.domain) \in DomainEvent
    BY <1>1, <2>1, HeadsTyped
  <2> QED
    BY <2>1, <2>2 DEF DomainEvent
<1>4. CASE DomainDone(Idle)
  <2>1. reactor'.work = Idle
    BY <1>1, <1>4 DEF DomainDone, ReactorType
  <2> QED
    BY <2>1, IdleIsWork DEF CalmInv, Reverting
<1>5. CASE ~(n > CurrentTurnCount(cs)) /\ DomainDone(w)
  <2>1. reactor'.work = w
    BY <1>1, <1>5 DEF DomainDone, ReactorType
  <2>2. /\ reactor'.work.op = "restore" /\ reactor'.work.turnCount = n
        /\ reactor'.work.seen = cs /\ reactor'.work.calm = InStep
    BY <2>1
  <2>3. cs \in SUBSET Checkpoint /\ CurrentTurnCount(cs) \in Nat /\ n <= CurrentTurnCount(cs)
    <3>1. cs \in SUBSET Checkpoint
      BY <1>1 DEF Typed, MemoryType
    <3> HIDE DEF cs, n
    <3>2. CurrentTurnCount(cs) \in Nat
      BY <3>1, CurrentTurnCountIsNat
    <3> QED
      BY <1>3, <1>5, <3>1, <3>2
  <2>4. CASE ~InStep
    BY <2>2, <2>4 DEF CalmInv
  <2>5. CASE InStep
    <3>1. /\ CurrentTurnCount(cs) = Len(provider.conversation)
          /\ n <= Len(provider.conversation)
          /\ Pairs(Kept(cs, n)) = Steps(n)
      BY <1>1, <1>3, <2>3, <2>5, InStepCounts
    <3> HIDE DEF n
    <3> QED
      BY <1>2, <2>2, <3>1 DEF CalmInv, Pairs, Kept, Steps, CurrentTurnCount
  <2> QED
    BY <2>4, <2>5
<1> QED
  BY <1>4, <1>5 DEF TakeRevert

LEMMA RevertCalm ==
  ASSUME Inv, CalmInv, RestoreFiles \/ RollbackConversation \/ DeleteRefs \/ CompleteRevert
  PROVE  CalmInv'
<1>1. /\ Typed /\ reactor \in ReactorType /\ provider \in ProviderType
      /\ provider.conversation \in Seq(Turns)
  BY DEF Inv, Typed, ProviderType
<1> DEFINE n == reactor.work.turnCount
           conv == provider.conversation
<1>2. /\ reactor.work.op \in Reverting
      /\ reactor.work \in [op : {"restore", "rollback", "delete", "complete"},
                           turnCount : Nat, seen : SUBSET Checkpoint, calm : BOOLEAN]
      /\ n \in Nat /\ reactor.work.calm \in BOOLEAN
  BY <1>1, WorkOfOp DEF RestoreFiles, RollbackConversation, DeleteRefs, CompleteRevert, Reverting
<1>3. UNCHANGED memory \/ CompleteRevert
  BY DEF RestoreFiles, RollbackConversation, DeleteRefs
<1>4. ASSUME Busy(Idle) PROVE CalmInv'
  <2>1. reactor'.work = Idle
    BY <1>1, <1>4 DEF Busy, ReactorType
  <2> QED
    BY <2>1, IdleIsWork DEF CalmInv, Reverting
<1>5. ASSUME NEW op \in Reverting, Busy([reactor.work EXCEPT !.op = op])
      PROVE  /\ reactor'.work.op = op /\ reactor'.work.turnCount = n
             /\ reactor'.work.seen = reactor.work.seen /\ reactor'.work.calm = reactor.work.calm
  BY <1>1, <1>2, <1>5 DEF Busy, ReactorType
<1>6. reactor.work.calm =>
        /\ n <= Len(conv)
        /\ Pairs(Kept(memory.checkpoints, n)) = Steps(n)
        /\ reactor.work.op \in {"restore", "rollback"} =>
             CurrentTurnCount(reactor.work.seen) = Len(conv)
        /\ reactor.work.op \in {"delete", "complete"} => Len(conv) = n
        /\ reactor.work.op \in {"rollback", "delete", "complete"} => files = Restored(n)
  BY <1>2 DEF CalmInv
<1> HIDE DEF n, conv
<1>7. CASE RestoreFiles
  <2>1. reactor.work.op = "restore" /\ UNCHANGED <<provider, refs, memory>>
    BY <1>7 DEF RestoreFiles
  <2>2. CASE files' = Restored(n) /\ Busy([reactor.work EXCEPT !.op = "rollback"])
    <3>1. /\ reactor'.work.op = "rollback" /\ reactor'.work.turnCount = n
          /\ reactor'.work.seen = reactor.work.seen /\ reactor'.work.calm = reactor.work.calm
      BY <1>5, <2>2 DEF Reverting
    <3> QED
      BY <1>6, <2>1, <2>2, <3>1 DEF CalmInv, Pairs, Kept, Steps, Restored, CurrentTurnCount, conv
  <2> QED
    BY <1>4, <1>7, <2>2 DEF RestoreFiles, RevertFails, n
<1>8. CASE RollbackConversation
  <2> DEFINE num == TurnsToRollBack(reactor.work.seen, n)
             rest == IF num >= Len(conv) THEN <<>> ELSE SubSeq(conv, 1, Len(conv) - num)
  <2>1. reactor.work.op = "rollback" /\ UNCHANGED <<files, refs, memory>>
    BY <1>8 DEF RollbackConversation
  <2>2. CASE /\ provider' = [provider EXCEPT !.conversation = rest]
             /\ Busy([reactor.work EXCEPT !.op = "delete"])
    <3>1. /\ reactor'.work.op = "delete" /\ reactor'.work.turnCount = n
          /\ reactor'.work.calm = reactor.work.calm
      BY <1>5, <2>2 DEF Reverting
    <3>2. provider'.conversation = rest
      BY <1>1, <2>2 DEF ProviderType
    <3>3. ASSUME reactor.work.calm PROVE Len(rest) = n /\ \A i \in 1 .. n : rest[i] = conv[i]
      <4>1. Len(conv) \in Nat /\ conv \in Seq(Turns) /\ n <= Len(conv) /\ num = Len(conv) - n
        BY <1>1, <1>6, <2>1, <3>3 DEF conv, TurnsToRollBack
      <4> HIDE DEF num
      <4>2. CASE n = 0
        <5>1. num >= Len(conv)
          BY <1>2, <4>1, <4>2
        <5> QED
          BY <4>2, <5>1
      <4>3. CASE n # 0
        <5>1. ~(num >= Len(conv)) /\ Len(conv) - num = n
          BY <1>2, <4>1, <4>3
        <5>2. rest = SubSeq(conv, 1, n) /\ 1 \in 1 .. Len(conv) /\ n \in 1 .. Len(conv)
          BY <1>2, <4>1, <4>3, <5>1
        <5> HIDE DEF rest
        <5>3. Len(SubSeq(conv, 1, n)) = n /\ \A i \in 1 .. n : SubSeq(conv, 1, n)[i] = conv[i]
          BY <1>2, <4>1, <4>3
        <5> QED
          BY <5>2, <5>3
      <4> QED
        BY <4>2, <4>3
    <3> HIDE DEF rest
    <3>4. reactor.work.calm =>
            {<<rest[i], i>> : i \in 1 .. n} = {<<conv[i], i>> : i \in 1 .. n}
      BY <3>3
    <3>5. n <= n
      BY <1>2
    <3> QED
      BY <1>6, <2>1, <3>1, <3>2, <3>3, <3>4, <3>5 DEF CalmInv, Pairs, Kept, Steps, Restored, conv
  <2> QED
    BY <1>4, <1>8, <2>2 DEF RollbackConversation, RevertFails, n, conv
<1>9. CASE DeleteRefs
  <2> DEFINE stale == StaleCounts(reactor.work.seen, n)
  <2>1. reactor.work.op = "delete" /\ UNCHANGED <<provider, files, memory>>
    BY <1>9 DEF DeleteRefs
  <2>3. PICK gone \in SUBSET stale :
          /\ refs' = [m \in DOMAIN refs \ gone |-> refs[m]]
          /\ Busy(Idle) \/ Busy([reactor.work EXCEPT !.op = "complete"])
    BY <1>9 DEF DeleteRefs, n
  <2>2. CASE Busy([reactor.work EXCEPT !.op = "complete"])
    <3>1. /\ reactor'.work.op = "complete" /\ reactor'.work.turnCount = n
          /\ reactor'.work.calm = reactor.work.calm
      BY <1>5, <2>2 DEF Reverting
    <3>2. n \notin stale
      BY <1>2 DEF StaleCounts
    <3> HIDE DEF stale
    <3>3. (IF n \in DOMAIN refs' THEN refs'[n] ELSE HeadFiles) = Restored(n)
      BY <2>3, <3>2 DEF Restored
    <3> QED
      BY <1>6, <2>1, <3>1, <3>3 DEF CalmInv, Pairs, Kept, Steps, Restored, conv
  <2> QED
    BY <1>4, <2>2, <2>3
<1>10. CASE CompleteRevert
  BY <1>4, <1>10 DEF CompleteRevert, RevertFails
<1> QED
  BY <1>7, <1>8, <1>9, <1>10

LEMMA StepCalm ==
  ASSUME Inv, OnePerTurn, CountsBounded, CalmInv, [Next]_vars
  PROVE  CalmInv'
<1>1. CASE UNCHANGED vars
  BY <1>1 DEF vars, CalmInv, Pairs, Kept, Steps, Restored, CurrentTurnCount
<1> QED
  BY <1>1, OtherCalm, PlaceholderCalm, TakeRevertCalm, RevertCalm DEF Next, Ingest, React

\* A revert that began in step and met neither a new turn nor a placeholder with an
\* outdated number ends with files, conversation and checkpoints all at the turn it
\* goes back to, whatever the ingestion recorded between its awaits
\* (handleRevertRequested).
THEOREM CalmRevertIsWhole == Spec => RevertIsWhole
<1> DEFINE All == Inv /\ OpenInv /\ CountsBounded /\ CalmInv
<1>1. Init => All
  BY InitInv, InitOpen, InitCalm
<1>2. All /\ [Next]_vars => All'
  BY NextInv, StepOpen, StepBounded, StepCalm DEF OpenInv
<1> DEFINE Right == CompleteRevert /\ UNCHANGED budget /\ reactor.work.calm =>
                      /\ files = Restored(reactor.work.turnCount)
                      /\ {<<c.turn, c.count>> : c \in memory'.checkpoints}
                           = {<<provider.conversation[i], i>> :
                                i \in 1 .. Len(provider.conversation)}
<1>3. All /\ [Next]_vars => [Right]_vars
  <2> SUFFICES ASSUME All, CompleteRevert, UNCHANGED budget, reactor.work.calm PROVE Right
    OBVIOUS
  <2> DEFINE n == reactor.work.turnCount
  <2>1. memory \in MemoryType /\ budget \in BudgetType /\ reactor.work.op = "complete"
    BY DEF Inv, Typed, CompleteRevert
  <2>2. memory'.checkpoints = Kept(memory.checkpoints, n)
    <3>1. ~Fault
      BY <2>1 DEF Fault, BudgetType
    <3> QED
      BY <2>1, <3>1 DEF CompleteRevert, RevertFails, MemoryType
  <2>3. /\ files = Restored(n) /\ Len(provider.conversation) = n
        /\ Pairs(Kept(memory.checkpoints, n)) = Steps(n)
    BY <2>1 DEF CalmInv, Reverting
  <2> QED
    BY <2>2, <2>3 DEF Pairs, Steps
<1> HIDE DEF All, Right
<1>4. Spec => [][Right]_vars
  BY <1>1, <1>2, <1>3, PTL DEF Spec
<1> QED
  BY <1>4, PTL DEF RevertIsWhole, Right
=============================================================================
