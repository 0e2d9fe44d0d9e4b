---------------------------- MODULE TurnFlow_proofs ----------------------------
(***************************************************************************)
(* Theorems about TurnFlow, for any number of threads, turns, stops and    *)
(* troubles: no variable leaves its type, every turn asked for is          *)
(* answered, a live session is shown as stopped only while its start is    *)
(* still to be shown, a reply is what the provider said and arrives, and a *)
(* thread that has settled shows what its provider runs.                   *)
(***************************************************************************)
EXTENDS TurnFlow, SequenceTheorems, TLAPS

---------------------------------------------------------------------------
(* Sequences: what queues and texts need.                                  *)

LEMMA AppendIsSeq ==
  ASSUME NEW S, NEW s \in Seq(S), NEW x \in S
  PROVE  Append(s, x) \in Seq(S)
  OBVIOUS

LEMMA HeadTailIn ==
  ASSUME NEW S, NEW s \in Seq(S), s # <<>>
  PROVE  Head(s) \in S /\ Tail(s) \in Seq(S)
  OBVIOUS

LEMMA EmptyIsSeq == ASSUME NEW S PROVE <<>> \in Seq(S)
  OBVIOUS

LEMMA OneIsSeq == ASSUME NEW S, NEW x \in S PROVE <<x>> \in Seq(S)
  OBVIOUS

LEMMA TwoIsSeq == ASSUME NEW S, NEW x \in S, NEW y \in S PROVE <<x, y>> \in Seq(S)
  OBVIOUS

LEMMA ConcatIsSeq ==
  ASSUME NEW S, NEW s \in Seq(S), NEW t \in Seq(S)
  PROVE  /\ s \o t \in Seq(S)
         /\ Len(s \o t) = Len(s) + Len(t)
         /\ \A i \in 1 .. Len(s) : (s \o t)[i] = s[i]
         /\ \A j \in 1 .. Len(t) : (s \o t)[Len(s) + j] = t[j]
  OBVIOUS

\* One element and none, or one element and another.
LEMMA ConcatOne ==
  ASSUME NEW x, NEW y
  PROVE  /\ Len(<<x>> \o <<>>) = 1 /\ (<<x>> \o <<>>)[1] = x
         /\ Len(<<x>> \o <<y>>) = 2 /\ (<<x>> \o <<y>>)[1] = x /\ (<<x>> \o <<y>>)[2] = y
<1> DEFINE S == {x, y}
           one == <<x>>
           none == <<>>
           other == <<y>>
<1>1. /\ one \in Seq(S) /\ none \in Seq(S) /\ other \in Seq(S)
      /\ Len(one) = 1 /\ Len(none) = 0 /\ Len(other) = 1
      /\ one[1] = x /\ other[1] = y
  BY OneIsSeq, EmptyIsSeq
<1> HIDE DEF S, one, none, other
<1>2. /\ Len(one \o none) = Len(one) + Len(none) /\ Len(one \o other) = Len(one) + Len(other)
      /\ \A i \in 1 .. Len(one) : (one \o none)[i] = one[i] /\ (one \o other)[i] = one[i]
      /\ \A j \in 1 .. Len(other) : (one \o other)[Len(one) + j] = other[j]
  BY <1>1, ConcatIsSeq
<1>3. 1 \in 1 .. Len(one) /\ 1 \in 1 .. Len(other)
  BY <1>1
<1>4. /\ Len(one \o none) = 1 /\ (one \o none)[1] = x
      /\ Len(one \o other) = 2 /\ (one \o other)[1] = x /\ (one \o other)[2] = y
  BY <1>1, <1>2, <1>3
<1> QED
  BY <1>4 DEF one, none, other

\* Elements of a sequence: its head, and those of its tail.
LEMMA HeadThenTail ==
  ASSUME NEW S, NEW s \in Seq(S), s # <<>>
  PROVE  /\ Len(s) \in Nat /\ Len(s) > 0 /\ Head(s) = s[1]
         /\ Len(Tail(s)) = Len(s) - 1
         /\ \A i \in 1 .. Len(Tail(s)) : Tail(s)[i] = s[i + 1]
  OBVIOUS

---------------------------------------------------------------------------
(* Types.                                                                  *)

Text == Seq(1 .. MaxPieces)

ShownType ==
    [Threads -> [status : {"none", "starting", "ready", "running", "error", "stopped"},
                 active : 0 .. MaxTurns]]

ReplyType == [Turns -> [text : Text, complete : BOOLEAN]]

\* Only starts are about a turn.
GoodCommand ==
    {c \in Command : IF c.type = "start" THEN c.turn \in Turns ELSE c.turn = 0}

\* Only a turn can be sent, and a stop is about none.
GoodWork ==
    {w \in Work : (w.op = "send" => w.turn \in Turns) /\ (w.op = "stopped" => w.turn = 0)}

CommandsType == [queue : Seq(GoodCommand), work : GoodWork]

\* A session that is gone runs nothing.
GoodSession ==
    {s \in [alive : BOOLEAN, turn : 0 .. MaxTurns, queue : Seq(Turns)] : ~s.alive => s = NoSession}

ProviderType == [Threads -> GoodSession]

OutputType == [Turns -> [pieces : 0 .. MaxPieces, ended : BOOLEAN]]

\* Text belongs to a turn.
GoodEvent ==
    {e \in RuntimeEvent :
        /\ e.type \in {"content.delta", "item.completed"} => e.turn \in Turns
        /\ e.type = "content.delta" => e.piece \in 1 .. MaxPieces}

\* Only session and turn events are read before they are applied.
Reading == {e \in GoodEvent : e.type \in Lifecycle} \X (0 .. MaxTurns)

IngestionType ==
    [runtime : Seq(GoodEvent), modes : Seq(Modes), reading : {<<>>} \cup Reading,
     mode : Modes, buffer : [Turns -> {s \in Text : Len(s) <= BufferLimit}], open : SUBSET Turns]

PastType ==
    [told : SUBSET Turns, sent : SUBSET Turns, lost : SUBSET Turns, switched : SUBSET Turns,
     cut : SUBSET Turns, ignored : SUBSET Threads, stale : SUBSET Threads,
     disowned : SUBSET Turns, claimed : SUBSET Threads]

BudgetType == [stops : 0 .. MaxStops, troubles : 0 .. MaxTroubles]

\* TypeOK, with what it leaves open.
Typed ==
    /\ owner \in [Turns -> Threads \cup {0}]
    /\ shown \in ShownType
    /\ reply \in ReplyType
    /\ commands \in CommandsType
    /\ bound \subseteq Threads
    /\ provider \in ProviderType
    /\ output \in OutputType
    /\ ingestion \in IngestionType
    /\ past \in PastType
    /\ budget \in BudgetType

LEMMA TypedImpliesTypeOK == Typed => TypeOK
<1> SUFFICES ASSUME Typed PROVE TypeOK
  OBVIOUS
<1>1. owner \in [Turns -> Threads \cup {0}] /\ bound \subseteq Threads
  BY DEF Typed
<1>2. /\ shown \in [Threads -> [status : {"none", "starting", "ready", "running", "error",
                                          "stopped"},
                                active : 0 .. MaxTurns]]
      /\ reply \in [Turns -> [text : Seq(1 .. MaxPieces), complete : BOOLEAN]]
      /\ output \in [Turns -> [pieces : 0 .. MaxPieces, ended : BOOLEAN]]
  BY DEF Typed, ShownType, ReplyType, Text, OutputType
<1>3. commands.queue \in Seq(Command) /\ commands.work \in Work
  <2>1. commands.queue \in Seq(GoodCommand) /\ commands.work \in GoodWork
    BY DEF Typed, CommandsType
  <2>2. GoodCommand \subseteq Command /\ GoodWork \subseteq Work
    BY DEF GoodCommand, GoodWork
  <2> QED
    BY <2>1, <2>2
<1>4. /\ DOMAIN provider = Threads
      /\ \A k \in Threads :
            /\ provider[k].alive \in BOOLEAN /\ provider[k].turn \in 0 .. MaxTurns
            /\ provider[k].queue \in Seq(Turns)
            /\ ~provider[k].alive => provider[k] = NoSession
  <2>1. provider \in ProviderType
    BY DEF Typed
  <2> QED
    BY <2>1 DEF ProviderType, GoodSession
<1>5. /\ ingestion.runtime \in Seq(RuntimeEvent) /\ ingestion.modes \in Seq(Modes)
      /\ ingestion.mode \in Modes /\ ingestion.open \subseteq Turns
      /\ DOMAIN ingestion.buffer = Turns
      /\ \A t \in Turns : ingestion.buffer[t] \in Seq(1 .. MaxPieces)
                          /\ Len(ingestion.buffer[t]) <= BufferLimit
  <2>1. ingestion \in IngestionType
    BY DEF Typed
  <2>2. ingestion.runtime \in Seq(GoodEvent) /\ GoodEvent \subseteq RuntimeEvent
    BY <2>1 DEF IngestionType, GoodEvent
  <2>3. ingestion.buffer \in [Turns -> {s \in Text : Len(s) <= BufferLimit}]
    BY <2>1 DEF IngestionType
  <2>4. ingestion.modes \in Seq(Modes) /\ ingestion.mode \in Modes /\ ingestion.open \subseteq Turns
    BY <2>1 DEF IngestionType
  <2> QED
    BY <2>2, <2>3, <2>4 DEF Text
<1>6. /\ \A f \in {"told", "sent", "lost", "switched", "cut", "disowned"} : past[f] \subseteq Turns
      /\ \A f \in {"ignored", "stale", "claimed"} : past[f] \subseteq Threads
  BY DEF Typed, PastType
<1>7. budget.stops \in 0 .. MaxStops /\ budget.troubles \in 0 .. MaxTroubles
  BY DEF Typed, BudgetType
<1> QED
  BY <1>1, <1>2, <1>3, <1>4, <1>5, <1>6, <1>7 DEF TypeOK

---------------------------------------------------------------------------
(* Operators, and the steps that actions share.                            *)

LEMMA IdleIsWork == Idle \in GoodWork /\ Idle.op = "idle"
  BY DEF Idle, GoodWork, Work

LEMMA NoSessionIsGood == NoSession \in GoodSession /\ ~NoSession.alive
<1>1. <<>> \in Seq(Turns) /\ 0 \in 0 .. MaxTurns
  BY EmptyIsSeq, TurnAssumption
<1> QED
  BY <1>1 DEF NoSession, GoodSession

LEMMA FreshSessionIsGood ==
  LET fresh == [NoSession EXCEPT !.alive = TRUE] IN
  fresh \in GoodSession /\ fresh.alive /\ fresh.turn = 0
<1>1. <<>> \in Seq(Turns) /\ 0 \in 0 .. MaxTurns
  BY EmptyIsSeq, TurnAssumption
<1>2. NoSession \in [alive : BOOLEAN, turn : 0 .. MaxTurns, queue : Seq(Turns)]
  BY <1>1 DEF NoSession
<1> QED
  BY <1>2 DEF GoodSession, NoSession

\* Each thread's session, and what a turn that runs says of it.
LEMMA SessionOf ==
  ASSUME Typed, NEW k \in Threads
  PROVE  /\ provider[k] \in GoodSession
         /\ provider[k].alive \in BOOLEAN /\ provider[k].turn \in 0 .. MaxTurns
         /\ provider[k].queue \in Seq(Turns)
         /\ provider[k].turn # 0 => provider[k].turn \in Turns /\ provider[k].alive
<1>1. provider[k] \in GoodSession
  BY DEF Typed, ProviderType
<1>2. provider[k].turn \in 0 .. MaxTurns /\ (~provider[k].alive => provider[k].turn = 0)
  BY <1>1 DEF GoodSession, NoSession
<1> QED
  BY <1>1, <1>2, TurnAssumption DEF GoodSession, Turns

LEMMA ProviderKeeps ==
  ASSUME Typed, NEW k \in Threads, NEW s \in GoodSession, provider' = [provider EXCEPT ![k] = s]
  PROVE  provider' \in ProviderType
  BY DEF Typed, ProviderType

LEMMA EventIsGood ==
  ASSUME NEW k \in Threads, NEW t \in 0 .. MaxTurns, NEW type \in Lifecycle
  PROVE  Event(type, k, t, 0) \in GoodEvent
<1>1. 0 \in 0 .. MaxPieces
  BY TurnAssumption
<1> QED
  BY <1>1 DEF Event, GoodEvent, RuntimeEvent, Lifecycle

LEMMA TextEventIsGood ==
  ASSUME NEW k \in Threads, NEW t \in Turns, NEW i \in 1 .. MaxPieces,
         NEW type \in {"content.delta", "item.completed"}
  PROVE  Event(type, k, t, i) \in GoodEvent
<1>1. i \in 0 .. MaxPieces /\ t \in 0 .. MaxTurns
  BY TurnAssumption DEF Turns
<1> QED
  BY <1>1 DEF Event, GoodEvent, RuntimeEvent

LEMMA TellKeeps ==
  ASSUME Typed, NEW es \in Seq(GoodEvent), Tell(es)
  PROVE  ingestion' \in IngestionType
<1>1. ingestion \in IngestionType
  BY DEF Typed
<1>2. ingestion.runtime \o es \in Seq(GoodEvent)
  BY <1>1, ConcatIsSeq DEF IngestionType
<1>3. ingestion' = [ingestion EXCEPT !.runtime = @ \o es]
  BY DEF Tell
<1> QED
  BY <1>1, <1>2, <1>3 DEF IngestionType

LEMMA FarewellIsGood ==
  ASSUME Typed, NEW k \in Threads, NEW told \in Farewell(k)
  PROVE  told \in Seq(GoodEvent)
<1>1. provider[k].turn \in 0 .. MaxTurns /\ 0 \in 0 .. MaxTurns
  BY SessionOf, TurnAssumption
<1>2. /\ Event("session.exited", k, 0, 0) \in GoodEvent
      /\ Event("turn.completed", k, provider[k].turn, 0) \in GoodEvent
  BY <1>1, EventIsGood DEF Lifecycle
<1>3. /\ <<>> \in Seq(GoodEvent)
      /\ <<Event("session.exited", k, 0, 0)>> \in Seq(GoodEvent)
      /\ <<Event("turn.completed", k, provider[k].turn, 0),
           Event("session.exited", k, 0, 0)>> \in Seq(GoodEvent)
  BY <1>2, EmptyIsSeq, OneIsSeq, TwoIsSeq
<1> QED
  BY <1>3 DEF Farewell

LEMMA UnfinishedIsGood ==
  ASSUME Typed, NEW k \in Threads
  PROVE  Unfinished(k) \subseteq Turns
<1>1. /\ provider[k].turn \in 0 .. MaxTurns
      /\ \A i \in 1 .. Len(provider[k].queue) : provider[k].queue[i] \in Turns
  BY SessionOf
<1> QED
  BY <1>1, TurnAssumption DEF Unfinished, Turns

\* A turn that ends leaves the session alive, and that is what is told.
LEMMA TurnEndsTells ==
  ASSUME Typed, NEW k \in Threads, provider[k].turn # 0, TurnEnds(k)
  PROVE  \E s \in GoodSession, es \in Seq(GoodEvent) :
            /\ provider' = [provider EXCEPT ![k] = s] /\ Tell(es) /\ provider[k].alive /\ s.alive
            /\ \A i \in 1 .. Len(es) : es[i].thread = k /\ es[i].type # "session.exited"
<1> DEFINE p == provider[k]
           next == NextTurn(p)
           ended == Event("turn.completed", k, p.turn, 0)
           began == Event("turn.started", k, next.turn, 0)
           es == <<ended>> \o (IF next.turn # 0 THEN <<began>> ELSE <<>>)
<1>1. p \in GoodSession /\ p.alive /\ p.turn \in 0 .. MaxTurns /\ p.queue \in Seq(Turns)
  BY SessionOf
<1>2. next \in GoodSession /\ next.turn \in 0 .. MaxTurns /\ next.alive
  <2>1. CASE p.queue = <<>>
    <3>1. next = [p EXCEPT !.turn = 0] /\ 0 \in 0 .. MaxTurns
      BY <2>1, TurnAssumption DEF NextTurn
    <3> QED
      BY <1>1, <3>1 DEF GoodSession
  <2>2. CASE p.queue # <<>>
    <3>1. Head(p.queue) \in Turns /\ Tail(p.queue) \in Seq(Turns)
      BY <1>1, <2>2, HeadTailIn
    <3>2. Head(p.queue) \in 0 .. MaxTurns
      BY <3>1, TurnAssumption DEF Turns
    <3>3. next = [p EXCEPT !.turn = Head(p.queue), !.queue = Tail(@)]
      BY <2>2 DEF NextTurn
    <3> QED
      BY <1>1, <3>1, <3>2, <3>3 DEF GoodSession
  <2> QED
    BY <2>1, <2>2
<1> HIDE DEF next
<1>3. es \in Seq(GoodEvent)
  <2>1. /\ Event("turn.completed", k, p.turn, 0) \in GoodEvent
        /\ Event("turn.started", k, next.turn, 0) \in GoodEvent
    BY <1>1, <1>2, EventIsGood DEF Lifecycle
  <2>2. /\ <<Event("turn.completed", k, p.turn, 0)>> \in Seq(GoodEvent)
        /\ <<Event("turn.started", k, next.turn, 0)>> \in Seq(GoodEvent)
        /\ <<>> \in Seq(GoodEvent)
    BY <2>1, OneIsSeq, EmptyIsSeq
  <2> QED
    BY <2>2, ConcatIsSeq
<1>4. provider' = [provider EXCEPT ![k] = next] /\ Tell(es)
  BY DEF TurnEnds, next
<1>5. \A i \in 1 .. Len(es) : es[i].thread = k /\ es[i].type # "session.exited"
  <2>0. /\ ended.thread = k /\ ended.type # "session.exited"
        /\ began.thread = k /\ began.type # "session.exited"
    BY DEF Event
  <2> HIDE DEF ended, began, es
  <2>1. CASE next.turn # 0
    <3>1. Len(es) = 2 /\ es[1] = ended /\ es[2] = began
      BY <2>1, ConcatOne DEF es
    <3>2. \A i \in 1 .. Len(es) : es[i] = ended \/ es[i] = began
      BY <3>1
    <3> QED
      BY <3>2, <2>0
  <2>2. CASE next.turn = 0
    <3>1. Len(es) = 1 /\ es[1] = ended
      BY <2>2, ConcatOne DEF es
    <3>2. \A i \in 1 .. Len(es) : es[i] = ended
      BY <3>1
    <3> QED
      BY <3>2, <2>0
  <2> QED
    BY <2>1, <2>2
<1> QED
  BY <1>1, <1>2, <1>3, <1>4, <1>5

LEMMA TurnEndsKeeps ==
  ASSUME Typed, NEW k \in Threads, provider[k].turn # 0, TurnEnds(k)
  PROVE  provider' \in ProviderType /\ ingestion' \in IngestionType
  BY TurnEndsTells, ProviderKeeps, TellKeeps

LEMMA BudgetKept ==
  ASSUME Typed, UNCHANGED budget \/ Trouble
  PROVE  budget' \in BudgetType
<1>1. budget \in BudgetType
  BY DEF Typed
<1>2. CASE UNCHANGED budget
  BY <1>1, <1>2
<1>3. CASE Trouble
  <2>1. budget.troubles > 0 /\ budget' = [budget EXCEPT !.troubles = @ - 1]
    BY <1>3 DEF Trouble
  <2> QED
    BY <1>1, <2>1, TurnAssumption DEF BudgetType
<1> QED
  BY <1>2, <1>3

LEMMA AskKeeps ==
  ASSUME Typed, NEW c \in GoodCommand, Ask(c)
  PROVE  commands' \in CommandsType
<1>1. commands \in CommandsType /\ commands.queue \in Seq(GoodCommand)
  BY DEF Typed, CommandsType
<1>2. Append(commands.queue, c) \in Seq(GoodCommand)
  BY <1>1, AppendIsSeq
<1>3. commands' = [commands EXCEPT !.queue = Append(@, c)]
  BY DEF Ask
<1> QED
  BY <1>1, <1>2, <1>3 DEF CommandsType

\* The command the worker takes.
LEMMA AskedIsGood ==
  ASSUME Typed, NEW type, Takes(type)
  PROVE  /\ commands.queue # <<>> /\ commands.work = Idle
         /\ Asked \in GoodCommand /\ Asked.type = type /\ Asked.thread \in Threads
         /\ type = "start" => Asked.turn \in Turns
         /\ type # "start" => Asked.turn = 0
<1>1. commands.queue \in Seq(GoodCommand)
  BY DEF Typed, CommandsType
<1>2. commands.queue # <<>> /\ commands.work = Idle /\ Asked.type = type
  BY DEF Takes, Asked
<1>3. Asked \in GoodCommand
  BY <1>1, <1>2, HeadTailIn DEF Asked
<1> QED
  BY <1>2, <1>3 DEF GoodCommand, Command

LEMMA TakeKeeps ==
  ASSUME Typed, commands.queue # <<>>, NEW w \in GoodWork, Take(w)
  PROVE  commands' \in CommandsType
<1>1. commands.queue \in Seq(GoodCommand)
  BY DEF Typed, CommandsType
<1>2. Tail(commands.queue) \in Seq(GoodCommand)
  BY <1>1, HeadTailIn
<1> QED
  BY <1>2 DEF Take, CommandsType

LEMMA ThenKeeps ==
  ASSUME Typed, NEW w \in GoodWork, Then(w)
  PROVE  commands' \in CommandsType
<1>1. commands \in CommandsType /\ commands' = [commands EXCEPT !.work = w]
  BY DEF Typed, Then
<1> QED
  BY <1>1 DEF CommandsType

LEMMA WorksIsGood ==
  ASSUME NEW k \in Threads, NEW t \in 0 .. MaxTurns,
         NEW op \in {"session", "bind", "send", "stopped"},
         op = "send" => t \in Turns, op = "stopped" => t = 0
  PROVE  Works(op, k, t) \in GoodWork
  BY DEF Works, GoodWork, Work

\* What the worker holds between two awaits.
LEMMA WorkAtHand ==
  ASSUME Typed, commands.work.op \in {"session", "bind", "send", "stopped"}
  PROVE  /\ commands.work \in [op : {"session", "bind", "send", "stopped"}, thread : Threads,
                               turn : 0 .. MaxTurns]
         /\ commands.work.op = "send" => commands.work.turn \in Turns
         /\ commands.work.op = "stopped" => commands.work.turn = 0
         /\ {commands.work.turn} \ {0} \subseteq Turns
         /\ commands.work # Idle
<1>1. commands.work \in GoodWork
  BY DEF Typed, CommandsType
<1>2. commands.work \in [op : {"session", "bind", "send", "stopped"}, thread : Threads,
                         turn : 0 .. MaxTurns]
  BY <1>1 DEF GoodWork, Work, Idle
<1>3. {commands.work.turn} \ {0} \subseteq Turns
  BY <1>2, TurnAssumption DEF Turns
<1> QED
  BY <1>1, <1>2, <1>3, IdleIsWork DEF GoodWork

LEMMA ShowKeeps ==
  ASSUME Typed, NEW k \in Threads, NEW status \in {"ready", "running", "stopped"},
         NEW active \in 0 .. MaxTurns, Show(k, status, active)
  PROVE  shown' \in ShownType
<1>1. shown \in ShownType /\ shown' = [shown EXCEPT ![k] = [status |-> status, active |-> active]]
  BY DEF Typed, Show
<1> QED
  BY <1>1 DEF ShownType

\* More turns are told, cut short or sent.
LEMMA PastKeeps ==
  ASSUME Typed, NEW told \in SUBSET Turns, NEW sent \in SUBSET Turns, NEW cut \in SUBSET Turns,
         past' = [past EXCEPT !.told = @ \cup told, !.sent = @ \cup sent, !.cut = @ \cup cut]
  PROVE  past' \in PastType
<1>1. past \in PastType
  BY DEF Typed
<1> QED
  BY <1>1 DEF PastType

LEMMA FailsKeeps ==
  ASSUME Typed, NEW w, {w.turn} \ {0} \subseteq Turns, Fails(w)
  PROVE  /\ past' \in PastType /\ commands' \in CommandsType
<1>1. past \in PastType /\ past' = [past EXCEPT !.told = @ \cup ({w.turn} \ {0})] /\ Then(Idle)
  BY DEF Typed, Fails
<1>2. past' \in PastType
  BY <1>1 DEF PastType
<1> QED
  BY <1>1, <1>2, ThenKeeps, IdleIsWork

LEMMA RoutedIsGood ==
  ASSUME Typed, NEW k \in Threads
  PROVE  Routed(k) \in GoodSession /\ Routed(k).alive /\ Routed(k).turn \in 0 .. MaxTurns
         /\ Recovery(k) \in Seq(GoodEvent)
<1>1. Event("session.started", k, 0, 0) \in GoodEvent
  BY EventIsGood, TurnAssumption DEF Lifecycle
<1>2. Recovery(k) \in Seq(GoodEvent)
  BY <1>1, EmptyIsSeq, OneIsSeq DEF Recovery
<1>3. CASE provider[k].alive
  BY <1>2, <1>3, SessionOf DEF Routed
<1>4. CASE ~provider[k].alive
  <2>1. Routed(k) = [NoSession EXCEPT !.alive = TRUE]
    BY <1>4 DEF Routed
  <2> QED
    BY <1>2, <2>1, FreshSessionIsGood, TurnAssumption
<1> QED
  BY <1>3, <1>4

LEMMA WithTurnIsGood ==
  ASSUME NEW p \in GoodSession, p.alive, NEW t \in Turns, NEW k \in Threads
  PROVE  WithTurn(p, t) \in GoodSession /\ WithTurn(p, t).alive
         /\ TurnStarted(p, k, t) \in Seq(GoodEvent)
<1>1. t \in 0 .. MaxTurns
  BY TurnAssumption DEF Turns
<1>2. p.queue \in Seq(Turns)
  BY DEF GoodSession
<1>3. Append(p.queue, t) \in Seq(Turns)
  BY <1>2, AppendIsSeq
<1>4. WithTurn(p, t) \in GoodSession /\ WithTurn(p, t).alive
  BY <1>1, <1>3 DEF WithTurn, GoodSession
<1>5. Event("turn.started", k, t, 0) \in GoodEvent
  BY <1>1, EventIsGood DEF Lifecycle
<1> QED
  BY <1>4, <1>5, EmptyIsSeq, OneIsSeq DEF TurnStarted

LEMMA WholeIsText == ASSUME NEW n \in 0 .. MaxPieces PROVE Whole(n) \in Text
  BY TurnAssumption DEF Whole, Text

LEMMA EmptyIsShort == <<>> \in {s \in Text : Len(s) <= BufferLimit}
<1>1. <<>> \in Text /\ Len(<<>>) = 0
  BY EmptyIsSeq DEF Text
<1> QED
  BY <1>1, TurnAssumption

\* A reply is completed from the buffer, or from the completion's own text.
LEMMA CompleteKeeps ==
  ASSUME Typed, NEW i \in IngestionType, NEW t \in Turns, NEW whole \in 0 .. MaxPieces,
         Complete(i, t, whole)
  PROVE  reply' \in ReplyType /\ ingestion' \in IngestionType
<1> DEFINE more == IF i.buffer[t] # <<>> THEN i.buffer[t]
                   ELSE IF reply[t].text = <<>> THEN Whole(whole) ELSE <<>>
           new == [text |-> reply[t].text \o more, complete |-> TRUE]
<1>1. i.buffer \in [Turns -> {s \in Text : Len(s) <= BufferLimit}] /\ i.open \subseteq Turns
  BY DEF IngestionType
<1>2. reply \in ReplyType /\ reply[t].text \in Text
  BY DEF Typed, ReplyType
<1>3. more \in Text
  BY <1>1, WholeIsText, EmptyIsSeq DEF Text
<1>4. new \in [text : Text, complete : BOOLEAN]
  <2> HIDE DEF more
  <2>1. reply[t].text \o more \in Text
    BY <1>2, <1>3, ConcatIsSeq DEF Text
  <2> QED
    BY <2>1
<1>5. reply' = [reply EXCEPT ![t] = new]
  BY DEF Complete
<1>6. reply' \in ReplyType
  <2> HIDE DEF new
  <2> QED
    BY <1>2, <1>4, <1>5 DEF ReplyType
<1> DEFINE b == [i.buffer EXCEPT ![t] = <<>>]
<1>7. b \in [Turns -> {s \in Text : Len(s) <= BufferLimit}]
  BY <1>1, EmptyIsShort
<1>8. ingestion' = [i EXCEPT !.open = @ \ {t}, !.buffer = b]
  BY DEF Complete
<1>9. ingestion' \in IngestionType
  <2> HIDE DEF b
  <2> QED
    BY <1>1, <1>7, <1>8 DEF IngestionType
<1> QED
  BY <1>6, <1>9

---------------------------------------------------------------------------
(* No action leaves the types.                                             *)

LEMMA RequestTurnTyped == ASSUME Typed, RequestTurn PROVE Typed'
<1>1. PICK t \in Turns, k \in Threads, mode \in Modes :
        /\ owner' = [owner EXCEPT ![t] = k]
        /\ Ask([type |-> "start", thread |-> k, turn |-> t])
        /\ ingestion' = [ingestion EXCEPT !.modes = Append(@, mode)]
        /\ UNCHANGED <<shown, reply, bound, provider, output, past, budget>>
  BY DEF RequestTurn
<1>2. owner' \in [Turns -> Threads \cup {0}]
  BY <1>1 DEF Typed
<1>3. commands' \in CommandsType
  <2>1. t \in 0 .. MaxTurns
    BY TurnAssumption DEF Turns
  <2>2. [type |-> "start", thread |-> k, turn |-> t] \in GoodCommand
    BY <2>1 DEF GoodCommand, Command
  <2> QED
    BY <1>1, <2>2, AskKeeps
<1>4. ingestion' \in IngestionType
  <2>1. ingestion \in IngestionType
    BY DEF Typed
  <2>2. Append(ingestion.modes, mode) \in Seq(Modes)
    BY <2>1, AppendIsSeq DEF IngestionType
  <2> QED
    BY <1>1, <2>1, <2>2 DEF IngestionType
<1> QED
  BY <1>1, <1>2, <1>3, <1>4 DEF Typed

LEMMA RequestStopTyped == ASSUME Typed, RequestStop PROVE Typed'
<1>1. PICK k \in Threads, type \in {"interrupt", "stop", "restart"} :
        Ask([type |-> type, thread |-> k, turn |-> 0])
  BY DEF RequestStop
<1>2. [type |-> type, thread |-> k, turn |-> 0] \in GoodCommand
  BY TurnAssumption DEF GoodCommand, Command
<1>3. commands' \in CommandsType
  BY <1>1, <1>2, AskKeeps
<1>4. budget' \in BudgetType
  <2>1. budget \in BudgetType /\ budget.stops > 0 /\ budget' = [budget EXCEPT !.stops = @ - 1]
    BY DEF Typed, RequestStop
  <2> QED
    BY <2>1, TurnAssumption DEF BudgetType
<1> QED
  BY <1>3, <1>4 DEF Typed, RequestStop

LEMMA SpeakTyped == ASSUME Typed, NEW k \in Threads, Speak(k) PROVE Typed'
<1> DEFINE t == provider[k].turn
<1>1. t \in Turns
  BY SessionOf DEF Speak
<1>2. output \in OutputType /\ output[t].pieces \in 0 .. MaxPieces
  BY <1>1 DEF Typed, OutputType
<1> HIDE DEF t
<1>3. output' \in OutputType /\ ingestion' \in IngestionType
  <2>1. CASE /\ output[t].pieces < MaxPieces
             /\ output' = [output EXCEPT ![t].pieces = @ + 1]
             /\ Tell(<<Event("content.delta", k, t, output[t].pieces + 1)>>)
    <3>1. output[t].pieces + 1 \in 1 .. MaxPieces /\ output[t].pieces + 1 \in 0 .. MaxPieces
      BY <1>2, <2>1, TurnAssumption
    <3>2. <<Event("content.delta", k, t, output[t].pieces + 1)>> \in Seq(GoodEvent)
      BY <1>1, <3>1, TextEventIsGood, OneIsSeq
    <3>3. ingestion' \in IngestionType
      BY <2>1, <3>2, TellKeeps
    <3>4. output' \in OutputType
      BY <1>1, <1>2, <2>1, <3>1 DEF OutputType
    <3> QED
      BY <3>3, <3>4
  <2>2. CASE /\ output[t].pieces = 0
             /\ output' = [output EXCEPT ![t] = [pieces |-> MaxPieces, ended |-> TRUE]]
             /\ Tell(<<Event("item.completed", k, t, MaxPieces)>>)
    <3>1. MaxPieces \in 0 .. MaxPieces
      BY TurnAssumption
    <3>2. Event("item.completed", k, t, MaxPieces) \in GoodEvent
      <4>1. t \in 0 .. MaxTurns
        BY <1>1, TurnAssumption DEF Turns
      <4> QED
        BY <1>1, <3>1, <4>1 DEF Event, GoodEvent, RuntimeEvent
    <3>3. ingestion' \in IngestionType
      BY <2>2, <3>2, OneIsSeq, TellKeeps
    <3>4. output' \in OutputType
      BY <1>1, <1>2, <2>2, <3>1 DEF OutputType
    <3> QED
      BY <3>3, <3>4
  <2>3. CASE /\ output[t].pieces > 0
             /\ output' = [output EXCEPT ![t].ended = TRUE]
             /\ Tell(<<Event("item.completed", k, t, output[t].pieces)>>)
    <3>1. output[t].pieces \in 1 .. MaxPieces
      BY <1>2, <2>3, TurnAssumption
    <3>2. <<Event("item.completed", k, t, output[t].pieces)>> \in Seq(GoodEvent)
      BY <1>1, <3>1, TextEventIsGood, OneIsSeq
    <3>3. ingestion' \in IngestionType
      BY <2>3, <3>2, TellKeeps
    <3>4. output' \in OutputType
      BY <1>1, <1>2, <2>3 DEF OutputType
    <3> QED
      BY <3>3, <3>4
  <2> QED
    BY <2>1, <2>2, <2>3 DEF Speak, t
<1> QED
  BY <1>3 DEF Typed, Speak

LEMMA EndTurnTyped == ASSUME Typed, NEW k \in Threads, EndTurn(k) PROVE Typed'
<1>1. provider' \in ProviderType /\ ingestion' \in IngestionType
  BY TurnEndsKeeps DEF EndTurn
<1> QED
  BY <1>1 DEF Typed, EndTurn

LEMMA ExitTyped == ASSUME Typed, NEW k \in Threads, Exit(k) PROVE Typed'
<1>1. ingestion' \in IngestionType
  BY FarewellIsGood, TellKeeps DEF Exit
<1>2. provider' \in ProviderType
  BY NoSessionIsGood, ProviderKeeps DEF Exit
<1>3. past' \in PastType
  <2>1. past \in PastType /\ past' = [past EXCEPT !.cut = @ \cup Unfinished(k)]
    BY DEF Typed, Exit
  <2>2. Unfinished(k) \subseteq Turns
    BY UnfinishedIsGood
  <2> QED
    BY <2>1, <2>2 DEF PastType
<1>4. budget' \in BudgetType
  BY BudgetKept DEF Exit
<1> QED
  BY <1>1, <1>2, <1>3, <1>4 DEF Typed, Exit

\* A remark is one event of the session, and changes only what is known of it.
Noted == {"session.state.changed", "thread.started", "runtime.error"}

LEMMA RemarkTells ==
  ASSUME Typed, NEW k \in Threads, Remark(k)
  PROVE  /\ past' \in PastType /\ past.disowned \subseteq past'.disowned
         /\ past.claimed \subseteq past'.claimed
         /\ past'.told = past.told /\ past'.sent = past.sent /\ past'.lost = past.lost
         /\ past'.switched = past.switched /\ past'.cut = past.cut
         /\ past'.ignored = past.ignored /\ past'.stale = past.stale
         /\ \E e \in GoodEvent :
               /\ Tell(<<e>>) /\ e.type \in Noted /\ e.thread = k
               /\ e.type = "runtime.error" => \/ e.turn = provider[k].turn
                                              \/ provider[k].turn \in {0} \cup past'.disowned
               /\ e.type = "runtime.error" => e.turn \in {0, provider[k].turn}
               /\ e.type = "session.state.changed" => k \in past'.claimed
<1> DEFINE t == provider[k].turn
           change == Event("session.state.changed", k, 0, 0)
           start == Event("thread.started", k, 0, 0)
           error(u) == Event("runtime.error", k, u, 0)
<1>1. past \in PastType /\ t \in 0 .. MaxTurns /\ {t} \ {0} \subseteq Turns /\ 0 \in 0 .. MaxTurns
  BY SessionOf, TurnAssumption DEF Typed, Turns
<1>2. /\ change \in GoodEvent /\ start \in GoodEvent
      /\ \A u \in 0 .. MaxTurns : error(u) \in GoodEvent
  BY <1>1, EventIsGood DEF Lifecycle
<1>3. /\ change.type = "session.state.changed" /\ change.thread = k
      /\ start.type = "thread.started" /\ start.thread = k
      /\ \A u : error(u).type = "runtime.error" /\ error(u).thread = k /\ error(u).turn = u
  BY DEF Event
<1>4. \/ Tell(<<change>>) /\ past' = [past EXCEPT !.claimed = @ \cup {k}]
      \/ Tell(<<start>>) /\ UNCHANGED past
      \/ Tell(<<error(t)>>) /\ UNCHANGED past
      \/ Tell(<<error(0)>>) /\ past' = [past EXCEPT !.disowned = @ \cup ({t} \ {0})]
  BY DEF Remark
<1> HIDE DEF t, change, start, error
<1>5. CASE Tell(<<change>>) /\ past' = [past EXCEPT !.claimed = @ \cup {k}]
  BY <1>1, <1>2, <1>3, <1>5 DEF PastType, Noted
<1>6. CASE Tell(<<start>>) /\ UNCHANGED past
  BY <1>1, <1>2, <1>3, <1>6 DEF PastType, Noted
<1>7. CASE Tell(<<error(t)>>) /\ UNCHANGED past
  BY <1>1, <1>2, <1>3, <1>7 DEF PastType, Noted, t
<1>8. CASE Tell(<<error(0)>>) /\ past' = [past EXCEPT !.disowned = @ \cup ({t} \ {0})]
  <2>1. /\ past' \in PastType /\ past'.disowned = past.disowned \cup ({t} \ {0})
        /\ past'.claimed = past.claimed
        /\ past'.told = past.told /\ past'.sent = past.sent /\ past'.lost = past.lost
        /\ past'.switched = past.switched /\ past'.cut = past.cut
        /\ past'.ignored = past.ignored /\ past'.stale = past.stale
    BY <1>1, <1>8 DEF PastType
  <2>2. t \in {0} \cup past'.disowned
    BY <2>1
  <2> QED
    BY <1>1, <1>2, <1>3, <1>8, <2>1, <2>2 DEF Noted, t
<1> QED
  BY <1>4, <1>5, <1>6, <1>7, <1>8

LEMMA RemarkTyped == ASSUME Typed, NEW k \in Threads, Remark(k) PROVE Typed'
<1>1. past' \in PastType /\ \E e \in GoodEvent : Tell(<<e>>)
  BY RemarkTells
<1>2. ingestion' \in IngestionType
  BY <1>1, OneIsSeq, TellKeeps
<1>3. budget' \in BudgetType
  BY BudgetKept DEF Remark
<1> QED
  BY <1>1, <1>2, <1>3 DEF Typed, Remark

LEMMA TakeStartTyped == ASSUME Typed, TakeStart PROVE Typed'
<1>1. /\ commands.queue # <<>> /\ Asked.thread \in Threads /\ Asked.turn \in Turns
  BY AskedIsGood DEF TakeStart
<1>2. Asked.turn \in 0 .. MaxTurns
  BY <1>1, TurnAssumption DEF Turns
<1>3. PICK op \in {"session", "send"} : Take(Works(op, Asked.thread, Asked.turn))
  BY DEF TakeStart
<1>4. op \in {"session", "bind", "send", "stopped"} /\ op # "stopped"
  OBVIOUS
<1>5. Works(op, Asked.thread, Asked.turn) \in GoodWork
  BY <1>1, <1>2, <1>4, WorksIsGood
<1>6. commands' \in CommandsType
  BY <1>1, <1>3, <1>5, TakeKeeps
<1> QED
  BY <1>6 DEF Typed, TakeStart

LEMMA TakeRestartTyped == ASSUME Typed, TakeRestart PROVE Typed'
<1>1. commands.queue # <<>> /\ Asked.thread \in Threads
  BY AskedIsGood DEF TakeRestart
<1> DEFINE w == IF LooksStopped(Asked.thread) THEN Idle ELSE Works("session", Asked.thread, 0)
<1>2. w \in GoodWork
  <2>1. 0 \in 0 .. MaxTurns
    BY TurnAssumption
  <2>2. Works("session", Asked.thread, 0) \in GoodWork
    BY <1>1, <2>1, WorksIsGood
  <2> QED
    BY <2>2, IdleIsWork
<1>3. Take(w)
  BY DEF TakeRestart
<1> HIDE DEF w
<1>4. commands' \in CommandsType
  BY <1>1, <1>2, <1>3, TakeKeeps
<1> QED
  BY <1>4 DEF Typed, TakeRestart

LEMMA StartSessionTyped == ASSUME Typed, StartSession PROVE Typed'
<1> DEFINE w == commands.work
           k == w.thread
<1>1. /\ w \in [op : {"session", "bind", "send", "stopped"}, thread : Threads, turn : 0 .. MaxTurns]
      /\ k \in Threads /\ {w.turn} \ {0} \subseteq Turns
  BY WorkAtHand DEF StartSession
<1>2. Unfinished(k) \subseteq Turns /\ past \in PastType /\ bound \subseteq Threads
  BY <1>1, UnfinishedIsGood DEF Typed
<1>3. UNCHANGED <<owner, shown, reply, output>>
  BY DEF StartSession
<1>4. budget' \in BudgetType
  BY BudgetKept DEF StartSession
<1>5. CASE /\ \E told \in Farewell(k) : Tell(told \o <<Event("session.started", k, 0, 0)>>)
           /\ provider' = [provider EXCEPT ![k] = [NoSession EXCEPT !.alive = TRUE]]
           /\ bound' = bound \cup {k}
           /\ past' = [past EXCEPT !.cut = @ \cup Unfinished(k)]
           /\ Then([w EXCEPT !.op = "bind"])
  <2>1. ingestion' \in IngestionType
    <3>1. PICK told \in Farewell(k) : Tell(told \o <<Event("session.started", k, 0, 0)>>)
      BY <1>5
    <3>2. Event("session.started", k, 0, 0) \in GoodEvent
      BY <1>1, EventIsGood, TurnAssumption DEF Lifecycle
    <3>3. told \o <<Event("session.started", k, 0, 0)>> \in Seq(GoodEvent)
      BY <1>1, <3>2, FarewellIsGood, OneIsSeq, ConcatIsSeq
    <3> QED
      BY <3>1, <3>3, TellKeeps
  <2>2. provider' \in ProviderType
    BY <1>1, <1>5, FreshSessionIsGood, ProviderKeeps
  <2>3. [w EXCEPT !.op = "bind"] \in GoodWork
    BY <1>1 DEF GoodWork, Work
  <2>4. commands' \in CommandsType
    BY <1>5, <2>3, ThenKeeps
  <2>5. past' \in PastType
    BY <1>2, <1>5 DEF PastType
  <2>6. bound' \subseteq Threads
    BY <1>1, <1>2, <1>5
  <2> QED
    BY <1>3, <1>4, <2>1, <2>2, <2>4, <2>5, <2>6 DEF Typed
<1>6. CASE /\ Then(Idle)
           /\ \E told \in Farewell(k) : Tell(told)
           /\ provider' = [provider EXCEPT ![k] = NoSession]
           /\ past' = [past EXCEPT !.told = @ \cup ({w.turn} \ {0}), !.cut = @ \cup Unfinished(k)]
           /\ UNCHANGED bound
  <2>1. ingestion' \in IngestionType
    BY <1>1, <1>6, FarewellIsGood, TellKeeps
  <2>2. provider' \in ProviderType
    BY <1>1, <1>6, NoSessionIsGood, ProviderKeeps
  <2>3. commands' \in CommandsType
    BY <1>6, IdleIsWork, ThenKeeps
  <2>4. past' \in PastType
    BY <1>1, <1>2, <1>6 DEF PastType
  <2> QED
    BY <1>2, <1>3, <1>4, <1>6, <2>1, <2>2, <2>3, <2>4 DEF Typed
<1> QED
  BY <1>5, <1>6 DEF StartSession

LEMMA BindTyped == ASSUME Typed, Bind PROVE Typed'
<1> DEFINE w == commands.work
<1>1. /\ w \in [op : {"session", "bind", "send", "stopped"}, thread : Threads, turn : 0 .. MaxTurns]
      /\ {w.turn} \ {0} \subseteq Turns
  BY WorkAtHand DEF Bind
<1>2. UNCHANGED <<owner, reply, bound, provider, output, ingestion>>
  BY DEF Bind
<1>3. budget' \in BudgetType
  BY BudgetKept DEF Bind
<1>4. CASE /\ Show(w.thread, "ready", 0)
           /\ Then(IF w.turn = 0 THEN Idle ELSE [w EXCEPT !.op = "send"])
           /\ UNCHANGED past
  <2>1. 0 \in 0 .. MaxTurns
    BY TurnAssumption
  <2>2. shown' \in ShownType
    BY <1>1, <1>4, <2>1, ShowKeeps
  <2>3. w.turn # 0 => [w EXCEPT !.op = "send"] \in GoodWork
    BY <1>1 DEF GoodWork, Work
  <2>4. commands' \in CommandsType
    BY <1>4, <2>3, IdleIsWork, ThenKeeps
  <2> QED
    BY <1>2, <1>3, <1>4, <2>2, <2>4 DEF Typed
<1>5. CASE Fails(w) /\ UNCHANGED shown
  <2>1. past' \in PastType /\ commands' \in CommandsType
    BY <1>1, <1>5, FailsKeeps
  <2> QED
    BY <1>2, <1>3, <1>5, <2>1 DEF Typed
<1> QED
  BY <1>4, <1>5 DEF Bind

LEMMA SendTyped == ASSUME Typed, Send PROVE Typed'
<1> DEFINE w == commands.work
           k == w.thread
<1>1. k \in Threads /\ w.turn \in Turns /\ {w.turn} \ {0} \subseteq Turns
  BY WorkAtHand DEF Send
<1>2. UNCHANGED <<owner, shown, reply, bound, output>>
  BY DEF Send
<1>3. budget' \in BudgetType
  BY BudgetKept DEF Send
<1>4. past' \in PastType /\ commands' \in CommandsType
  <2>1. CASE past' = [past EXCEPT !.sent = @ \cup {w.turn}] /\ Then(Idle)
    <3>1. past \in PastType
      BY DEF Typed
    <3>2. past' \in PastType
      BY <1>1, <2>1, <3>1 DEF PastType
    <3> QED
      BY <2>1, <3>2, IdleIsWork, ThenKeeps
  <2>2. CASE Fails(w)
    BY <1>1, <2>2, FailsKeeps
  <2>3. CASE GivesBack(k, w.turn)
    <3>1. /\ past \in PastType
          /\ past' = [past EXCEPT !.told = @ \cup {w.turn}, !.stale = @ \cup {k}]
      BY <2>3 DEF Typed, GivesBack
    <3>2. past' \in PastType
      BY <1>1, <3>1 DEF PastType
    <3> QED
      BY <2>3, <3>2, IdleIsWork, ThenKeeps DEF GivesBack
  <2> QED
    BY <2>1, <2>2, <2>3 DEF Send
<1>5. provider' \in ProviderType /\ ingestion' \in IngestionType
  <2>1. CASE /\ provider' = [provider EXCEPT ![k] = WithTurn(Routed(k), w.turn)]
             /\ Tell(Recovery(k) \o TurnStarted(Routed(k), k, w.turn))
    <3>1. /\ Routed(k) \in GoodSession /\ Routed(k).alive /\ Recovery(k) \in Seq(GoodEvent)
      BY <1>1, RoutedIsGood
    <3>2. /\ WithTurn(Routed(k), w.turn) \in GoodSession
          /\ TurnStarted(Routed(k), k, w.turn) \in Seq(GoodEvent)
      BY <1>1, <3>1, WithTurnIsGood
    <3>3. Recovery(k) \o TurnStarted(Routed(k), k, w.turn) \in Seq(GoodEvent)
      BY <3>1, <3>2, ConcatIsSeq
    <3> QED
      BY <1>1, <2>1, <3>2, <3>3, ProviderKeeps, TellKeeps
  <2>2. CASE UNCHANGED <<provider, ingestion>>
    BY <2>2 DEF Typed
  <2>3. CASE GivesBack(k, w.turn)
    <3> DEFINE began == Event("turn.started", k, w.turn, 0)
    <3>1. Routed(k) \in GoodSession /\ Recovery(k) \in Seq(GoodEvent)
      BY <1>1, RoutedIsGood
    <3>2. began \in GoodEvent
      BY <1>1, EventIsGood, TurnAssumption DEF Lifecycle, Turns
    <3> HIDE DEF began
    <3>3. Recovery(k) \o <<began>> \in Seq(GoodEvent)
      BY <3>1, <3>2, OneIsSeq, ConcatIsSeq
    <3> QED
      BY <1>1, <2>3, <3>1, <3>3, ProviderKeeps, TellKeeps DEF GivesBack, began
  <2> QED
    BY <2>1, <2>2, <2>3 DEF Send
<1> QED
  BY <1>2, <1>3, <1>4, <1>5 DEF Typed

LEMMA TakeInterruptTyped == ASSUME Typed, TakeInterrupt PROVE Typed'
<1> DEFINE k == Asked.thread
<1>1. commands.queue # <<>> /\ k \in Threads
  BY AskedIsGood DEF TakeInterrupt
<1>2. commands' \in CommandsType
  BY <1>1, IdleIsWork, TakeKeeps DEF TakeInterrupt
<1>3. provider' \in ProviderType /\ ingestion' \in IngestionType
  <2>1. CASE UNCHANGED <<provider, ingestion>>
    BY <2>1 DEF Typed
  <2>2. CASE provider[k].turn # 0 /\ TurnEnds(k)
    BY <1>1, <2>2, TurnEndsKeeps
  <2>3. CASE provider' = [provider EXCEPT ![k] = Routed(k)] /\ Tell(Recovery(k))
    BY <1>1, <2>3, RoutedIsGood, ProviderKeeps, TellKeeps
  <2> QED
    BY <2>1, <2>2, <2>3 DEF TakeInterrupt
<1> QED
  BY <1>2, <1>3 DEF Typed, TakeInterrupt

LEMMA TakeStopTyped == ASSUME Typed, TakeStop PROVE Typed'
<1> DEFINE k == Asked.thread
<1>1. commands.queue # <<>> /\ k \in Threads
  BY AskedIsGood DEF TakeStop
<1>2. Works("stopped", k, 0) \in GoodWork
  BY <1>1, WorksIsGood, TurnAssumption
<1>3. commands' \in CommandsType
  BY <1>1, <1>2, IdleIsWork, TakeKeeps DEF TakeStop
<1>4. past \in PastType /\ bound \subseteq Threads /\ Unfinished(k) \subseteq Turns
  BY <1>1, UnfinishedIsGood DEF Typed
<1>5. budget' \in BudgetType
  BY BudgetKept DEF TakeStop
<1>6. /\ provider' \in ProviderType /\ ingestion' \in IngestionType
      /\ bound' \subseteq Threads /\ past' \in PastType
  <2>1. CASE /\ past' = [past EXCEPT !.ignored = IF provider[k].alive THEN @ \cup {k} ELSE @]
             /\ UNCHANGED <<provider, ingestion, bound, budget>>
    <3>1. past' \in PastType
      BY <1>1, <1>4, <2>1 DEF PastType
    <3> QED
      BY <2>1, <3>1 DEF Typed
  <2>2. CASE StopSession(k)
    <3>1. ingestion' \in IngestionType
      BY <1>1, <2>2, FarewellIsGood, TellKeeps DEF StopSession
    <3>2. provider' \in ProviderType
      BY <1>1, <2>2, NoSessionIsGood, ProviderKeeps DEF StopSession
    <3>3. past' = [past EXCEPT !.cut = @ \cup Unfinished(k)] /\ bound' = bound \ {k}
      BY <2>2 DEF StopSession
    <3>4. past' \in PastType
      BY <1>4, <3>3 DEF PastType
    <3> QED
      BY <1>4, <3>1, <3>2, <3>3, <3>4
  <2>3. CASE UNCHANGED <<provider, ingestion, bound, past>>
    BY <2>3 DEF Typed
  <2> QED
    BY <2>1, <2>2, <2>3 DEF TakeStop
<1> QED
  BY <1>3, <1>5, <1>6 DEF Typed, TakeStop

LEMMA SetStoppedTyped == ASSUME Typed, SetStopped PROVE Typed'
<1>1. commands.work.thread \in Threads
  BY WorkAtHand DEF SetStopped
<1>2. shown' \in ShownType
  BY <1>1, ShowKeeps, TurnAssumption DEF SetStopped
<1>3. commands' \in CommandsType
  BY IdleIsWork, ThenKeeps DEF SetStopped
<1> QED
  BY <1>2, <1>3 DEF Typed, SetStopped

LEMMA TakeModeTyped == ASSUME Typed, TakeMode PROVE Typed'
<1>1. ingestion \in IngestionType /\ past \in PastType
  BY DEF Typed
<1>2. Head(ingestion.modes) \in Modes /\ Tail(ingestion.modes) \in Seq(Modes)
  BY <1>1, HeadTailIn DEF IngestionType, TakeMode
<1>3. ingestion' = [ingestion EXCEPT !.modes = Tail(@), !.mode = Head(ingestion.modes)]
  BY DEF TakeMode
<1>4. ingestion' \in IngestionType
  BY <1>1, <1>2, <1>3 DEF IngestionType
<1>5. past' \in PastType
  <2> DEFINE more == IF Head(ingestion.modes) = "streaming"
                     THEN {t \in Turns : ingestion.buffer[t] # <<>>} ELSE {}
  <2>1. more \subseteq Turns /\ past' = [past EXCEPT !.switched = @ \cup more]
    BY DEF TakeMode
  <2> HIDE DEF more
  <2> QED
    BY <1>1, <2>1 DEF PastType
<1> QED
  BY <1>4, <1>5 DEF Typed, TakeMode

\* The next runtime event.
LEMMA NextEvent ==
  ASSUME Typed, ingestion.runtime # <<>>
  PROVE  Head(ingestion.runtime) \in GoodEvent /\ Tail(ingestion.runtime) \in Seq(GoodEvent)
         /\ Head(ingestion.runtime).thread \in Threads
<1>1. ingestion.runtime \in Seq(GoodEvent)
  BY DEF Typed, IngestionType
<1>2. Head(ingestion.runtime) \in GoodEvent /\ Tail(ingestion.runtime) \in Seq(GoodEvent)
  BY <1>1, HeadTailIn
<1> QED
  BY <1>2 DEF GoodEvent, RuntimeEvent

LEMMA ReadLifecycleTyped == ASSUME Typed, ReadLifecycle PROVE Typed'
<1> DEFINE e == Head(ingestion.runtime)
           r == <<e, shown[e.thread].active>>
<1>1. e \in GoodEvent /\ Tail(ingestion.runtime) \in Seq(GoodEvent) /\ e.thread \in Threads
  BY NextEvent DEF ReadLifecycle
<1>2. shown[e.thread].active \in 0 .. MaxTurns
  BY <1>1 DEF Typed, ShownType
<1>3. r \in Reading
  BY <1>1, <1>2 DEF ReadLifecycle, Reading
<1>4. ingestion' = [ingestion EXCEPT !.runtime = Tail(@), !.reading = r]
  BY DEF ReadLifecycle
<1> HIDE DEF r
<1>5. ingestion' \in IngestionType
  <2>1. ingestion \in IngestionType
    BY DEF Typed
  <2> QED
    BY <1>1, <1>3, <1>4, <2>1 DEF IngestionType
<1> QED
  BY <1>5 DEF Typed, ReadLifecycle

\* The event in hand.
LEMMA ReadingOf ==
  ASSUME Typed, ~Calm
  PROVE  /\ ingestion.reading[1] \in GoodEvent /\ ingestion.reading[2] \in 0 .. MaxTurns
         /\ ingestion.reading[1].thread \in Threads /\ ingestion.reading[1].type \in Lifecycle
         /\ ingestion.reading[1].turn \in 0 .. MaxTurns
<1>1. ingestion.reading \in {e \in GoodEvent : e.type \in Lifecycle} \X (0 .. MaxTurns)
  BY DEF Typed, IngestionType, Calm, Reading
<1> QED
  BY <1>1 DEF GoodEvent, RuntimeEvent

LEMMA ApplyLifecycleTyped == ASSUME Typed, ApplyLifecycle PROVE Typed'
<1> DEFINE e == ingestion.reading[1]
           active == ingestion.reading[2]
           done == [ingestion EXCEPT !.reading = <<>>]
<1>1. /\ e \in GoodEvent /\ active \in 0 .. MaxTurns /\ e.thread \in Threads
      /\ e.turn \in 0 .. MaxTurns /\ e.type \in Lifecycle
  BY ReadingOf DEF ApplyLifecycle
<1>2. ingestion \in IngestionType
  BY DEF Typed
<1>3. done \in IngestionType
  BY <1>2 DEF IngestionType
<1>4. shown' \in ShownType
  <2>1. shown \in ShownType
    BY DEF Typed
  <2>2. ShownAfter(e, active)
          \subseteq [status : {"none", "starting", "ready", "running", "error", "stopped"},
                     active : 0 .. MaxTurns]
    BY <1>1, TurnAssumption DEF ShownAfter, Lifecycle
  <2>3. \/ \E s \in ShownAfter(e, active) : shown' = [shown EXCEPT ![e.thread] = s]
        \/ UNCHANGED shown
    BY DEF ApplyLifecycle
  <2> HIDE DEF e, active
  <2> QED
    BY <1>1, <2>1, <2>2, <2>3 DEF ShownType
<1>5. reply' \in ReplyType /\ ingestion' \in IngestionType
  <2>1. CASE Closes(e, active) /\ Complete(done, e.turn, 0)
    <3>1. e.turn \in Turns /\ 0 \in 0 .. MaxPieces
      BY <1>2, <2>1, TurnAssumption DEF Closes, IngestionType
    <3> HIDE DEF done
    <3> QED
      BY <1>3, <2>1, <3>1, CompleteKeeps
  <2>2. CASE /\ ingestion' = IF e.type = "session.exited" THEN Cleared(done, e.thread) ELSE done
             /\ UNCHANGED reply
    <3> HIDE DEF done
    <3> DEFINE b == [t \in Turns |-> IF t \in done.open \cap Of(e.thread) THEN <<>>
                                    ELSE done.buffer[t]]
    <3>1. b \in [Turns -> {s \in Text : Len(s) <= BufferLimit}]
      BY <1>3, EmptyIsShort DEF IngestionType
    <3>2. Cleared(done, e.thread) = [done EXCEPT !.open = @ \ Of(e.thread), !.buffer = b]
      BY DEF Cleared
    <3>3. Cleared(done, e.thread) \in IngestionType
      <4> HIDE DEF b
      <4> QED
        BY <1>3, <3>1, <3>2 DEF IngestionType
    <3> QED
      BY <1>3, <2>2, <3>3 DEF Typed
  <2> QED
    BY <2>1, <2>2 DEF ApplyLifecycle
<1> QED
  BY <1>4, <1>5 DEF Typed, ApplyLifecycle

LEMMA TakeDeltaTyped == ASSUME Typed, TakeDelta PROVE Typed'
<1> DEFINE e == Head(ingestion.runtime)
           t == e.turn
           text == Append(ingestion.buffer[t], e.piece)
           taken == [ingestion EXCEPT !.runtime = Tail(@), !.open = @ \cup {t}]
           Short == {s \in Text : Len(s) <= BufferLimit}
<1>1. e \in GoodEvent /\ Tail(ingestion.runtime) \in Seq(GoodEvent) /\ e.type = "content.delta"
  BY NextEvent DEF TakeDelta
<1>2. t \in Turns /\ e.piece \in 1 .. MaxPieces
  BY <1>1 DEF GoodEvent
<1>3. ingestion \in IngestionType /\ reply \in ReplyType
  BY DEF Typed
<1>4. ingestion.buffer \in [Turns -> Short] /\ ingestion.buffer[t] \in Text /\ reply[t].text \in Text
  BY <1>2, <1>3 DEF IngestionType, ReplyType
<1>5. text \in Text /\ Append(reply[t].text, e.piece) \in Text /\ reply[t].text \o text \in Text
  BY <1>2, <1>4, AppendIsSeq, ConcatIsSeq DEF Text
<1>6. taken \in IngestionType /\ taken.buffer = ingestion.buffer
  BY <1>1, <1>2, <1>3 DEF IngestionType
<1> HIDE DEF text, taken, t
<1>7. reply' \in ReplyType /\ ingestion' \in IngestionType
  <2>1. CASE /\ reply' = [reply EXCEPT ![t] = [text |-> Append(@.text, e.piece), complete |-> FALSE]]
             /\ ingestion' = taken
    BY <1>2, <1>3, <1>5, <1>6, <2>1 DEF ReplyType
  <2>2. CASE /\ Len(text) <= BufferLimit
             /\ ingestion' = [taken EXCEPT !.buffer = [@ EXCEPT ![t] = text]]
             /\ UNCHANGED reply
    <3> DEFINE b == [ingestion.buffer EXCEPT ![t] = text]
    <3>1. b \in [Turns -> Short]
      BY <1>2, <1>4, <1>5, <2>2
    <3>2. ingestion' = [taken EXCEPT !.buffer = b]
      BY <1>6, <2>2
    <3> HIDE DEF b
    <3> QED
      BY <1>3, <1>6, <2>2, <3>1, <3>2 DEF IngestionType
  <2>3. CASE /\ reply' = [reply EXCEPT ![t] = [text |-> @.text \o text, complete |-> FALSE]]
             /\ ingestion' = [taken EXCEPT !.buffer = [@ EXCEPT ![t] = <<>>]]
    <3> DEFINE b == [ingestion.buffer EXCEPT ![t] = <<>>]
    <3>1. b \in [Turns -> Short]
      BY <1>2, <1>4, EmptyIsShort
    <3>2. ingestion' = [taken EXCEPT !.buffer = b]
      BY <1>6, <2>3
    <3>3. reply' \in ReplyType
      BY <1>2, <1>3, <1>5, <2>3 DEF ReplyType
    <3> HIDE DEF b
    <3> QED
      BY <1>6, <3>1, <3>2, <3>3 DEF IngestionType
  <2> QED
    BY <2>1, <2>2, <2>3 DEF TakeDelta, text, taken, t
<1> QED
  BY <1>7 DEF Typed, TakeDelta

LEMMA TakeItemTyped == ASSUME Typed, TakeItem PROVE Typed'
<1> DEFINE e == Head(ingestion.runtime)
           i == [ingestion EXCEPT !.runtime = Tail(@)]
<1>1. e \in GoodEvent /\ Tail(ingestion.runtime) \in Seq(GoodEvent) /\ e.type = "item.completed"
  BY NextEvent DEF TakeItem
<1>2. e.turn \in Turns /\ e.piece \in 0 .. MaxPieces
  BY <1>1 DEF GoodEvent, RuntimeEvent
<1>3. i \in IngestionType
  <2>1. ingestion \in IngestionType
    BY DEF Typed
  <2> QED
    BY <1>1, <2>1 DEF IngestionType
<1>4. Complete(i, e.turn, e.piece)
  BY DEF TakeItem
<1> HIDE DEF i
<1>5. reply' \in ReplyType /\ ingestion' \in IngestionType
  BY <1>2, <1>3, <1>4, CompleteKeeps
<1> QED
  BY <1>5 DEF Typed, TakeItem

\* Turns asked for that the worker has not sent.
LEMMA RequestedIsGood == ASSUME Typed PROVE Requested \subseteq Turns
<1>1. \A i \in 1 .. Len(commands.queue) : commands.queue[i].turn \in 0 .. MaxTurns
  <2>1. commands.queue \in Seq(GoodCommand)
    BY DEF Typed, CommandsType
  <2>2. \A i \in 1 .. Len(commands.queue) : commands.queue[i] \in GoodCommand
    BY <2>1
  <2> QED
    BY <2>2 DEF GoodCommand, Command
<1>2. commands.work # Idle => commands.work.turn \in 0 .. MaxTurns
  BY DEF Typed, CommandsType, GoodWork, Work
<1> QED
  BY <1>1, <1>2, TurnAssumption DEF Requested, Turns

LEMMA CrashTyped == ASSUME Typed, Crash PROVE Typed'
<1>1. provider' \in ProviderType
  BY NoSessionIsGood DEF Crash, ProviderType
<1>2. commands' \in CommandsType
  BY IdleIsWork, EmptyIsSeq DEF Crash, CommandsType
<1>3. ingestion' \in IngestionType
  <2>1. /\ <<>> \in Seq(GoodEvent) /\ <<>> \in Seq(Modes)
        /\ [t \in Turns |-> <<>>] \in [Turns -> {s \in Text : Len(s) <= BufferLimit}]
    BY EmptyIsSeq, EmptyIsShort
  <2> QED
    BY <2>1 DEF Crash, IngestionType, Modes
<1>4. past' \in PastType
  <2>1. past \in PastType /\ Requested \subseteq Turns
    BY RequestedIsGood DEF Typed
  <2> DEFINE cut == {t \in Turns : output[t].pieces > 0}
             stale == {k \in Threads : ~LooksStopped(k)}
  <2>2. cut \subseteq Turns /\ stale \subseteq Threads
    OBVIOUS
  <2>3. past' = [past EXCEPT !.lost = @ \cup Requested, !.cut = @ \cup cut, !.stale = @ \cup stale]
    BY DEF Crash
  <2> HIDE DEF cut, stale
  <2> QED
    BY <2>1, <2>2, <2>3 DEF PastType
<1>5. budget' \in BudgetType
  BY BudgetKept DEF Crash
<1> QED
  BY <1>1, <1>2, <1>3, <1>4, <1>5 DEF Typed, Crash

LEMMA InitTyped == Init => Typed
<1> SUFFICES ASSUME Init PROVE Typed
  OBVIOUS
<1>1. 0 \in 0 .. MaxTurns /\ 0 \in 0 .. MaxPieces /\ MaxStops \in 0 .. MaxStops
      /\ MaxTroubles \in 0 .. MaxTroubles
  BY TurnAssumption
<1>2. owner \in [Turns -> Threads \cup {0}] /\ bound \subseteq Threads
  BY DEF Init
<1>3. shown \in ShownType
  BY <1>1 DEF Init, ShownType
<1>4. reply \in ReplyType
  <2>1. <<>> \in Text
    BY EmptyIsSeq DEF Text
  <2> QED
    BY <2>1 DEF Init, ReplyType
<1>5. commands \in CommandsType
  BY IdleIsWork, EmptyIsSeq DEF Init, CommandsType
<1>6. provider \in ProviderType
  BY NoSessionIsGood DEF Init, ProviderType
<1>7. output \in OutputType
  BY <1>1 DEF Init, OutputType
<1>8. ingestion \in IngestionType
  <2>1. /\ <<>> \in Seq(GoodEvent) /\ <<>> \in Seq(Modes)
        /\ [t \in Turns |-> <<>>] \in [Turns -> {s \in Text : Len(s) <= BufferLimit}]
    BY EmptyIsSeq, EmptyIsShort
  <2> QED
    BY <2>1 DEF Init, IngestionType, Modes
<1>9. past \in PastType /\ budget \in BudgetType
  BY <1>1 DEF Init, PastType, BudgetType
<1> QED
  BY <1>2, <1>3, <1>4, <1>5, <1>6, <1>7, <1>8, <1>9 DEF Typed

LEMMA NextTyped == ASSUME Typed, [Next]_vars PROVE Typed'
<1>1. CASE UNCHANGED vars
  BY <1>1 DEF vars, Typed
<1>2. CASE RequestTurn \/ RequestStop
  BY <1>2, RequestTurnTyped, RequestStopTyped
<1>3. CASE \E k \in Threads : Speak(k) \/ EndTurn(k) \/ Exit(k) \/ Remark(k)
  BY <1>3, SpeakTyped, EndTurnTyped, ExitTyped, RemarkTyped
<1>4. CASE TakeStart \/ TakeRestart \/ StartSession \/ Bind \/ Send
  BY <1>4, TakeStartTyped, TakeRestartTyped, StartSessionTyped, BindTyped, SendTyped
<1>5. CASE TakeInterrupt \/ TakeStop \/ SetStopped
  BY <1>5, TakeInterruptTyped, TakeStopTyped, SetStoppedTyped
<1>6. CASE TakeMode \/ ReadLifecycle \/ ApplyLifecycle \/ TakeDelta \/ TakeItem
  BY <1>6, TakeModeTyped, ReadLifecycleTyped, ApplyLifecycleTyped, TakeDeltaTyped, TakeItemTyped
<1>7. CASE Crash
  BY <1>7, CrashTyped
<1> QED
  BY <1>1, <1>2, <1>3, <1>4, <1>5, <1>6, <1>7 DEF Next

\* Types, with those of queued commands and of runtime events on their way.
THEOREM TypedHolds == Spec => []Typed
  BY InitTyped, NextTyped, PTL DEF Spec

---------------------------------------------------------------------------
(* Every turn asked for is answered.                                       *)

\* No request is ever forgotten: it is with the worker, or it was answered.
Answered ==
    \A t \in Turns :
        owner[t] # 0 => t \in past.sent \cup past.told \cup past.lost \cup Requested

LEMMA AskAdds ==
  ASSUME Typed, NEW c \in GoodCommand, Ask(c)
  PROVE  Requested \subseteq Requested' /\ {c.turn} \ {0} \subseteq Requested'
<1>1. commands \in CommandsType /\ commands.queue \in Seq(GoodCommand)
  BY DEF Typed, CommandsType
<1> DEFINE q == commands.queue
           r == Append(commands.queue, c)
<1>2. Len(r) = Len(q) + 1 /\ Len(q) \in Nat /\ r[Len(q) + 1] = c /\ \A i \in 1 .. Len(q) : r[i] = q[i]
  BY <1>1
<1>3. commands'.queue = r /\ commands'.work = commands.work
  <2>1. commands' = [commands EXCEPT !.queue = Append(@, c)]
    BY DEF Ask
  <2> QED
    BY <1>1, <2>1 DEF CommandsType
<1> HIDE DEF r
<1>4. {q[i].turn : i \in 1 .. Len(q)} \cup {c.turn} \subseteq {r[i].turn : i \in 1 .. Len(r)}
  <2>1. ASSUME NEW i \in 1 .. Len(q) PROVE q[i].turn \in {r[j].turn : j \in 1 .. Len(r)}
    <3>1. i \in 1 .. Len(r) /\ r[i] = q[i]
      BY <1>2
    <3> QED
      BY <3>1
  <2>2. Len(r) \in 1 .. Len(r) /\ r[Len(r)] = c
    BY <1>2
  <2> QED
    BY <2>1, <2>2
<1> DEFINE waiting == {q[i].turn : i \in 1 .. Len(q)}
           later == {r[i].turn : i \in 1 .. Len(r)}
           inHand == IF commands.work = Idle THEN {} ELSE {commands.work.turn}
<1>5. Requested = (waiting \cup inHand) \ {0} /\ Requested' = (later \cup inHand) \ {0}
  BY <1>3 DEF Requested
<1>6. waiting \cup {c.turn} \subseteq later
  BY <1>4
<1> HIDE DEF waiting, later, inHand
<1> QED
  BY <1>5, <1>6

\* The turn of a command goes to the work that is begun for it.
LEMMA TakeMoves ==
  ASSUME Typed, NEW type, Takes(type), NEW w, Take(w), Asked.turn = 0 \/ (w # Idle /\ w.turn = Asked.turn)
  PROVE  Requested \subseteq Requested'
<1> DEFINE q == commands.queue
           r == Tail(commands.queue)
<1>1. q \in Seq(GoodCommand) /\ q # <<>> /\ commands.work = Idle
  BY DEF Typed, CommandsType, Takes
<1>2. /\ Len(q) \in Nat /\ Len(q) > 0 /\ Asked = q[1] /\ Len(r) = Len(q) - 1
      /\ \A i \in 1 .. Len(r) : r[i] = q[i + 1]
  BY <1>1, HeadThenTail DEF Asked
<1>3. commands'.queue = r /\ commands'.work = w
  BY DEF Take
<1> HIDE DEF r
<1>4. ASSUME NEW i \in 1 .. Len(q)
      PROVE  q[i].turn \in {r[j].turn : j \in 1 .. Len(r)} \cup {Asked.turn}
  <2>1. CASE i = 1
    BY <1>2, <2>1
  <2>2. CASE i # 1
    <3>1. i - 1 \in 1 .. Len(r) /\ r[i - 1] = q[i]
      BY <1>2, <2>2
    <3> QED
      BY <3>1
  <2> QED
    BY <2>1, <2>2
<1> QED
  BY <1>1, <1>3, <1>4 DEF Requested

\* The worker goes on: only the turn in its hands may leave.
LEMMA ThenMoves ==
  ASSUME Typed, commands.work # Idle, NEW w, Then(w)
  PROVE  /\ Requested \subseteq Requested' \cup {commands.work.turn}
         /\ w # Idle /\ w.turn = commands.work.turn => Requested \subseteq Requested'
<1>1. commands \in CommandsType /\ commands' = [commands EXCEPT !.work = w]
  BY DEF Typed, Then
<1>2. commands'.queue = commands.queue /\ commands'.work = w
  BY <1>1 DEF CommandsType
<1> QED
  BY <1>2 DEF Requested

\* What a failure does for the requests.
LEMMA FailsAnswers ==
  ASSUME Typed, commands.work # Idle, Fails(commands.work)
  PROVE  /\ Requested \subseteq Requested' \cup past'.told
         /\ past'.told = past.told \cup ({commands.work.turn} \ {0})
         /\ past'.sent = past.sent /\ past'.lost = past.lost
<1>1. past \in PastType
  BY DEF Typed
<1>2. /\ past' = [past EXCEPT !.told = @ \cup ({commands.work.turn} \ {0})]
      /\ Then(Idle)
  BY DEF Fails
<1>3. /\ past'.told = past.told \cup ({commands.work.turn} \ {0})
      /\ past'.sent = past.sent /\ past'.lost = past.lost
  BY <1>1, <1>2 DEF PastType
<1>4. Requested \subseteq Requested' \cup {commands.work.turn} /\ 0 \notin Requested
  BY <1>2, ThenMoves DEF Requested
<1> QED
  BY <1>3, <1>4

\* Steps that answer nothing, and forget nothing.
LEMMA AnsweredKept ==
  ASSUME Answered, owner' = owner,
         past.sent \subseteq past'.sent, past.told \subseteq past'.told, past.lost \subseteq past'.lost,
         Requested \subseteq past'.sent \cup past'.told \cup past'.lost \cup Requested'
  PROVE  Answered'
  BY DEF Answered

LEMMA RequestedSame == ASSUME UNCHANGED commands PROVE Requested' = Requested
  BY DEF Requested

LEMMA InitAnswered == Init => Answered
  BY DEF Init, Answered

LEMMA UserAnswered == ASSUME Typed, Answered, RequestTurn \/ RequestStop PROVE Answered'
<1>1. CASE RequestTurn
  <2>1. PICK t \in Turns, k \in Threads :
          owner' = [owner EXCEPT ![t] = k] /\ Ask([type |-> "start", thread |-> k, turn |-> t])
    BY <1>1 DEF RequestTurn
  <2>2. t \in 0 .. MaxTurns /\ t # 0
    BY TurnAssumption DEF Turns
  <2>3. [type |-> "start", thread |-> k, turn |-> t] \in GoodCommand
    BY <2>2 DEF GoodCommand, Command
  <2>4. Requested \subseteq Requested' /\ t \in Requested'
    BY <2>1, <2>2, <2>3, AskAdds
  <2>5. owner \in [Turns -> Threads \cup {0}] /\ past' = past
    BY <1>1 DEF Typed, RequestTurn
  <2> QED
    BY <2>1, <2>4, <2>5 DEF Answered
<1>2. CASE RequestStop
  <2>1. PICK k \in Threads, type \in {"interrupt", "stop", "restart"} :
          Ask([type |-> type, thread |-> k, turn |-> 0])
    BY <1>2 DEF RequestStop
  <2>2. [type |-> type, thread |-> k, turn |-> 0] \in GoodCommand
    BY TurnAssumption DEF GoodCommand, Command
  <2>3. Requested \subseteq Requested'
    BY <2>1, <2>2, AskAdds
  <2>4. owner' = owner /\ past' = past
    BY <1>2 DEF RequestStop
  <2> QED
    BY <2>3, <2>4, AnsweredKept
<1> QED
  BY <1>1, <1>2

LEMMA TakeAnswered ==
  ASSUME Typed, Answered, TakeStart \/ TakeRestart \/ TakeInterrupt \/ TakeStop
  PROVE  Answered'
<1>1. owner' = owner
  BY DEF TakeStart, TakeRestart, TakeInterrupt, TakeStop
<1>2. past'.sent = past.sent /\ past'.told = past.told /\ past'.lost = past.lost
  <2>1. past \in PastType
    BY DEF Typed
  <2>2. CASE UNCHANGED past
    BY <2>2
  <2>3. CASE \E k : past' = [past EXCEPT !.ignored = IF provider[k].alive THEN @ \cup {k} ELSE @]
    BY <2>1, <2>3 DEF PastType
  <2>4. CASE \E k : past' = [past EXCEPT !.cut = @ \cup Unfinished(k)]
    BY <2>1, <2>4 DEF PastType
  <2> QED
    BY <2>2, <2>3, <2>4 DEF TakeStart, TakeRestart, TakeInterrupt, TakeStop, StopSession
<1>3. Requested \subseteq Requested'
  <2>1. CASE TakeStart
    <3>1. PICK op \in {"session", "send"} : Take(Works(op, Asked.thread, Asked.turn))
      BY <2>1 DEF TakeStart
    <3> DEFINE w == Works(op, Asked.thread, Asked.turn)
    <3>2. Takes("start") /\ Take(w)
      BY <2>1, <3>1 DEF TakeStart
    <3>3. w # Idle /\ w.turn = Asked.turn
      BY DEF Works, Idle
    <3> QED
      BY <3>2, <3>3, TakeMoves
  <2>2. CASE TakeRestart
    <3>1. Takes("restart") /\ \E w : Take(w)
      BY <2>2 DEF TakeRestart
    <3>2. Asked.turn = 0
      BY <3>1, AskedIsGood
    <3> QED
      BY <3>1, <3>2, TakeMoves
  <2>3. CASE TakeInterrupt
    <3>1. Takes("interrupt") /\ \E w : Take(w)
      BY <2>3 DEF TakeInterrupt
    <3>2. Asked.turn = 0
      BY <3>1, AskedIsGood
    <3> QED
      BY <3>1, <3>2, TakeMoves
  <2>4. CASE TakeStop
    <3>1. Takes("stop") /\ \E w : Take(w)
      BY <2>4 DEF TakeStop
    <3>2. Asked.turn = 0
      BY <3>1, AskedIsGood
    <3> QED
      BY <3>1, <3>2, TakeMoves
  <2> QED
    BY <2>1, <2>2, <2>3, <2>4
<1> QED
  BY <1>1, <1>2, <1>3, AnsweredKept

LEMMA StartSessionAnswered == ASSUME Typed, Answered, StartSession PROVE Answered'
<1> DEFINE w == commands.work
<1>1. /\ w # Idle /\ w.thread \in Threads
      /\ w \in [op : {"session", "bind", "send", "stopped"}, thread : Threads, turn : 0 .. MaxTurns]
  BY WorkAtHand DEF StartSession
<1>2. owner' = owner /\ past \in PastType
  BY DEF StartSession, Typed
<1>3. CASE past' = [past EXCEPT !.cut = @ \cup Unfinished(w.thread)] /\ Then([w EXCEPT !.op = "bind"])
  <2>1. past'.sent = past.sent /\ past'.told = past.told /\ past'.lost = past.lost
    BY <1>2, <1>3 DEF PastType
  <2>2. [w EXCEPT !.op = "bind"].turn = w.turn /\ [w EXCEPT !.op = "bind"].op = "bind"
    BY <1>1
  <2>3. [w EXCEPT !.op = "bind"] # Idle
    BY <2>2, IdleIsWork
  <2>4. Requested \subseteq Requested'
    BY <1>1, <1>3, <2>2, <2>3, ThenMoves
  <2> QED
    BY <1>2, <2>1, <2>4, AnsweredKept
<1>4. CASE /\ past' = [past EXCEPT !.told = @ \cup ({w.turn} \ {0}),
                                   !.cut = @ \cup Unfinished(w.thread)]
           /\ Then(Idle)
  <2>1. /\ past'.sent = past.sent /\ past'.lost = past.lost
        /\ past'.told = past.told \cup ({w.turn} \ {0})
    BY <1>2, <1>4 DEF PastType
  <2>2. Requested \subseteq Requested' \cup {w.turn} /\ 0 \notin Requested
    BY <1>1, <1>4, ThenMoves DEF Requested
  <2>3. Requested \subseteq past'.told \cup Requested'
    BY <2>1, <2>2
  <2> QED
    BY <1>2, <2>1, <2>3, AnsweredKept
<1> QED
  BY <1>3, <1>4 DEF StartSession

LEMMA BindAnswered == ASSUME Typed, Answered, Bind PROVE Answered'
<1> DEFINE w == commands.work
<1>1. /\ w # Idle
      /\ w \in [op : {"session", "bind", "send", "stopped"}, thread : Threads, turn : 0 .. MaxTurns]
  BY WorkAtHand DEF Bind
<1>2. owner' = owner
  BY DEF Bind
<1>3. CASE UNCHANGED past /\ Then(IF w.turn = 0 THEN Idle ELSE [w EXCEPT !.op = "send"])
  <2>1. CASE w.turn = 0
    <3>1. Requested \subseteq Requested' \cup {w.turn} /\ 0 \notin Requested
      BY <1>1, <1>3, <2>1, ThenMoves DEF Requested
    <3> QED
      BY <1>2, <1>3, <2>1, <3>1, AnsweredKept
  <2>2. CASE w.turn # 0
    <3>1. [w EXCEPT !.op = "send"].turn = w.turn /\ [w EXCEPT !.op = "send"].op = "send"
      BY <1>1
    <3>2. [w EXCEPT !.op = "send"] # Idle
      BY <3>1, IdleIsWork
    <3>3. Requested \subseteq Requested'
      BY <1>1, <1>3, <2>2, <3>1, <3>2, ThenMoves
    <3> QED
      BY <1>2, <1>3, <3>3, AnsweredKept
  <2> QED
    BY <2>1, <2>2
<1>4. CASE Fails(w)
  BY <1>1, <1>2, <1>4, FailsAnswers, AnsweredKept
<1> QED
  BY <1>3, <1>4 DEF Bind

LEMMA SendAnswered == ASSUME Typed, Answered, Send PROVE Answered'
<1> DEFINE w == commands.work
<1>1. w # Idle /\ owner' = owner /\ past \in PastType
  BY WorkAtHand DEF Send, Typed
<1>2. CASE past' = [past EXCEPT !.sent = @ \cup {w.turn}] /\ Then(Idle)
  <2>1. /\ past'.sent = past.sent \cup {w.turn} /\ past'.told = past.told
        /\ past'.lost = past.lost
    BY <1>1, <1>2 DEF PastType
  <2>2. Requested \subseteq Requested' \cup {w.turn}
    BY <1>1, <1>2, ThenMoves
  <2> QED
    BY <1>1, <2>1, <2>2, AnsweredKept
<1>3. CASE Fails(w)
  BY <1>1, <1>3, FailsAnswers, AnsweredKept
<1>4. CASE GivesBack(w.thread, w.turn)
  <2>1. /\ past'.sent = past.sent /\ past'.told = past.told \cup {w.turn}
        /\ past'.lost = past.lost
    BY <1>1, <1>4 DEF PastType, GivesBack
  <2>2. Requested \subseteq Requested' \cup {w.turn}
    BY <1>1, <1>4, ThenMoves DEF GivesBack
  <2> QED
    BY <1>1, <2>1, <2>2, AnsweredKept
<1> QED
  BY <1>2, <1>3, <1>4 DEF Send

LEMMA SetStoppedAnswered == ASSUME Typed, Answered, SetStopped PROVE Answered'
<1>1. commands.work # Idle /\ commands.work.turn = 0
  BY WorkAtHand DEF SetStopped
<1>2. owner' = owner /\ past' = past /\ Then(Idle)
  BY DEF SetStopped
<1>3. Requested \subseteq Requested' \cup {0} /\ 0 \notin Requested
  BY <1>1, <1>2, ThenMoves DEF Requested
<1> QED
  BY <1>2, <1>3, AnsweredKept

LEMMA OthersAnswered ==
  ASSUME Typed, Answered,
         \/ \E k \in Threads : Speak(k) \/ EndTurn(k) \/ Exit(k) \/ Remark(k)
         \/ TakeMode \/ ReadLifecycle \/ ApplyLifecycle \/ TakeDelta \/ TakeItem
  PROVE  Answered'
<1>1. owner' = owner /\ UNCHANGED commands
  BY DEF Speak, EndTurn, Exit, Remark, TakeMode, ReadLifecycle, ApplyLifecycle, TakeDelta, TakeItem
<1>2. past'.sent = past.sent /\ past'.told = past.told /\ past'.lost = past.lost
  <2>1. past \in PastType
    BY DEF Typed
  <2>2. CASE UNCHANGED past
    BY <2>2
  <2>3. CASE \E k : past' = [past EXCEPT !.cut = @ \cup Unfinished(k)]
    BY <2>1, <2>3 DEF PastType
  <2>4. CASE TakeMode
    <3>1. past' = [past EXCEPT !.switched =
                     @ \cup (IF Head(ingestion.modes) = "streaming"
                            THEN {t \in Turns : ingestion.buffer[t] # <<>>} ELSE {})]
      BY <2>4 DEF TakeMode
    <3> QED
      BY <2>1, <3>1 DEF PastType
  <2>5. CASE \E k \in Threads : Remark(k)
    BY <2>5, RemarkTells
  <2> QED
    BY <2>2, <2>3, <2>4, <2>5
    DEF Speak, EndTurn, Exit, ReadLifecycle, ApplyLifecycle, TakeDelta, TakeItem
<1> QED
  BY <1>1, <1>2, RequestedSame, AnsweredKept

LEMMA CrashAnswered == ASSUME Typed, Answered, Crash PROVE Answered'
<1>1. past \in PastType /\ owner' = owner
  BY DEF Typed, Crash
<1>2. past'.sent = past.sent /\ past'.told = past.told /\ past'.lost = past.lost \cup Requested
  <2>1. past' = [past EXCEPT !.lost = @ \cup Requested,
                             !.cut = @ \cup {t \in Turns : output[t].pieces > 0},
                             !.stale = @ \cup {k \in Threads : ~LooksStopped(k)}]
    BY DEF Crash
  <2> QED
    BY <1>1, <2>1 DEF PastType
<1> QED
  BY <1>1, <1>2, AnsweredKept

LEMMA NextAnswered == ASSUME Typed, Answered, [Next]_vars PROVE Answered'
<1>1. CASE UNCHANGED vars
  BY <1>1 DEF vars, Answered, Requested
<1>2. CASE RequestTurn \/ RequestStop
  BY <1>2, UserAnswered
<1>3. CASE TakeStart \/ TakeRestart \/ TakeInterrupt \/ TakeStop
  BY <1>3, TakeAnswered
<1>4. CASE StartSession \/ Bind \/ Send \/ SetStopped
  BY <1>4, StartSessionAnswered, BindAnswered, SendAnswered, SetStoppedAnswered
<1>5. CASE \/ \E k \in Threads : Speak(k) \/ EndTurn(k) \/ Exit(k) \/ Remark(k)
           \/ TakeMode \/ ReadLifecycle \/ ApplyLifecycle \/ TakeDelta \/ TakeItem
  BY <1>5, OthersAnswered
<1>6. CASE Crash
  BY <1>6, CrashAnswered
<1> QED
  BY <1>1, <1>2, <1>3, <1>4, <1>5, <1>6 DEF Next

LEMMA AnsweredHolds == Spec => []Answered
  BY InitAnswered, NextAnswered, TypedHolds, PTL DEF Spec

---------------------------------------------------------------------------
(* A live session is shown as stopped only until its start is shown.       *)

IsExit(e, k) == e.type = "session.exited" /\ e.thread = k

IsStart(e, k) == e.type = "session.started" /\ e.thread = k

HasStart(s, k) == \E i \in 1 .. Len(s) : IsStart(s[i], k)

\* Each exit of k is followed by a start.
Followed(s, k) ==
    \A i \in 1 .. Len(s) : IsExit(s[i], k) => \E j \in 1 .. Len(s) : j > i /\ IsStart(s[j], k)

\* Events that end with a session of k alive, and events that say nothing of its end.
EndsStarted(s, k) ==
    \E j \in 1 .. Len(s) : IsStart(s[j], k) /\ \A i \in j .. Len(s) : ~IsExit(s[i], k)

NoExit(s, k) == \A i \in 1 .. Len(s) : ~IsExit(s[i], k)

InHand(k) == ~Calm /\ IsStart(ingestion.reading[1], k)

\* While k has a session, no exit is the last the ingestion will read of it ...
ExitsFollowed(k) ==
    provider[k].alive =>
        /\ Followed(ingestion.runtime, k)
        /\ ~Calm /\ IsExit(ingestion.reading[1], k) => HasStart(ingestion.runtime, k)

\* ... and where it looks stopped, its start is still to be read or applied.
StartToCome(k) ==
    provider[k].alive /\ LooksStopped(k) /\ k \notin past.ignored =>
        HasStart(ingestion.runtime, k) \/ InHand(k)

\* A stop is shown only when it is done, or was ignored.
StopIsDone(k) ==
    commands.work.op = "stopped" /\ commands.work.thread = k =>
        ~provider[k].alive \/ k \in past.ignored

Lag(k) == ExitsFollowed(k) /\ StartToCome(k)

LagInv == \A k \in Threads : Lag(k) /\ StopIsDone(k)

---------------------------------------------------------------------------
(* Sequences of events.                                                    *)

LEMMA ConcatPlain ==
  ASSUME NEW s \in Seq(GoodEvent), NEW es \in Seq(GoodEvent), NEW k, NoExit(es, k)
  PROVE  /\ Followed(s, k) => Followed(s \o es, k)
         /\ HasStart(s, k) => HasStart(s \o es, k)
<1> DEFINE u == s \o es
<1>1. /\ Len(u) = Len(s) + Len(es) /\ Len(s) \in Nat /\ Len(es) \in Nat
      /\ \A i \in 1 .. Len(s) : u[i] = s[i]
      /\ \A j \in 1 .. Len(es) : u[Len(s) + j] = es[j]
  BY ConcatIsSeq
<1> HIDE DEF u
<1>2. HasStart(s, k) => HasStart(u, k)
  <2> SUFFICES ASSUME NEW i \in 1 .. Len(s), IsStart(s[i], k) PROVE HasStart(u, k)
    BY DEF HasStart
  <2>1. i \in 1 .. Len(u) /\ IsStart(u[i], k)
    BY <1>1
  <2> QED
    BY <2>1 DEF HasStart
<1>3. Followed(s, k) => Followed(u, k)
  <2> SUFFICES ASSUME Followed(s, k), NEW i \in 1 .. Len(u), IsExit(u[i], k)
               PROVE  \E j \in 1 .. Len(u) : j > i /\ IsStart(u[j], k)
    BY DEF Followed
  <2>1. CASE i <= Len(s)
    <3>1. i \in 1 .. Len(s) /\ IsExit(s[i], k)
      BY <1>1, <2>1
    <3>2. PICK j \in 1 .. Len(s) : j > i /\ IsStart(s[j], k)
      BY <3>1 DEF Followed
    <3>3. j \in 1 .. Len(u) /\ IsStart(u[j], k)
      BY <1>1, <3>2
    <3> QED
      BY <3>2, <3>3
  <2>2. CASE i > Len(s)
    <3>1. i - Len(s) \in 1 .. Len(es) /\ u[Len(s) + (i - Len(s))] = es[i - Len(s)]
      BY <1>1, <2>2
    <3>2. Len(s) + (i - Len(s)) = i
      BY <1>1
    <3> QED
      BY <3>1, <3>2 DEF NoExit
  <2> QED
    BY <1>1, <2>1, <2>2
<1> QED
  BY <1>2, <1>3 DEF u

LEMMA ConcatStarted ==
  ASSUME NEW s \in Seq(GoodEvent), NEW es \in Seq(GoodEvent), NEW k, EndsStarted(es, k)
  PROVE  Followed(s \o es, k) /\ HasStart(s \o es, k)
<1> DEFINE u == s \o es
<1>1. /\ Len(u) = Len(s) + Len(es) /\ Len(s) \in Nat /\ Len(es) \in Nat
      /\ \A j \in 1 .. Len(es) : u[Len(s) + j] = es[j]
  BY ConcatIsSeq
<1> HIDE DEF u
<1>2. PICK j \in 1 .. Len(es) : IsStart(es[j], k) /\ \A i \in j .. Len(es) : ~IsExit(es[i], k)
  BY DEF EndsStarted
<1>3. Len(s) + j \in 1 .. Len(u) /\ IsStart(u[Len(s) + j], k)
  BY <1>1, <1>2
<1>4. HasStart(u, k)
  BY <1>3 DEF HasStart
<1>5. Followed(u, k)
  <2> SUFFICES ASSUME NEW i \in 1 .. Len(u), IsExit(u[i], k)
               PROVE  \E m \in 1 .. Len(u) : m > i /\ IsStart(u[m], k)
    BY DEF Followed
  <2>1. CASE i < Len(s) + j
    BY <1>1, <1>3, <2>1
  <2>2. CASE i >= Len(s) + j
    <3>1. i - Len(s) \in j .. Len(es) /\ i - Len(s) \in 1 .. Len(es)
      BY <1>1, <2>2
    <3>2. u[Len(s) + (i - Len(s))] = es[i - Len(s)] /\ Len(s) + (i - Len(s)) = i
      BY <1>1, <3>1
    <3> QED
      BY <1>2, <3>1, <3>2
  <2> QED
    BY <1>1, <2>1, <2>2
<1> QED
  BY <1>4, <1>5 DEF u

LEMMA TailFollowed ==
  ASSUME NEW s \in Seq(GoodEvent), s # <<>>, NEW k
  PROVE  /\ Followed(s, k) => Followed(Tail(s), k) /\ (IsExit(Head(s), k) => HasStart(Tail(s), k))
         /\ HasStart(s, k) => HasStart(Tail(s), k) \/ IsStart(Head(s), k)
<1> DEFINE r == Tail(s)
<1>1. /\ Len(s) \in Nat /\ Len(s) > 0 /\ Head(s) = s[1] /\ Len(r) = Len(s) - 1
      /\ \A i \in 1 .. Len(r) : r[i] = s[i + 1]
  BY HeadThenTail
<1> HIDE DEF r
<1>2. ASSUME NEW i \in 1 .. Len(s), i > 1, IsStart(s[i], k)
      PROVE  i - 1 \in 1 .. Len(r) /\ IsStart(r[i - 1], k)
  <2>1. i - 1 \in 1 .. Len(r)
    BY <1>1, <1>2
  <2>2. r[i - 1] = s[(i - 1) + 1] /\ (i - 1) + 1 = i
    BY <1>1, <2>1
  <2> QED
    BY <1>2, <2>1, <2>2
<1>3. HasStart(s, k) => HasStart(r, k) \/ IsStart(Head(s), k)
  BY <1>1, <1>2 DEF HasStart
<1>4. Followed(s, k) /\ IsExit(Head(s), k) => HasStart(r, k)
  <2> SUFFICES ASSUME Followed(s, k), IsExit(Head(s), k) PROVE HasStart(r, k)
    OBVIOUS
  <2>1. 1 \in 1 .. Len(s) /\ IsExit(s[1], k)
    BY <1>1
  <2>2. PICK j \in 1 .. Len(s) : j > 1 /\ IsStart(s[j], k)
    BY <2>1 DEF Followed
  <2> QED
    BY <1>2, <2>2 DEF HasStart
<1>5. Followed(s, k) => Followed(r, k)
  <2> SUFFICES ASSUME Followed(s, k), NEW i \in 1 .. Len(r), IsExit(r[i], k)
               PROVE  \E j \in 1 .. Len(r) : j > i /\ IsStart(r[j], k)
    BY DEF Followed
  <2>1. i + 1 \in 1 .. Len(s) /\ IsExit(s[i + 1], k)
    BY <1>1
  <2>2. PICK j \in 1 .. Len(s) : j > i + 1 /\ IsStart(s[j], k)
    BY <2>1 DEF Followed
  <2>3. j - 1 \in 1 .. Len(r) /\ IsStart(r[j - 1], k)
    BY <1>2, <2>2
  <2>4. j - 1 > i
    BY <2>2
  <2> QED
    BY <2>3, <2>4
<1> QED
  BY <1>3, <1>4, <1>5 DEF r

---------------------------------------------------------------------------
(* What the provider tells.                                                *)

\* More is told: the session is gone, or nothing of its end is told and it does
\* not come to look stopped, or a start is the last that is told.
LEMMA TellLag ==
  ASSUME Typed, NEW k \in Threads, Lag(k), NEW es \in Seq(GoodEvent),
         ingestion'.runtime = ingestion.runtime \o es, ingestion'.reading = ingestion.reading,
         \/ ~provider'[k].alive
         \/ /\ provider[k].alive /\ NoExit(es, k)
            /\ LooksStopped(k)' => LooksStopped(k) \/ k \in past'.ignored
            /\ past.ignored \subseteq past'.ignored
         \/ EndsStarted(es, k)
  PROVE  Lag(k)'
<1>1. ingestion.runtime \in Seq(GoodEvent)
  BY DEF Typed, IngestionType
<1>2. Calm' = Calm /\ InHand(k)' = InHand(k)
  BY DEF Calm, InHand
<1>3. CASE ~provider'[k].alive
  BY <1>3 DEF Lag, ExitsFollowed, StartToCome
<1>4. CASE /\ provider[k].alive /\ NoExit(es, k)
           /\ LooksStopped(k)' => LooksStopped(k) \/ k \in past'.ignored
           /\ past.ignored \subseteq past'.ignored
  <2>1. /\ Followed(ingestion.runtime, k) => Followed(ingestion.runtime \o es, k)
        /\ HasStart(ingestion.runtime, k) => HasStart(ingestion.runtime \o es, k)
    BY <1>1, <1>4, ConcatPlain
  <2>2. ExitsFollowed(k)'
    BY <1>2, <1>4, <2>1 DEF Lag, ExitsFollowed
  <2>3. StartToCome(k)'
    BY <1>2, <1>4, <2>1 DEF Lag, StartToCome
  <2> QED
    BY <2>2, <2>3 DEF Lag
<1>5. CASE EndsStarted(es, k)
  <2>1. Followed(ingestion.runtime \o es, k) /\ HasStart(ingestion.runtime \o es, k)
    BY <1>1, <1>5, ConcatStarted
  <2> QED
    BY <2>1 DEF Lag, ExitsFollowed, StartToCome
<1> QED
  BY <1>3, <1>4, <1>5

\* Nothing is told.
LEMMA SilentLag ==
  ASSUME Typed, NEW k \in Threads, Lag(k),
         ingestion'.runtime = ingestion.runtime, ingestion'.reading = ingestion.reading,
         provider'[k].alive => provider[k].alive,
         LooksStopped(k)' => LooksStopped(k) \/ k \in past'.ignored \/ ~provider'[k].alive,
         past.ignored \subseteq past'.ignored
  PROVE  Lag(k)'
<1>1. Calm' = Calm /\ InHand(k)' = InHand(k)
  BY DEF Calm, InHand
<1> QED
  BY <1>1 DEF Lag, ExitsFollowed, StartToCome

\* The ingestion takes an event that is not of a session.
LEMMA ConsumeLag ==
  ASSUME Typed, NEW k \in Threads, Lag(k), Calm, ingestion.runtime # <<>>,
         ingestion'.runtime = Tail(ingestion.runtime), ingestion'.reading = ingestion.reading,
         Head(ingestion.runtime).type \notin Lifecycle,
         UNCHANGED <<provider, shown, past>>
  PROVE  Lag(k)'
<1>1. ingestion.runtime \in Seq(GoodEvent)
  BY DEF Typed, IngestionType
<1>2. Calm' /\ ~InHand(k)
  BY DEF Calm, InHand
<1>3. ~IsStart(Head(ingestion.runtime), k)
  BY DEF IsStart, Lifecycle
<1>4. /\ Followed(ingestion.runtime, k) => Followed(Tail(ingestion.runtime), k)
      /\ HasStart(ingestion.runtime, k) => HasStart(Tail(ingestion.runtime), k)
  BY <1>1, <1>3, TailFollowed
<1> QED
  BY <1>2, <1>4 DEF Lag, ExitsFollowed, StartToCome, LooksStopped

LEMMA StopStaysDone ==
  ASSUME NEW k \in Threads, StopIsDone(k), past.ignored \subseteq past'.ignored,
         \/ commands'.work.op # "stopped"
         \/ commands'.work = commands.work /\ (provider'[k].alive => provider[k].alive)
  PROVE  StopIsDone(k)'
  BY DEF StopIsDone

\* What an action that tells changes of the ingestion.
LEMMA TellFields ==
  ASSUME Typed, NEW es, Tell(es)
  PROVE  /\ ingestion'.runtime = ingestion.runtime \o es
         /\ ingestion'.reading = ingestion.reading
<1>1. ingestion \in IngestionType /\ ingestion' = [ingestion EXCEPT !.runtime = @ \o es]
  BY DEF Typed, Tell
<1> QED
  BY <1>1 DEF IngestionType

\* Events of a thread say nothing of another.
LEMMA FarewellOf ==
  ASSUME Typed, NEW k \in Threads, NEW told \in Farewell(k)
  PROVE  \A i \in 1 .. Len(told) : told[i].thread = k
<1>1. CASE told = <<>>
  BY <1>1
<1>2. CASE told = <<Event("session.exited", k, 0, 0)>>
  BY <1>2 DEF Event
<1>3. CASE told = <<Event("turn.completed", k, provider[k].turn, 0), Event("session.exited", k, 0, 0)>>
  BY <1>3 DEF Event
<1> QED
  BY <1>1, <1>2, <1>3 DEF Farewell

LEMMA OthersNoExit ==
  ASSUME NEW es, NEW k, NEW o, o # k, \A i \in 1 .. Len(es) : es[i].thread = k
  PROVE  NoExit(es, o)
  BY DEF NoExit, IsExit

\* The session of k is replaced by s, and es told of it; shown sessions stay.
LEMMA ReplaceLag ==
  ASSUME Typed, NEW k \in Threads, \A o \in Threads : Lag(o),
         NEW s \in GoodSession, provider' = [provider EXCEPT ![k] = s],
         NEW es \in Seq(GoodEvent), Tell(es), \A i \in 1 .. Len(es) : es[i].thread = k,
         UNCHANGED shown, past.ignored \subseteq past'.ignored,
         ~s.alive \/ EndsStarted(es, k) \/ (provider[k].alive /\ NoExit(es, k))
  PROVE  \A o \in Threads : Lag(o)'
<1> SUFFICES ASSUME NEW o \in Threads PROVE Lag(o)'
  OBVIOUS
<1>1. /\ ingestion'.runtime = ingestion.runtime \o es /\ ingestion'.reading = ingestion.reading
  BY TellFields
<1>2. LooksStopped(o)' = LooksStopped(o)
  BY DEF LooksStopped
<1>3. provider'[o] = IF o = k THEN s ELSE provider[o]
  BY DEF Typed, ProviderType
<1>4. CASE o = k
  BY <1>1, <1>2, <1>3, <1>4, TellLag
<1>5. CASE o # k
  <2>1. NoExit(es, o)
    BY <1>5, OthersNoExit
  <2>2. CASE provider[o].alive
    BY <1>1, <1>2, <1>3, <1>5, <2>1, <2>2, TellLag
  <2>3. CASE ~provider[o].alive
    BY <1>1, <1>3, <1>5, <2>3, TellLag
  <2> QED
    BY <2>2, <2>3
<1> QED
  BY <1>4, <1>5

---------------------------------------------------------------------------
(* No action breaks it.                                                    *)

LEMMA IgnoredOf ==
  ASSUME Typed,
         \/ UNCHANGED past
         \/ \E k : past' = [past EXCEPT !.cut = @ \cup Unfinished(k)]
         \/ \E k, ts : past' = [past EXCEPT !.told = @ \cup ts, !.cut = @ \cup Unfinished(k)]
         \/ \E ts : past' = [past EXCEPT !.told = @ \cup ts]
         \/ \E ts : past' = [past EXCEPT !.sent = @ \cup ts]
         \/ \E ts : past' = [past EXCEPT !.switched = @ \cup ts]
  PROVE  /\ past'.ignored = past.ignored /\ past'.stale = past.stale
         /\ past'.disowned = past.disowned /\ past'.claimed = past.claimed
<1>1. past \in PastType
  BY DEF Typed
<1> QED
  BY <1>1 DEF PastType

LEMMA GivesBackOf ==
  ASSUME Typed, NEW k, NEW t, GivesBack(k, t)
  PROVE  /\ past'.ignored = past.ignored /\ past'.stale = past.stale \cup {k}
         /\ past'.switched = past.switched /\ past'.cut = past.cut
         /\ past'.disowned = past.disowned /\ past'.claimed = past.claimed
<1>1. past \in PastType /\ past' = [past EXCEPT !.told = @ \cup {t}, !.stale = @ \cup {k}]
  BY DEF Typed, GivesBack
<1> QED
  BY <1>1 DEF PastType

LEMMA ThenFields == ASSUME Typed, NEW w, Then(w) PROVE commands'.work = w
<1>1. commands \in CommandsType /\ commands' = [commands EXCEPT !.work = w]
  BY DEF Typed, Then
<1> QED
  BY <1>1 DEF CommandsType

LEMMA AskFields == ASSUME Typed, NEW c, Ask(c) PROVE commands'.work = commands.work
<1>1. commands \in CommandsType /\ commands' = [commands EXCEPT !.queue = Append(@, c)]
  BY DEF Typed, Ask
<1> QED
  BY <1>1 DEF CommandsType

\* Requests, and what the worker only takes.
LEMMA QuietParts ==
  ASSUME Typed, RequestTurn \/ RequestStop \/ TakeStart \/ TakeRestart \/ TakeMode
  PROVE  /\ UNCHANGED <<provider, shown, bound>>
         /\ past'.ignored = past.ignored /\ past'.stale = past.stale
         /\ past'.disowned = past.disowned /\ past'.claimed = past.claimed
         /\ ingestion'.runtime = ingestion.runtime /\ ingestion'.reading = ingestion.reading
         /\ \/ commands'.work = commands.work
            \/ commands.work = Idle /\ commands'.work.op \notin {"bind", "stopped"}
<1>1. UNCHANGED <<provider, shown, bound>>
  BY DEF RequestTurn, RequestStop, TakeStart, TakeRestart, TakeMode
<1>2. /\ past'.ignored = past.ignored /\ past'.stale = past.stale
      /\ past'.disowned = past.disowned /\ past'.claimed = past.claimed
  <2>1. CASE UNCHANGED past
    BY <2>1
  <2>2. CASE TakeMode
    <3>1. \E ts : past' = [past EXCEPT !.switched = @ \cup ts]
      BY <2>2 DEF TakeMode
    <3> QED
      BY <3>1, IgnoredOf
  <2> QED
    BY <2>1, <2>2 DEF RequestTurn, RequestStop, TakeStart, TakeRestart
<1>3. ingestion'.runtime = ingestion.runtime /\ ingestion'.reading = ingestion.reading
  <2>1. ingestion \in IngestionType
    BY DEF Typed
  <2>2. CASE UNCHANGED ingestion
    BY <2>2
  <2>3. CASE RequestTurn
    <3>1. \E mode : ingestion' = [ingestion EXCEPT !.modes = Append(@, mode)]
      BY <2>3 DEF RequestTurn
    <3> QED
      BY <2>1, <3>1 DEF IngestionType
  <2>4. CASE TakeMode
    <3>1. ingestion' = [ingestion EXCEPT !.modes = Tail(@), !.mode = Head(ingestion.modes)]
      BY <2>4 DEF TakeMode
    <3> QED
      BY <2>1, <3>1 DEF IngestionType
  <2> QED
    BY <2>2, <2>3, <2>4 DEF RequestStop, TakeStart, TakeRestart
<1>4. \/ commands'.work = commands.work
      \/ commands.work = Idle /\ commands'.work.op \notin {"bind", "stopped"}
  <2>1. CASE RequestTurn \/ RequestStop
    BY <2>1, AskFields DEF RequestTurn, RequestStop
  <2>2. CASE TakeStart
    BY <2>2 DEF TakeStart, Take, Works, Takes
  <2>3. CASE TakeRestart
    BY <2>3, IdleIsWork DEF TakeRestart, Take, Works, Takes
  <2>4. CASE TakeMode
    BY <2>4 DEF TakeMode
  <2> QED
    BY <2>1, <2>2, <2>3, <2>4
<1> QED
  BY <1>1, <1>2, <1>3, <1>4

LEMMA QuietLag ==
  ASSUME Typed, LagInv, RequestTurn \/ RequestStop \/ TakeStart \/ TakeRestart \/ TakeMode
  PROVE  LagInv'
<1>1. UNCHANGED <<provider, shown>>
  BY QuietParts
<1>2. past'.ignored = past.ignored
  BY QuietParts
<1>3. ingestion'.runtime = ingestion.runtime /\ ingestion'.reading = ingestion.reading
  BY QuietParts
<1>4. commands'.work = commands.work \/ commands'.work.op # "stopped"
  BY QuietParts
<1> SUFFICES ASSUME NEW k \in Threads PROVE Lag(k)' /\ StopIsDone(k)'
  BY DEF LagInv
<1>5. LooksStopped(k)' = LooksStopped(k)
  BY <1>1 DEF LooksStopped
<1>6. Lag(k)'
  BY <1>1, <1>2, <1>3, <1>5, SilentLag DEF LagInv
<1>7. StopIsDone(k)'
  BY <1>1, <1>2, <1>4, StopStaysDone DEF LagInv
<1> QED
  BY <1>6, <1>7

\* What is said of a reply does not move the session.
LEMMA SpeakTells ==
  ASSUME Typed, NEW k \in Threads, Speak(k)
  PROVE  \E e \in GoodEvent : Tell(<<e>>) /\ e.type \notin Lifecycle
<1> DEFINE t == provider[k].turn
<1>1. t \in Turns /\ output[t].pieces \in 0 .. MaxPieces
  BY SessionOf DEF Speak, Typed, OutputType
<1>2. CASE /\ output[t].pieces < MaxPieces
           /\ Tell(<<Event("content.delta", k, t, output[t].pieces + 1)>>)
  <2>1. output[t].pieces + 1 \in 1 .. MaxPieces
    BY <1>1, <1>2, TurnAssumption
  <2>2. Event("content.delta", k, t, output[t].pieces + 1) \in GoodEvent
    BY <1>1, <2>1, TextEventIsGood
  <2> QED
    BY <1>2, <2>2 DEF Event, Lifecycle
<1>3. CASE Tell(<<Event("item.completed", k, t, MaxPieces)>>)
  <2>1. MaxPieces \in 0 .. MaxPieces /\ t \in 0 .. MaxTurns
    BY <1>1, TurnAssumption DEF Turns
  <2>2. Event("item.completed", k, t, MaxPieces) \in GoodEvent
    BY <1>1, <2>1 DEF Event, GoodEvent, RuntimeEvent
  <2> QED
    BY <1>3, <2>2 DEF Event, Lifecycle
<1>4. CASE /\ output[t].pieces > 0
           /\ Tell(<<Event("item.completed", k, t, output[t].pieces)>>)
  <2>1. output[t].pieces \in 1 .. MaxPieces
    BY <1>1, <1>4, TurnAssumption
  <2>2. Event("item.completed", k, t, output[t].pieces) \in GoodEvent
    BY <1>1, <2>1, TextEventIsGood
  <2> QED
    BY <1>4, <2>2 DEF Event, Lifecycle
<1> QED
  BY <1>2, <1>3, <1>4 DEF Speak

\* One event is told that ends no session.
LEMMA OneToldLag ==
  ASSUME Typed, LagInv, UNCHANGED <<provider, shown, commands>>, past'.ignored = past.ignored,
         NEW e \in GoodEvent, Tell(<<e>>), e.type # "session.exited"
  PROVE  LagInv'
<1> SUFFICES ASSUME NEW o \in Threads PROVE Lag(o)' /\ StopIsDone(o)'
  BY DEF LagInv
<1> DEFINE es == <<e>>
<1>1. es \in Seq(GoodEvent) /\ NoExit(es, o)
  BY OneIsSeq DEF NoExit, IsExit
<1>2. ingestion'.runtime = ingestion.runtime \o es /\ ingestion'.reading = ingestion.reading
  BY TellFields
<1> HIDE DEF es
<1>3. LooksStopped(o)' => LooksStopped(o) \/ o \in past'.ignored
  BY DEF LooksStopped
<1>4. provider[o].alive \in BOOLEAN /\ past.ignored \subseteq past'.ignored
  BY SessionOf
<1>5. StopIsDone(o)'
  BY StopStaysDone DEF LagInv
<1>6. CASE provider[o].alive
  <2>1. Lag(o)'
    BY <1>1, <1>2, <1>3, <1>4, <1>6, TellLag DEF LagInv
  <2> QED
    BY <1>5, <2>1
<1>7. CASE ~provider[o].alive
  <2>1. ~provider'[o].alive
    BY <1>7
  <2>2. Lag(o)'
    BY <1>1, <1>2, <2>1, TellLag DEF LagInv
  <2> QED
    BY <1>5, <2>2
<1> QED
  BY <1>4, <1>6, <1>7

LEMMA SpeakLag == ASSUME Typed, LagInv, NEW k \in Threads, Speak(k) PROVE LagInv'
<1>1. UNCHANGED <<provider, shown, past, commands>>
  BY DEF Speak
<1>2. \E e \in GoodEvent : Tell(<<e>>) /\ e.type # "session.exited"
  BY SpeakTells DEF Lifecycle
<1> QED
  BY <1>1, <1>2, OneToldLag

LEMMA RemarkLag == ASSUME Typed, LagInv, NEW k \in Threads, Remark(k) PROVE LagInv'
<1>1. UNCHANGED <<provider, shown, commands>>
  BY DEF Remark
<1>2. past'.ignored = past.ignored /\ \E e \in GoodEvent : Tell(<<e>>) /\ e.type # "session.exited"
  BY RemarkTells DEF Noted
<1> QED
  BY <1>1, <1>2, OneToldLag

\* A turn ends, by itself or interrupted.
LEMMA TurnEndsLag ==
  ASSUME Typed, LagInv, NEW k \in Threads, provider[k].turn # 0, TurnEnds(k),
         UNCHANGED <<shown, past>>, commands'.work = commands.work \/ commands'.work.op # "stopped"
  PROVE  LagInv'
<1>1. PICK s \in GoodSession, es \in Seq(GoodEvent) :
        /\ provider' = [provider EXCEPT ![k] = s] /\ Tell(es) /\ provider[k].alive /\ s.alive
        /\ \A i \in 1 .. Len(es) : es[i].thread = k /\ es[i].type # "session.exited"
  BY TurnEndsTells
<1>2. NoExit(es, k)
  BY <1>1 DEF NoExit, IsExit
<1>3. \A o \in Threads : Lag(o)'
  BY <1>1, <1>2, ReplaceLag DEF LagInv
<1>4. \A o \in Threads : provider'[o].alive => provider[o].alive
  BY <1>1 DEF Typed, ProviderType
<1>5. \A o \in Threads : StopIsDone(o)'
  BY <1>4, StopStaysDone DEF LagInv
<1> QED
  BY <1>3, <1>5 DEF LagInv

LEMMA EndTurnLag == ASSUME Typed, LagInv, NEW k \in Threads, EndTurn(k) PROVE LagInv'
  BY TurnEndsLag DEF EndTurn

\* The session of k ends.
LEMMA EndsLag ==
  ASSUME Typed, LagInv, NEW k \in Threads, \E told \in Farewell(k) : Tell(told),
         provider' = [provider EXCEPT ![k] = NoSession], UNCHANGED shown,
         past.ignored \subseteq past'.ignored
  PROVE  /\ \A o \in Threads : Lag(o)'
         /\ ~provider'[k].alive
         /\ \A o \in Threads : provider'[o].alive => provider[o].alive
<1>1. PICK told \in Farewell(k) : Tell(told)
  OBVIOUS
<1>2. told \in Seq(GoodEvent) /\ \A i \in 1 .. Len(told) : told[i].thread = k
  BY FarewellIsGood, FarewellOf
<1>3. \A o \in Threads : Lag(o)'
  BY <1>1, <1>2, NoSessionIsGood, ReplaceLag DEF LagInv
<1> QED
  BY <1>3, NoSessionIsGood DEF Typed, ProviderType

LEMMA ExitLag == ASSUME Typed, LagInv, NEW k \in Threads, Exit(k) PROVE LagInv'
<1>1. past'.ignored = past.ignored
  BY IgnoredOf DEF Exit
<1>2. /\ \A o \in Threads : Lag(o)'
      /\ \A o \in Threads : provider'[o].alive => provider[o].alive
  BY <1>1, EndsLag DEF Exit
<1>3. \A o \in Threads : StopIsDone(o)'
  BY <1>1, <1>2, StopStaysDone DEF LagInv, Exit
<1> QED
  BY <1>2, <1>3 DEF LagInv

LEMMA StartSessionLag == ASSUME Typed, LagInv, StartSession PROVE LagInv'
<1> DEFINE w == commands.work
           k == w.thread
           started == Event("session.started", k, 0, 0)
<1>1. /\ k \in Threads
      /\ w \in [op : {"session", "bind", "send", "stopped"}, thread : Threads, turn : 0 .. MaxTurns]
  BY WorkAtHand DEF StartSession
<1>2. UNCHANGED shown
  BY DEF StartSession
<1>3. CASE /\ \E told \in Farewell(k) : Tell(told \o <<started>>)
           /\ provider' = [provider EXCEPT ![k] = [NoSession EXCEPT !.alive = TRUE]]
           /\ past' = [past EXCEPT !.cut = @ \cup Unfinished(k)]
           /\ Then([w EXCEPT !.op = "bind"])
  <2>1. PICK told \in Farewell(k) : Tell(told \o <<started>>)
    BY <1>3
  <2> DEFINE es == told \o <<started>>
  <2>2. started \in GoodEvent /\ IsStart(started, k) /\ ~IsExit(started, k) /\ started.thread = k
    <3>1. 0 \in 0 .. MaxTurns /\ "session.started" \in Lifecycle
      BY TurnAssumption DEF Lifecycle
    <3>2. started \in GoodEvent
      BY <1>1, <3>1, EventIsGood
    <3>3. started.type = "session.started" /\ started.thread = k
      BY DEF Event
    <3> QED
      BY <3>2, <3>3 DEF IsStart, IsExit
  <2> HIDE DEF started
  <2>3. told \in Seq(GoodEvent) /\ <<started>> \in Seq(GoodEvent)
        /\ \A i \in 1 .. Len(told) : told[i].thread = k
    BY <1>1, <2>2, FarewellIsGood, FarewellOf, OneIsSeq
  <2>4. /\ es \in Seq(GoodEvent) /\ Len(told) \in Nat /\ Len(es) = Len(told) + 1
        /\ es[Len(told) + 1] = started /\ \A i \in 1 .. Len(told) : es[i] = told[i]
    <3>1. Len(<<started>>) = 1 /\ 1 \in 1 .. Len(<<started>>) /\ <<started>>[1] = started
      OBVIOUS
    <3> QED
      BY <2>3, <3>1, ConcatIsSeq
  <2> HIDE DEF es
  <2>5. EndsStarted(es, k)
    <3>1. Len(told) + 1 \in 1 .. Len(es) /\ \A i \in Len(told) + 1 .. Len(es) : i = Len(told) + 1
      BY <2>4
    <3> QED
      BY <2>2, <2>4, <3>1 DEF EndsStarted
  <2>6. \A i \in 1 .. Len(es) : es[i].thread = k
    <3> SUFFICES ASSUME NEW i \in 1 .. Len(es) PROVE es[i].thread = k
      OBVIOUS
    <3>1. i \in 1 .. Len(told) \/ i = Len(told) + 1
      BY <2>4
    <3> QED
      BY <2>2, <2>3, <2>4, <3>1
  <2>7. past'.ignored = past.ignored
    BY <1>3, IgnoredOf
  <2>8. \A o \in Threads : Lag(o)'
    BY <1>1, <1>2, <1>3, <2>1, <2>4, <2>5, <2>6, <2>7, FreshSessionIsGood, ReplaceLag DEF LagInv, es
  <2>9. commands'.work.op # "stopped"
    <3>1. commands'.work = [w EXCEPT !.op = "bind"]
      BY <1>3, ThenFields
    <3> QED
      BY <1>1, <3>1
  <2>10. \A o \in Threads : StopIsDone(o)'
    BY <2>9 DEF StopIsDone
  <2> QED
    BY <2>8, <2>10 DEF LagInv
<1>4. CASE /\ Then(Idle)
           /\ \E told \in Farewell(k) : Tell(told)
           /\ provider' = [provider EXCEPT ![k] = NoSession]
           /\ past' = [past EXCEPT !.told = @ \cup ({w.turn} \ {0}), !.cut = @ \cup Unfinished(k)]
  <2>1. past'.ignored = past.ignored
    BY <1>4, IgnoredOf
  <2>2. \A o \in Threads : Lag(o)'
    BY <1>1, <1>2, <1>4, <2>1, EndsLag
  <2>3. commands'.work.op # "stopped"
    BY <1>4, ThenFields, IdleIsWork
  <2>4. \A o \in Threads : StopIsDone(o)'
    BY <2>3 DEF StopIsDone
  <2> QED
    BY <2>2, <2>4 DEF LagInv
<1> QED
  BY <1>3, <1>4 DEF StartSession

LEMMA BindLag == ASSUME Typed, LagInv, Bind PROVE LagInv'
<1> DEFINE w == commands.work
<1>1. /\ w.thread \in Threads
      /\ w \in [op : {"session", "bind", "send", "stopped"}, thread : Threads, turn : 0 .. MaxTurns]
  BY WorkAtHand DEF Bind
<1>2. UNCHANGED <<provider, ingestion>>
  BY DEF Bind
<1>3. past'.ignored = past.ignored
  BY IgnoredOf DEF Bind, Fails
<1>4. commands'.work.op # "stopped"
  <2>1. CASE Then(IF w.turn = 0 THEN Idle ELSE [w EXCEPT !.op = "send"])
    <3>1. commands'.work = IF w.turn = 0 THEN Idle ELSE [w EXCEPT !.op = "send"]
      BY <2>1, ThenFields
    <3> QED
      BY <1>1, <3>1, IdleIsWork
  <2>2. CASE Then(Idle)
    BY <2>2, ThenFields, IdleIsWork
  <2> QED
    BY <2>1, <2>2 DEF Bind, Fails
<1>5. ASSUME NEW k \in Threads PROVE LooksStopped(k)' => LooksStopped(k)
  <2>1. CASE UNCHANGED shown
    BY <2>1 DEF LooksStopped
  <2>2. CASE Show(w.thread, "ready", 0)
    <3>1. shown \in ShownType /\ shown' = [shown EXCEPT ![w.thread] = [status |-> "ready", active |-> 0]]
      BY <2>2 DEF Typed, Show
    <3>2. shown'[k] = IF k = w.thread THEN [status |-> "ready", active |-> 0] ELSE shown[k]
      BY <3>1 DEF ShownType
    <3> QED
      BY <3>2 DEF LooksStopped
  <2> QED
    BY <2>1, <2>2 DEF Bind
<1> SUFFICES ASSUME NEW k \in Threads PROVE Lag(k)' /\ StopIsDone(k)'
  BY DEF LagInv
<1>6. Lag(k)'
  BY <1>2, <1>3, <1>5, SilentLag DEF LagInv
<1> QED
  BY <1>4, <1>6 DEF StopIsDone

\* A thread that is given a turn, or whose turn is interrupted, has its session.
LEMMA RoutedLag ==
  ASSUME Typed, LagInv, NEW k \in Threads, NEW s \in GoodSession, s.alive,
         provider' = [provider EXCEPT ![k] = s],
         NEW more \in Seq(GoodEvent),
         \A i \in 1 .. Len(more) : more[i].thread = k /\ more[i].type # "session.exited",
         Tell(Recovery(k) \o more), UNCHANGED shown, past.ignored \subseteq past'.ignored
  PROVE  \A o \in Threads : Lag(o)'
<1> DEFINE es == Recovery(k) \o more
           started == Event("session.started", k, 0, 0)
<1>1. Recovery(k) \in Seq(GoodEvent) /\ started.thread = k /\ IsStart(started, k) /\ ~IsExit(started, k)
  BY RoutedIsGood DEF Event, IsStart, IsExit
<1>2. /\ es \in Seq(GoodEvent) /\ Len(es) = Len(Recovery(k)) + Len(more)
      /\ Len(Recovery(k)) \in Nat /\ Len(more) \in Nat
      /\ \A i \in 1 .. Len(Recovery(k)) : es[i] = Recovery(k)[i]
      /\ \A j \in 1 .. Len(more) : es[Len(Recovery(k)) + j] = more[j]
  BY <1>1, ConcatIsSeq
<1> HIDE DEF es, started
<1>3. CASE provider[k].alive
  <2>1. Recovery(k) = <<>> /\ Len(Recovery(k)) = 0
    BY <1>3 DEF Recovery
  <2>2. \A i \in 1 .. Len(es) : es[i].thread = k /\ ~IsExit(es[i], k)
    <3> SUFFICES ASSUME NEW i \in 1 .. Len(es) PROVE es[i].thread = k /\ ~IsExit(es[i], k)
      OBVIOUS
    <3>1. i \in 1 .. Len(more) /\ es[0 + i] = more[i] /\ 0 + i = i
      BY <1>2, <2>1
    <3> QED
      BY <3>1 DEF IsExit
  <2> QED
    BY <1>2, <1>3, <2>2, ReplaceLag DEF NoExit, LagInv, es
<1>4. CASE ~provider[k].alive
  <2>1. Recovery(k) = <<started>> /\ Len(Recovery(k)) = 1 /\ Recovery(k)[1] = started
    BY <1>4 DEF Recovery, started
  <2>2. \A i \in 1 .. Len(es) : es[i].thread = k /\ ~IsExit(es[i], k)
    <3> SUFFICES ASSUME NEW i \in 1 .. Len(es) PROVE es[i].thread = k /\ ~IsExit(es[i], k)
      OBVIOUS
    <3>1. CASE i = 1
      <4>1. 1 \in 1 .. Len(Recovery(k)) /\ es[1] = started
        BY <1>2, <2>1
      <4> QED
        BY <1>1, <3>1, <4>1
    <3>2. CASE i # 1
      <4>1. /\ Len(more) \in Nat /\ Len(es) = 1 + Len(more)
            /\ \A j \in 1 .. Len(more) : es[1 + j] = more[j]
        BY <1>2, <2>1
      <4>2. i - 1 \in 1 .. Len(more) /\ 1 + (i - 1) = i
        BY <3>2, <4>1
      <4>3. es[i] = more[i - 1]
        BY <4>1, <4>2
      <4> QED
        BY <4>2, <4>3 DEF IsExit
    <3> QED
      BY <3>1, <3>2
  <2>3. EndsStarted(es, k)
    <3>1. 1 \in 1 .. Len(es) /\ es[1] = started
      <4>1. 1 \in 1 .. Len(Recovery(k))
        BY <2>1
      <4> QED
        BY <1>2, <2>1, <4>1
    <3> QED
      BY <1>1, <2>2, <3>1 DEF EndsStarted
  <2> QED
    BY <1>2, <2>2, <2>3, ReplaceLag DEF LagInv, es
<1> QED
  BY <1>3, <1>4

LEMMA SendLag == ASSUME Typed, LagInv, Send PROVE LagInv'
<1> DEFINE w == commands.work
           k == w.thread
<1>1. k \in Threads /\ w.turn \in Turns
  BY WorkAtHand DEF Send
<1>2. UNCHANGED shown
  BY DEF Send
<1>3. past'.ignored = past.ignored /\ commands'.work.op # "stopped"
  <2>1. past'.ignored = past.ignored
    BY IgnoredOf, GivesBackOf DEF Send, Fails
  <2>2. Then(Idle)
    BY DEF Send, Fails, GivesBack
  <2> QED
    BY <2>1, <2>2, ThenFields, IdleIsWork
<1>4. \A o \in Threads : StopIsDone(o)'
  BY <1>3 DEF StopIsDone
<1>5. \A o \in Threads : Lag(o)'
  <2>1. CASE /\ provider' = [provider EXCEPT ![k] = WithTurn(Routed(k), w.turn)]
             /\ Tell(Recovery(k) \o TurnStarted(Routed(k), k, w.turn))
    <3> DEFINE more == TurnStarted(Routed(k), k, w.turn)
    <3>1. Routed(k) \in GoodSession /\ Routed(k).alive
      BY <1>1, RoutedIsGood
    <3>2. /\ WithTurn(Routed(k), w.turn) \in GoodSession /\ WithTurn(Routed(k), w.turn).alive
          /\ more \in Seq(GoodEvent)
      BY <1>1, <3>1, WithTurnIsGood
    <3>3. \A i \in 1 .. Len(more) : more[i].thread = k /\ more[i].type # "session.exited"
      <4>1. CASE more = <<>>
        BY <4>1
      <4>2. CASE more = <<Event("turn.started", k, w.turn, 0)>>
        BY <4>2 DEF Event
      <4> QED
        BY <4>1, <4>2 DEF TurnStarted
    <3> HIDE DEF more
    <3> QED
      BY <1>1, <1>2, <1>3, <2>1, <3>2, <3>3, RoutedLag DEF more
  <2>2. CASE UNCHANGED <<provider, ingestion>>
    <3> SUFFICES ASSUME NEW o \in Threads PROVE Lag(o)'
      OBVIOUS
    <3>1. LooksStopped(o)' = LooksStopped(o)
      BY <1>2 DEF LooksStopped
    <3> QED
      BY <1>3, <2>2, <3>1, SilentLag DEF LagInv
  <2>3. CASE GivesBack(k, w.turn)
    <3> DEFINE began == Event("turn.started", k, w.turn, 0)
    <3>1. Routed(k) \in GoodSession /\ Routed(k).alive
      BY <1>1, RoutedIsGood
    <3>2. began \in GoodEvent /\ began.thread = k /\ began.type # "session.exited"
      <4>1. w.turn \in 0 .. MaxTurns
        BY <1>1, TurnAssumption DEF Turns
      <4>2. "turn.started" \in Lifecycle
        BY DEF Lifecycle
      <4>3. began \in GoodEvent
        BY <1>1, <4>1, <4>2, EventIsGood
      <4> QED
        BY <4>3 DEF Event
    <3>3. /\ provider' = [provider EXCEPT ![k] = Routed(k)]
          /\ Tell(Recovery(k) \o <<began>>)
      BY <2>3 DEF GivesBack
    <3> HIDE DEF began
    <3>4. <<began>> \in Seq(GoodEvent)
      BY <3>2, OneIsSeq
    <3>5. \A i \in 1 .. Len(<<began>>) :
            <<began>>[i].thread = k /\ <<began>>[i].type # "session.exited"
      BY <3>2
    <3> QED
      BY <1>1, <1>2, <1>3, <3>1, <3>3, <3>4, <3>5, RoutedLag
  <2> QED
    BY <2>1, <2>2, <2>3 DEF Send
<1> QED
  BY <1>4, <1>5 DEF LagInv

LEMMA TakeInterruptLag == ASSUME Typed, LagInv, TakeInterrupt PROVE LagInv'
<1> DEFINE k == Asked.thread
<1>1. k \in Threads
  BY AskedIsGood DEF TakeInterrupt
<1>2. UNCHANGED <<shown, past>> /\ commands'.work.op # "stopped"
  BY IdleIsWork DEF TakeInterrupt, Take
<1>3. \A o \in Threads : StopIsDone(o)'
  BY <1>2 DEF StopIsDone
<1>4. CASE UNCHANGED <<provider, ingestion>>
  <2> SUFFICES ASSUME NEW o \in Threads PROVE Lag(o)'
    BY <1>3 DEF LagInv
  <2>1. LooksStopped(o)' = LooksStopped(o)
    BY <1>2 DEF LooksStopped
  <2> QED
    BY <1>2, <1>4, <2>1, SilentLag DEF LagInv
<1>5. CASE provider[k].turn # 0 /\ TurnEnds(k)
  BY <1>1, <1>2, <1>5, TurnEndsLag
<1>6. CASE provider' = [provider EXCEPT ![k] = Routed(k)] /\ Tell(Recovery(k))
  <2>1. /\ Routed(k) \in GoodSession /\ Routed(k).alive /\ Recovery(k) \in Seq(GoodEvent)
    BY <1>1, RoutedIsGood
  <2> DEFINE none == <<>>
  <2>2. /\ Recovery(k) \o none = Recovery(k) /\ none \in Seq(GoodEvent)
        /\ \A i \in 1 .. Len(none) : none[i].thread = k /\ none[i].type # "session.exited"
    BY <2>1, EmptyIsSeq
  <2> HIDE DEF none
  <2>3. Tell(Recovery(k) \o none)
    BY <1>6, <2>2
  <2>4. \A o \in Threads : Lag(o)'
    BY <1>1, <1>2, <1>6, <2>1, <2>2, <2>3, RoutedLag
  <2> QED
    BY <1>3, <2>4 DEF LagInv
<1> QED
  BY <1>4, <1>5, <1>6 DEF TakeInterrupt

LEMMA TakeStopLag == ASSUME Typed, LagInv, TakeStop PROVE LagInv'
<1> DEFINE k == Asked.thread
<1>1. k \in Threads
  BY AskedIsGood DEF TakeStop
<1>2. UNCHANGED shown /\ past \in PastType
  BY DEF TakeStop, Typed
<1>3. \A o \in Threads : LooksStopped(o)' = LooksStopped(o)
  BY <1>2 DEF LooksStopped
<1>4. CASE /\ Take(Works("stopped", k, 0))
           /\ past' = [past EXCEPT !.ignored = IF provider[k].alive THEN @ \cup {k} ELSE @]
           /\ UNCHANGED <<provider, ingestion>>
  <2>1. past'.ignored = IF provider[k].alive THEN past.ignored \cup {k} ELSE past.ignored
    BY <1>2, <1>4 DEF PastType
  <2>2. commands'.work.thread = k
    BY <1>4 DEF Take, Works
  <2> SUFFICES ASSUME NEW o \in Threads PROVE Lag(o)' /\ StopIsDone(o)'
    BY DEF LagInv
  <2>3. Lag(o)'
    BY <1>3, <1>4, <2>1, SilentLag DEF LagInv
  <2>4. StopIsDone(o)'
    BY <1>4, <2>1, <2>2 DEF StopIsDone
  <2> QED
    BY <2>3, <2>4
<1>5. CASE StopSession(k) /\ Take(Works("stopped", k, 0))
  <2>1. past'.ignored = past.ignored
    BY <1>5, IgnoredOf DEF StopSession
  <2>2. (\A o \in Threads : Lag(o)') /\ ~provider'[k].alive
    BY <1>1, <1>2, <1>5, <2>1, EndsLag DEF StopSession
  <2>3. commands'.work.thread = k
    BY <1>5 DEF Take, Works
  <2>4. \A o \in Threads : StopIsDone(o)'
    BY <2>2, <2>3 DEF StopIsDone
  <2> QED
    BY <2>2, <2>4 DEF LagInv
<1>6. CASE Take(Idle) /\ UNCHANGED <<provider, ingestion, past>>
  <2> SUFFICES ASSUME NEW o \in Threads PROVE Lag(o)' /\ StopIsDone(o)'
    BY DEF LagInv
  <2>1. Lag(o)'
    BY <1>3, <1>6, SilentLag DEF LagInv
  <2>2. commands'.work.op # "stopped"
    BY <1>6, IdleIsWork DEF Take
  <2> QED
    BY <2>1, <2>2 DEF StopIsDone
<1> QED
  BY <1>4, <1>5, <1>6 DEF TakeStop

LEMMA SetStoppedLag == ASSUME Typed, LagInv, SetStopped PROVE LagInv'
<1> DEFINE w == commands.work
<1>1. w.thread \in Threads /\ w.op = "stopped"
  BY WorkAtHand DEF SetStopped
<1>2. UNCHANGED <<provider, ingestion, past>> /\ commands'.work.op # "stopped"
  BY ThenFields, IdleIsWork DEF SetStopped
<1>3. shown \in ShownType
      /\ shown' = [shown EXCEPT ![w.thread] = [status |-> "stopped", active |-> 0]]
  BY DEF Typed, SetStopped, Show
<1> SUFFICES ASSUME NEW k \in Threads PROVE Lag(k)' /\ StopIsDone(k)'
  BY DEF LagInv
<1>4. LooksStopped(k)' => LooksStopped(k) \/ k = w.thread
  <2>1. shown'[k] = IF k = w.thread THEN [status |-> "stopped", active |-> 0] ELSE shown[k]
    BY <1>3 DEF ShownType
  <2> QED
    BY <2>1 DEF LooksStopped
<1>5. k = w.thread => ~provider[k].alive \/ k \in past.ignored
  BY <1>1 DEF LagInv, StopIsDone
<1>6. Lag(k)'
  BY <1>2, <1>4, <1>5, SilentLag DEF LagInv
<1> QED
  BY <1>2, <1>6 DEF StopIsDone

LEMMA ReadLifecycleLag == ASSUME Typed, LagInv, ReadLifecycle PROVE LagInv'
<1> DEFINE e == Head(ingestion.runtime)
           r == <<e, shown[e.thread].active>>
<1>1. /\ ingestion \in IngestionType /\ ingestion.runtime \in Seq(GoodEvent)
      /\ ingestion.runtime # <<>> /\ Calm
      /\ UNCHANGED <<provider, shown, past, commands>>
  BY DEF ReadLifecycle, Typed, IngestionType
<1>2. ingestion' = [ingestion EXCEPT !.runtime = Tail(@), !.reading = r]
  BY DEF ReadLifecycle
<1>3. r # <<>> /\ r[1] = e
  OBVIOUS
<1> HIDE DEF r
<1>4. ingestion'.runtime = Tail(ingestion.runtime) /\ ingestion'.reading = r
  BY <1>1, <1>2 DEF IngestionType
<1>5. ~Calm' /\ ingestion'.reading[1] = e
  BY <1>3, <1>4 DEF Calm
<1> SUFFICES ASSUME NEW k \in Threads PROVE Lag(k)' /\ StopIsDone(k)'
  BY DEF LagInv
<1>6. /\ Followed(ingestion.runtime, k) =>
            Followed(Tail(ingestion.runtime), k) /\ (IsExit(e, k) => HasStart(Tail(ingestion.runtime), k))
      /\ HasStart(ingestion.runtime, k) => HasStart(Tail(ingestion.runtime), k) \/ IsStart(e, k)
  BY <1>1, TailFollowed
<1>7. ExitsFollowed(k) /\ StartToCome(k) /\ ~InHand(k)
  BY <1>1 DEF LagInv, Lag, InHand
<1>8. ExitsFollowed(k)'
  BY <1>1, <1>4, <1>5, <1>6, <1>7 DEF ExitsFollowed
<1>9. StartToCome(k)'
  BY <1>1, <1>4, <1>5, <1>6, <1>7 DEF StartToCome, InHand, LooksStopped
<1>10. StopIsDone(k)'
  BY <1>1, StopStaysDone DEF LagInv
<1> QED
  BY <1>8, <1>9, <1>10 DEF Lag

\* Completing a reply leaves the streams alone.
LEMMA CompleteFields ==
  ASSUME NEW i \in IngestionType, NEW t, NEW whole, Complete(i, t, whole)
  PROVE  ingestion'.runtime = i.runtime /\ ingestion'.reading = i.reading
<1> DEFINE b == [i.buffer EXCEPT ![t] = <<>>]
<1>1. ingestion' = [i EXCEPT !.open = @ \ {t}, !.buffer = b]
  BY DEF Complete
<1> HIDE DEF b
<1> QED
  BY <1>1 DEF IngestionType

\* Applying an event leaves the stream that was not read.
LEMMA AppliedParts ==
  ASSUME Typed, ApplyLifecycle
  PROVE  ingestion'.runtime = ingestion.runtime /\ ingestion'.reading = <<>>
<1> DEFINE e == ingestion.reading[1]
           done == [ingestion EXCEPT !.reading = <<>>]
<1>1. done \in IngestionType /\ done.runtime = ingestion.runtime /\ done.reading = <<>>
  BY DEF Typed, IngestionType
<1>2. CASE Complete(done, e.turn, 0)
  <2> HIDE DEF done
  <2> QED
    BY <1>1, <1>2, CompleteFields
<1>3. CASE ingestion' = done
  BY <1>1, <1>3
<1>4. CASE ingestion' = Cleared(done, e.thread)
  <2> HIDE DEF done
  <2> DEFINE b == [t \in Turns |-> IF t \in done.open \cap Of(e.thread) THEN <<>>
                                  ELSE done.buffer[t]]
  <2>1. Cleared(done, e.thread) = [done EXCEPT !.open = @ \ Of(e.thread), !.buffer = b]
    BY DEF Cleared
  <2> HIDE DEF b
  <2> QED
    BY <1>1, <1>4, <2>1 DEF IngestionType
<1> QED
  BY <1>2, <1>3, <1>4 DEF ApplyLifecycle

\* What the ingestion shows of an event, and where.
LEMMA AppliedShown ==
  ASSUME Typed, ApplyLifecycle
  PROVE  LET e == ingestion.reading[1]
             active == ingestion.reading[2]
         IN
         \/ /\ Applies(e, active) /\ shown'[e.thread] \in ShownAfter(e, active)
            /\ \A k \in Threads : k # e.thread => shown'[k] = shown[k]
         \/ ~Applies(e, active) /\ shown' = shown
<1> DEFINE e == ingestion.reading[1]
           active == ingestion.reading[2]
<1>1. e.thread \in Threads /\ shown \in ShownType
  BY ReadingOf DEF Typed, ApplyLifecycle
<1>2. \/ /\ Applies(e, active)
         /\ \E s \in ShownAfter(e, active) : shown' = [shown EXCEPT ![e.thread] = s]
      \/ ~Applies(e, active) /\ shown' = shown
  BY DEF ApplyLifecycle
<1> HIDE DEF e, active
<1>3. \/ /\ Applies(e, active) /\ shown'[e.thread] \in ShownAfter(e, active)
         /\ \A k \in Threads : k # e.thread => shown'[k] = shown[k]
      \/ ~Applies(e, active) /\ shown' = shown
  BY <1>1, <1>2 DEF ShownType
<1> QED
  BY <1>3 DEF e, active

LEMMA ApplyLifecycleLag == ASSUME Typed, LagInv, ApplyLifecycle PROVE LagInv'
<1> DEFINE e == ingestion.reading[1]
           active == ingestion.reading[2]
<1>1. /\ ~Calm /\ e.thread \in Threads /\ e.type \in Lifecycle
      /\ UNCHANGED <<provider, past, commands>>
  BY ReadingOf DEF ApplyLifecycle
<1>4. ingestion'.runtime = ingestion.runtime /\ ingestion'.reading = <<>>
  BY AppliedParts
<1>5. Calm'
  BY <1>4 DEF Calm
<1>6. \/ /\ Applies(e, active) /\ shown'[e.thread] \in ShownAfter(e, active)
         /\ \A k \in Threads : k # e.thread => shown'[k] = shown[k]
      \/ ~Applies(e, active) /\ shown' = shown
  BY AppliedShown
<1> SUFFICES ASSUME NEW k \in Threads PROVE Lag(k)' /\ StopIsDone(k)'
  BY DEF LagInv
<1>7. ExitsFollowed(k) /\ StartToCome(k)
  BY DEF LagInv, Lag
<1>8. ExitsFollowed(k)'
  BY <1>1, <1>4, <1>5, <1>7 DEF ExitsFollowed
<1>9. StartToCome(k)'
  <2>1. CASE IsStart(e, k)
    <3>1. /\ Applies(e, active) /\ e.thread = k
          /\ \A s \in ShownAfter(e, active) : s.status \in {"ready", "running"}
      BY <2>1 DEF IsStart, Applies, ShownAfter
    <3>2. shown'[k] \in ShownAfter(e, active)
      BY <1>6, <3>1
    <3>3. shown'[k].status \in {"ready", "running"}
      BY <3>1, <3>2
    <3> QED
      BY <3>3 DEF StartToCome, LooksStopped
  <2>2. CASE IsExit(e, k)
    BY <1>1, <1>4, <1>7, <2>2 DEF ExitsFollowed, StartToCome
  <2>3. CASE ~IsStart(e, k) /\ ~IsExit(e, k)
    <3>1. LooksStopped(k)' => LooksStopped(k)
      <4>1. CASE Applies(e, active) /\ e.thread = k
        <5>1. \A s \in ShownAfter(e, active) : s.status \notin {"none", "stopped"}
          BY <1>1, <2>3, <4>1 DEF IsStart, IsExit, ShownAfter, Lifecycle
        <5>2. shown'[k] \in ShownAfter(e, active)
          BY <1>6, <4>1
        <5>3. shown'[k].status \notin {"none", "stopped"}
          BY <5>1, <5>2
        <5> QED
          BY <5>3 DEF LooksStopped
      <4>2. CASE ~(Applies(e, active) /\ e.thread = k)
        <5>1. shown'[k] = shown[k]
          BY <1>6, <4>2
        <5> QED
          BY <5>1 DEF LooksStopped
      <4> QED
        BY <4>1, <4>2
    <3>2. ~InHand(k)
      BY <2>3 DEF InHand
    <3> QED
      BY <1>1, <1>4, <1>7, <3>1, <3>2 DEF StartToCome
  <2> QED
    BY <2>1, <2>2, <2>3
<1>10. StopIsDone(k)'
  BY <1>1, StopStaysDone DEF LagInv
<1> QED
  BY <1>8, <1>9, <1>10 DEF Lag

\* Text is taken from the stream and leaves the session alone.
LEMMA TextParts ==
  ASSUME Typed, TakeDelta \/ TakeItem
  PROVE  /\ Calm /\ ingestion.runtime # <<>> /\ Head(ingestion.runtime).type \notin Lifecycle
         /\ UNCHANGED <<provider, shown, past, commands, bound>>
         /\ ingestion'.runtime = Tail(ingestion.runtime)
         /\ ingestion'.reading = ingestion.reading
<1> DEFINE e == Head(ingestion.runtime)
           t == e.turn
<1>1. /\ Calm /\ ingestion.runtime # <<>> /\ e.type \notin Lifecycle
      /\ UNCHANGED <<provider, shown, past, commands, bound>>
  BY DEF TakeDelta, TakeItem, Lifecycle
<1>2. ingestion \in IngestionType /\ Tail(ingestion.runtime) \in Seq(GoodEvent) /\ e \in GoodEvent
  BY <1>1, NextEvent DEF Typed
<1>3. ingestion'.runtime = Tail(ingestion.runtime) /\ ingestion'.reading = ingestion.reading
  <2>1. CASE TakeItem
    <3> DEFINE i == [ingestion EXCEPT !.runtime = Tail(@)]
    <3>1. i \in IngestionType /\ i.runtime = Tail(ingestion.runtime) /\ i.reading = ingestion.reading
      BY <1>2 DEF IngestionType
    <3>2. Complete(i, e.turn, e.piece)
      BY <2>1 DEF TakeItem
    <3> HIDE DEF i
    <3> QED
      BY <3>1, <3>2, CompleteFields
  <2>2. CASE TakeDelta
    <3> DEFINE taken == [ingestion EXCEPT !.runtime = Tail(@), !.open = @ \cup {t}]
    <3>1. t \in Turns
      BY <1>2, <2>2 DEF TakeDelta, GoodEvent
    <3>2. /\ taken \in IngestionType /\ taken.runtime = Tail(ingestion.runtime)
          /\ taken.reading = ingestion.reading
      BY <1>2, <3>1 DEF IngestionType
    <3>3. ingestion' = taken \/ \E b : ingestion' = [taken EXCEPT !.buffer = b]
      BY <2>2 DEF TakeDelta
    <3> HIDE DEF taken
    <3> QED
      BY <3>2, <3>3 DEF IngestionType
  <2> QED
    BY <2>1, <2>2
<1> QED
  BY <1>1, <1>3

LEMMA TakeTextLag == ASSUME Typed, LagInv, TakeDelta \/ TakeItem PROVE LagInv'
<1>1. /\ Calm /\ ingestion.runtime # <<>> /\ Head(ingestion.runtime).type \notin Lifecycle
      /\ UNCHANGED <<provider, shown, past, commands>>
  BY TextParts
<1>2. ingestion'.runtime = Tail(ingestion.runtime) /\ ingestion'.reading = ingestion.reading
  BY TextParts
<1> SUFFICES ASSUME NEW k \in Threads PROVE Lag(k)' /\ StopIsDone(k)'
  BY DEF LagInv
<1>3. Lag(k)'
  BY <1>1, <1>2, ConsumeLag DEF LagInv
<1>4. StopIsDone(k)'
  BY <1>1, StopStaysDone DEF LagInv
<1> QED
  BY <1>3, <1>4

LEMMA CrashLag == ASSUME Typed, LagInv, Crash PROVE LagInv'
<1>1. \A k \in Threads : ~provider'[k].alive
  BY NoSessionIsGood DEF Crash
<1> QED
  BY <1>1 DEF LagInv, Lag, ExitsFollowed, StartToCome, StopIsDone

LEMMA InitLag == Init => LagInv
<1> SUFFICES ASSUME Init PROVE LagInv
  OBVIOUS
<1>1. \A k \in Threads : ~provider[k].alive
  BY NoSessionIsGood DEF Init
<1> QED
  BY <1>1 DEF LagInv, Lag, ExitsFollowed, StartToCome, StopIsDone

LEMMA NextLag == ASSUME Typed, LagInv, [Next]_vars PROVE LagInv'
<1>1. CASE UNCHANGED vars
  BY <1>1 DEF vars, LagInv, Lag, ExitsFollowed, StartToCome, StopIsDone, InHand, Calm, LooksStopped
<1>2. CASE RequestTurn \/ RequestStop \/ TakeStart \/ TakeRestart \/ TakeMode
  BY <1>2, QuietLag
<1>3. CASE \E k \in Threads : Speak(k) \/ EndTurn(k) \/ Exit(k) \/ Remark(k)
  BY <1>3, SpeakLag, EndTurnLag, ExitLag, RemarkLag
<1>4. CASE StartSession \/ Bind \/ Send
  BY <1>4, StartSessionLag, BindLag, SendLag
<1>5. CASE TakeInterrupt \/ TakeStop \/ SetStopped
  BY <1>5, TakeInterruptLag, TakeStopLag, SetStoppedLag
<1>6. CASE ReadLifecycle \/ ApplyLifecycle \/ TakeDelta \/ TakeItem
  BY <1>6, ReadLifecycleLag, ApplyLifecycleLag, TakeTextLag
<1>7. CASE Crash
  BY <1>7, CrashLag
<1> QED
  BY <1>1, <1>2, <1>3, <1>4, <1>5, <1>6, <1>7 DEF Next

LEMMA LagHolds == Spec => []LagInv
  BY InitLag, NextLag, TypedHolds, PTL DEF Spec

---------------------------------------------------------------------------
(* The theorems.                                                           *)

\* No variable leaves its type: a session that is gone runs nothing, no buffer
\* exceeds its limit, and the two workers hold what their code declares.
THEOREM TypeCorrect == Spec => []TypeOK
  BY TypedHolds, TypedImpliesTypeOK, PTL

\* When the workers have nothing left to do, every turn asked for has been sent or
\* its failure told, or the process died with the request in the reactor's queue
\* (processTurnStartRequested, its error handler, and the queue behind it).
THEOREM RequestsGetAnswers == Spec => []RequestsAreAnswered
<1>1. Answered => RequestsAreAnswered
  <2> SUFFICES ASSUME Answered, Drained PROVE \A t \in Turns : owner[t] # 0 =>
                                         t \in past.sent \cup past.told \cup past.lost
    BY DEF RequestsAreAnswered
  <2>1. Requested = {}
    BY DEF Drained, Requested
  <2> QED
    BY <2>1 DEF Answered
<1> QED
  BY <1>1, AnsweredHolds, PTL

\* A live session looks stopped only while its session.started waits for the
\* ingestion, or a stop was ignored in that time: the exits of a session that was
\* replaced never hide the one that replaced it.
THEOREM LooksStoppedOnlyInLag == Spec => []StoppedIsLag
<1>1. Typed /\ LagInv => StoppedIsLag
  <2> SUFFICES ASSUME Typed, LagInv, NEW k \in Threads \ past.ignored, LooksStopped(k), provider[k].alive
               PROVE  \E e \in {ingestion.runtime[i] : i \in 1 .. Len(ingestion.runtime)}
                              \cup (IF Calm THEN {} ELSE {ingestion.reading[1]}) :
                        e.type = "session.started" /\ e.thread = k
    BY DEF StoppedIsLag
  <2>1. HasStart(ingestion.runtime, k) \/ InHand(k)
    BY DEF LagInv, Lag, StartToCome
  <2> QED
    BY <2>1 DEF HasStart, InHand, IsStart
<1> QED
  BY <1>1, TypedHolds, LagHolds, PTL

---------------------------------------------------------------------------
(* The way of a reply: what the ingestion has taken of it, followed by the *)
(* script of the events on their way, is what the provider has said.  Who  *)
(* can still speak decides which ends of turns and exits of sessions may   *)
(* be in that script.                                                      *)

\* What the ingestion has still to work off: the event in its hands, and the queue.
Stream == (IF Calm THEN <<>> ELSE <<ingestion.reading[1]>>) \o ingestion.runtime

IsDelta(e, t) == e.type = "content.delta" /\ e.turn = t

IsItem(e, t) == e.type = "item.completed" /\ e.turn = t

Speaks(e, t) == IsDelta(e, t) \/ IsItem(e, t)

IsEnd(e, t) == e.type = "turn.completed" /\ e.turn = t

Silent(s, t) == \A i \in 1 .. Len(s) : ~Speaks(s[i], t)

SilentFrom(s, i, t) == \A j \in 1 .. Len(s) : i < j => ~Speaks(s[j], t)

\* Text of t was taken, or is in s before position i.
Heard(s, i, t, opened) == opened \/ \E j \in 1 .. Len(s) : j < i /\ Speaks(s[j], t)

\* Pieces c + 1 .. n come in s, in their order, each after the ones before it.
DeltasInOrder(s, t, c, n) ==
    \A j \in 1 .. Len(s) : IsDelta(s[j], t) =>
        /\ c < s[j].piece /\ s[j].piece <= n
        /\ \A q \in c + 1 .. s[j].piece - 1 : \E i \in 1 .. Len(s) : i < j /\ IsDelta(s[i], t) /\ s[i].piece = q
        /\ \A i \in 1 .. Len(s) : i < j /\ IsDelta(s[i], t) => s[i].piece < s[j].piece

\* None of them is missing, unless the whole reply comes as one item.
NoneMissing(s, t, c, n) ==
    \/ \A q \in c + 1 .. n : \E i \in 1 .. Len(s) : IsDelta(s[i], t) /\ s[i].piece = q
    \/ /\ c = 0
       /\ \A i \in 1 .. Len(s) : ~IsDelta(s[i], t)
       /\ \E i \in 1 .. Len(s) : IsItem(s[i], t)

\* The item says how many there were, and is the last that is said.
ItemsLast(s, t, n, ended) ==
    \A i \in 1 .. Len(s) : IsItem(s[i], t) => s[i].piece = n /\ ended /\ SilentFrom(s, i, t)

\* Nothing is said of a turn once it has ended.
EndsLast(s, t, gone) ==
    \A i \in 1 .. Len(s) : IsEnd(s[i], t) => gone /\ SilentFrom(s, i, t)

\* A session that exits takes with it the turns that have spoken.
ExitsLast(s, t, k, opened, gone) ==
    \A i \in 1 .. Len(s) : IsExit(s[i], k) /\ Heard(s, i, t, opened) => gone /\ SilentFrom(s, i, t)

Script(s, t, k, c, n, ended, opened, gone) ==
    /\ c <= n
    /\ DeltasInOrder(s, t, c, n)
    /\ NoneMissing(s, t, c, n)
    /\ ItemsLast(s, t, n, ended)
    /\ EndsLast(s, t, gone)
    /\ ExitsLast(s, t, k, opened, gone)

Given(t) == \E k \in Threads : t \in Unfinished(k)

\* Nobody will send t again, no provider works on it.
Gone(t) == owner[t] # 0 /\ t \notin Requested /\ ~Given(t)

Queued(t) == \E k \in Threads : \E i \in 1 .. Len(provider[k].queue) : provider[k].queue[i] = t

\* t has not begun: not asked for, with the reactor, or waiting in its session.
Waits(t) == owner[t] = 0 \/ t \in Requested \/ Queued(t)

Taken(t) == Len(reply[t].text) + Len(ingestion.buffer[t])

Untouched(t) ==
    /\ output[t] = [pieces |-> 0, ended |-> FALSE]
    /\ reply[t] = [text |-> <<>>, complete |-> FALSE]
    /\ ingestion.buffer[t] = <<>> /\ t \notin ingestion.open
    /\ Silent(Stream, t) /\ \A i \in 1 .. Len(Stream) : ~IsEnd(Stream[i], t)

Elements(s) == {s[i] : i \in 1 .. Len(s)}

Ordered(t) ==
    /\ \A i \in 1 .. Len(reply[t].text) : reply[t].text[i] = i
    /\ \A i \in 1 .. Len(ingestion.buffer[t]) : ingestion.buffer[t][i] = Len(reply[t].text) + i
    /\ ingestion.mode = "streaming" => ingestion.buffer[t] = <<>>

\* The reply of t on its way.
Flows(t) ==
    /\ Script(Stream, t, owner[t], Taken(t), output[t].pieces, output[t].ended, t \in ingestion.open, Gone(t))
    /\ Elements(reply[t].text) \cup Elements(ingestion.buffer[t]) = 1 .. Taken(t)
    /\ t \notin past.switched => Ordered(t)
    /\ reply[t].complete =>
          /\ ingestion.buffer[t] = <<>> /\ Taken(t) = output[t].pieces
          /\ output[t].ended \/ Gone(t)

\* Nothing of t is on its way any more.
Over(t) ==
    /\ Gone(t) /\ t \notin ingestion.open /\ Silent(Stream, t)
    /\ t \notin past.switched => \A i \in 1 .. Len(reply[t].text) : reply[t].text[i] = i
    /\ reply[t].complete => Elements(reply[t].text) = 1 .. output[t].pieces

\* What closes the reply of t is still to come.
Due(s, t, k, opened, given) ==
    /\ given \/ \E i \in 1 .. Len(s) : IsEnd(s[i], t)
    /\ opened \/ ~Silent(s, t)
    /\ \A i \in 1 .. Len(s) :
          IsExit(s[i], k) /\ Heard(s, i, t, opened) => \E j \in 1 .. Len(s) : j < i /\ IsEnd(s[j], t)

\* The reply of a turn that is not cut is closed or will be.
Closing(t) ==
    output[t].pieces > 0 /\ t \notin past.cut =>
        reply[t].complete \/ Due(Stream, t, owner[t], t \in ingestion.open, Given(t))

\* Each command and the work at hand is about a turn of its thread, each of another.
RequestsPlaced ==
    /\ \A i \in 1 .. Len(commands.queue) :
          commands.queue[i].turn # 0 => owner[commands.queue[i].turn] = commands.queue[i].thread
    /\ \A i, j \in 1 .. Len(commands.queue) :
          i # j /\ commands.queue[i].turn # 0 => commands.queue[i].turn # commands.queue[j].turn
    /\ commands.work # Idle /\ commands.work.turn # 0 =>
          /\ owner[commands.work.turn] = commands.work.thread
          /\ \A i \in 1 .. Len(commands.queue) : commands.queue[i].turn # commands.work.turn

\* A session works on turns of its thread, on each once.
SessionPlaced(p, k) ==
    /\ p.turn # 0 => owner[p.turn] = k
    /\ \A i \in 1 .. Len(p.queue) : owner[p.queue[i]] = k /\ p.queue[i] # p.turn
    /\ \A i, j \in 1 .. Len(p.queue) : i # j => p.queue[i] # p.queue[j]

\* A turn is at one place at a time.
Placed ==
    /\ RequestsPlaced
    /\ \A t \in Requested : ~Given(t)
    /\ \A k \in Threads : SessionPlaced(provider[k], k)

\* Turns are done with, and nothing else.
Fewer ==
    /\ owner' = owner
    /\ Requested' \subseteq Requested
    /\ \A t : Given(t)' => Given(t)
    /\ \A t : Queued(t)' => Queued(t)

ReplyInv ==
    /\ Placed
    /\ \A t \in Turns :
          /\ Waits(t) => Untouched(t)
          /\ Flows(t) \/ Over(t)
          /\ Closing(t)

---------------------------------------------------------------------------
(* The stream, when more is told.                                          *)

LEMMA Joined ==
  ASSUME NEW s \in Seq(GoodEvent), NEW es \in Seq(GoodEvent)
  PROVE  /\ s \o es \in Seq(GoodEvent) /\ Len(s) \in Nat /\ Len(es) \in Nat
         /\ Len(s \o es) = Len(s) + Len(es)
         /\ \A i \in 1 .. Len(s) : i \in 1 .. Len(s \o es) /\ (s \o es)[i] = s[i]
         /\ \A i \in 1 .. Len(s \o es) :
               \/ i \in 1 .. Len(s) /\ (s \o es)[i] = s[i]
               \/ i > Len(s) /\ i - Len(s) \in 1 .. Len(es) /\ (s \o es)[i] = es[i - Len(s)]
<1> DEFINE r == s \o es
<1>1. /\ r \in Seq(GoodEvent) /\ Len(s) \in Nat /\ Len(es) \in Nat /\ Len(r) = Len(s) + Len(es)
      /\ \A i \in 1 .. Len(s) : r[i] = s[i]
      /\ \A j \in 1 .. Len(es) : r[Len(s) + j] = es[j]
  BY ConcatIsSeq
<1> HIDE DEF r
<1>2. \A i \in 1 .. Len(s) : i \in 1 .. Len(r) /\ r[i] = s[i]
  BY <1>1
<1>3. ASSUME NEW i \in 1 .. Len(r), i > Len(s)
      PROVE  i - Len(s) \in 1 .. Len(es) /\ r[i] = es[i - Len(s)]
  <2>1. i - Len(s) \in 1 .. Len(es) /\ i = Len(s) + (i - Len(s))
    BY <1>1, <1>3
  <2> QED
    BY <1>1, <2>1
<1>4. \A i \in 1 .. Len(r) : i \in 1 .. Len(s) \/ i > Len(s)
  BY <1>1
<1> QED
  BY <1>1, <1>2, <1>3, <1>4 DEF r

\* Nothing of t is said by es, of its end or its session's exit only once it is gone.
LEMMA ScriptExtends ==
  ASSUME NEW s \in Seq(GoodEvent), NEW es \in Seq(GoodEvent), NEW t, NEW k,
         NEW c \in Nat, NEW n \in Nat, NEW ended, NEW opened, NEW gone, NEW later,
         Script(s, t, k, c, n, ended, opened, gone), gone => later, Silent(es, t),
         \A i \in 1 .. Len(es) : IsEnd(es[i], t) => later,
         \A i \in 1 .. Len(es) : IsExit(es[i], k) => later \/ (~opened /\ Silent(s, t))
  PROVE  Script(s \o es, t, k, c, n, ended, opened, later)
<1> DEFINE r == s \o es
<1>1. /\ Len(s) \in Nat /\ Len(es) \in Nat
      /\ \A i \in 1 .. Len(s) : i \in 1 .. Len(r) /\ r[i] = s[i]
      /\ \A i \in 1 .. Len(r) :
            \/ i \in 1 .. Len(s) /\ r[i] = s[i]
            \/ i > Len(s) /\ i - Len(s) \in 1 .. Len(es) /\ r[i] = es[i - Len(s)]
  BY Joined
<1>2. Len(r) \in Nat
  BY <1>1, Joined
<1> HIDE DEF r
<1>3. \A i \in 1 .. Len(r) : Speaks(r[i], t) => i \in 1 .. Len(s) /\ r[i] = s[i]
  BY <1>1 DEF Silent
<1>4. ASSUME NEW i \in 1 .. Len(s), SilentFrom(s, i, t) PROVE SilentFrom(r, i, t)
  BY <1>1, <1>3, <1>4 DEF SilentFrom
<1>5. ASSUME NEW i \in 1 .. Len(r), i > Len(s) PROVE SilentFrom(r, i, t)
  BY <1>1, <1>2, <1>3, <1>5 DEF SilentFrom
<1>6. DeltasInOrder(r, t, c, n)
  <2> SUFFICES ASSUME NEW j \in 1 .. Len(r), IsDelta(r[j], t)
               PROVE  /\ c < r[j].piece /\ r[j].piece <= n
                      /\ \A q \in c + 1 .. r[j].piece - 1 :
                            \E i \in 1 .. Len(r) : i < j /\ IsDelta(r[i], t) /\ r[i].piece = q
                      /\ \A i \in 1 .. Len(r) : i < j /\ IsDelta(r[i], t) => r[i].piece < r[j].piece
    BY DEF DeltasInOrder
  <2>1. j \in 1 .. Len(s) /\ r[j] = s[j]
    BY <1>3 DEF Speaks
  <2>2. /\ c < s[j].piece /\ s[j].piece <= n
        /\ \A q \in c + 1 .. s[j].piece - 1 :
              \E i \in 1 .. Len(s) : i < j /\ IsDelta(s[i], t) /\ s[i].piece = q
        /\ \A i \in 1 .. Len(s) : i < j /\ IsDelta(s[i], t) => s[i].piece < s[j].piece
    BY <2>1 DEF Script, DeltasInOrder
  <2>3. \A q \in c + 1 .. r[j].piece - 1 :
           \E i \in 1 .. Len(r) : i < j /\ IsDelta(r[i], t) /\ r[i].piece = q
    BY <1>1, <2>1, <2>2
  <2>4. \A i \in 1 .. Len(r) : i < j /\ IsDelta(r[i], t) => r[i].piece < r[j].piece
    BY <1>3, <2>1, <2>2 DEF Speaks
  <2> QED
    BY <2>1, <2>2, <2>3, <2>4
<1>7. NoneMissing(r, t, c, n)
  <2>1. CASE \A q \in c + 1 .. n : \E i \in 1 .. Len(s) : IsDelta(s[i], t) /\ s[i].piece = q
    <3>1. \A q \in c + 1 .. n : \E i \in 1 .. Len(r) : IsDelta(r[i], t) /\ r[i].piece = q
      BY <1>1, <2>1
    <3> QED
      BY <3>1 DEF NoneMissing
  <2>2. CASE /\ c = 0 /\ \A i \in 1 .. Len(s) : ~IsDelta(s[i], t)
             /\ \E i \in 1 .. Len(s) : IsItem(s[i], t)
    <3>1. \A i \in 1 .. Len(r) : ~IsDelta(r[i], t)
      BY <1>3, <2>2 DEF Speaks
    <3>2. \E i \in 1 .. Len(r) : IsItem(r[i], t)
      BY <1>1, <2>2
    <3> QED
      BY <2>2, <3>1, <3>2 DEF NoneMissing
  <2> QED
    BY <2>1, <2>2 DEF Script, NoneMissing
<1>8. ItemsLast(r, t, n, ended)
  BY <1>3, <1>4 DEF Script, ItemsLast, Speaks
<1>9. EndsLast(r, t, later)
  <2> SUFFICES ASSUME NEW i \in 1 .. Len(r), IsEnd(r[i], t) PROVE later /\ SilentFrom(r, i, t)
    BY DEF EndsLast
  <2>1. CASE i \in 1 .. Len(s) /\ r[i] = s[i]
    BY <1>4, <2>1 DEF Script, EndsLast
  <2>2. CASE i > Len(s) /\ i - Len(s) \in 1 .. Len(es) /\ r[i] = es[i - Len(s)]
    BY <1>5, <2>2
  <2> QED
    BY <1>1, <2>1, <2>2
<1>10. ExitsLast(r, t, k, opened, later)
  <2> SUFFICES ASSUME NEW i \in 1 .. Len(r), IsExit(r[i], k), Heard(r, i, t, opened)
               PROVE  later /\ SilentFrom(r, i, t)
    BY DEF ExitsLast
  <2>1. CASE i \in 1 .. Len(s) /\ r[i] = s[i]
    <3>1. Heard(s, i, t, opened)
      BY <1>3 DEF Heard
    <3> QED
      BY <1>4, <2>1, <3>1 DEF Script, ExitsLast
  <2>2. CASE i > Len(s) /\ i - Len(s) \in 1 .. Len(es) /\ r[i] = es[i - Len(s)]
    <3>1. ~(~opened /\ Silent(s, t))
      BY <1>3 DEF Heard, Silent
    <3> QED
      BY <1>5, <2>2, <3>1
  <2> QED
    BY <1>1, <2>1, <2>2
<1> QED
  BY <1>6, <1>7, <1>8, <1>9, <1>10 DEF Script, r

---------------------------------------------------------------------------
(* The stream, when its first event is worked off.                         *)

LEMMA Shifted ==
  ASSUME NEW s \in Seq(GoodEvent), s # <<>>
  PROVE  /\ Tail(s) \in Seq(GoodEvent) /\ Len(s) \in Nat /\ Len(s) > 0 /\ Len(Tail(s)) \in Nat
         /\ Len(Tail(s)) = Len(s) - 1 /\ Head(s) = s[1] /\ s[1] \in GoodEvent
         /\ \A i \in 1 .. Len(Tail(s)) : i + 1 \in 1 .. Len(s) /\ Tail(s)[i] = s[i + 1]
         /\ \A i \in 1 .. Len(s) : i # 1 => i - 1 \in 1 .. Len(Tail(s)) /\ Tail(s)[i - 1] = s[i]
<1> DEFINE r == Tail(s)
<1>1. /\ r \in Seq(GoodEvent) /\ Len(s) \in Nat /\ Len(s) > 0 /\ Len(r) = Len(s) - 1
      /\ Head(s) = s[1] /\ \A i \in 1 .. Len(r) : r[i] = s[i + 1]
  BY HeadThenTail
<1>2. s[1] \in GoodEvent
  BY <1>1
<1> HIDE DEF r
<1>3. \A i \in 1 .. Len(r) : i + 1 \in 1 .. Len(s)
  BY <1>1
<1>4. ASSUME NEW i \in 1 .. Len(s), i # 1 PROVE i - 1 \in 1 .. Len(r) /\ r[i - 1] = s[i]
  <2>1. i - 1 \in 1 .. Len(r) /\ (i - 1) + 1 = i
    BY <1>1, <1>4
  <2> QED
    BY <1>1, <2>1
<1> QED
  BY <1>1, <1>2, <1>3, <1>4 DEF r

\* What holds at a position of s holds one earlier in its tail.
LEMMA SilentShifted ==
  ASSUME NEW s \in Seq(GoodEvent), s # <<>>, NEW t
  PROVE  /\ \A i \in 1 .. Len(Tail(s)) : SilentFrom(s, i + 1, t) => SilentFrom(Tail(s), i, t)
         /\ SilentFrom(s, 1, t) => Silent(Tail(s), t)
         /\ Silent(s, t) => Silent(Tail(s), t)
<1> DEFINE r == Tail(s)
<1>1. /\ Len(s) \in Nat /\ Len(r) \in Nat
      /\ \A i \in 1 .. Len(r) : i + 1 \in 1 .. Len(s) /\ r[i] = s[i + 1]
  BY Shifted
<1> HIDE DEF r
<1>2. ASSUME NEW i \in 1 .. Len(r), SilentFrom(s, i + 1, t) PROVE SilentFrom(r, i, t)
  <2> SUFFICES ASSUME NEW j \in 1 .. Len(r), i < j PROVE ~Speaks(r[j], t)
    BY DEF SilentFrom
  <2>1. i + 1 < j + 1
    BY <1>1
  <2> QED
    BY <1>1, <1>2, <2>1 DEF SilentFrom
<1>3. ASSUME SilentFrom(s, 1, t) PROVE Silent(r, t)
  <2> SUFFICES ASSUME NEW j \in 1 .. Len(r) PROVE ~Speaks(r[j], t)
    BY DEF Silent
  <2>1. 1 < j + 1
    BY <1>1
  <2> QED
    BY <1>1, <1>3, <2>1 DEF SilentFrom
<1>4. Silent(s, t) => Silent(r, t)
  BY <1>1 DEF Silent
<1> QED
  BY <1>2, <1>3, <1>4 DEF r

LEMMA EndsShifted ==
  ASSUME NEW s \in Seq(GoodEvent), s # <<>>, NEW t, NEW n, NEW ended, NEW gone
  PROVE  /\ ItemsLast(s, t, n, ended) => ItemsLast(Tail(s), t, n, ended)
         /\ EndsLast(s, t, gone) => EndsLast(Tail(s), t, gone)
<1> DEFINE r == Tail(s)
<1>1. /\ \A i \in 1 .. Len(r) : i + 1 \in 1 .. Len(s) /\ r[i] = s[i + 1]
      /\ \A i \in 1 .. Len(r) : SilentFrom(s, i + 1, t) => SilentFrom(r, i, t)
  BY Shifted, SilentShifted
<1> HIDE DEF r
<1>2. ItemsLast(s, t, n, ended) => ItemsLast(r, t, n, ended)
  BY <1>1 DEF ItemsLast
<1>3. EndsLast(s, t, gone) => EndsLast(r, t, gone)
  BY <1>1 DEF EndsLast
<1> QED
  BY <1>2, <1>3 DEF r

LEMMA ExitsShifted ==
  ASSUME NEW s \in Seq(GoodEvent), s # <<>>, NEW t, NEW k, NEW opened, NEW later, NEW gone,
         ExitsLast(s, t, k, opened, gone), later => opened \/ Speaks(s[1], t)
  PROVE  ExitsLast(Tail(s), t, k, later, gone)
<1> DEFINE r == Tail(s)
<1>1. /\ Len(s) \in Nat /\ Len(r) \in Nat /\ Len(s) > 0
      /\ \A i \in 1 .. Len(r) : i + 1 \in 1 .. Len(s) /\ r[i] = s[i + 1]
      /\ \A i \in 1 .. Len(r) : SilentFrom(s, i + 1, t) => SilentFrom(r, i, t)
  BY Shifted, SilentShifted
<1> HIDE DEF r
<1> SUFFICES ASSUME NEW i \in 1 .. Len(r), IsExit(r[i], k), Heard(r, i, t, later)
             PROVE  gone /\ SilentFrom(r, i, t)
  BY DEF ExitsLast, r
<1>2. Heard(s, i + 1, t, opened)
  <2>1. CASE later
    <3>1. 1 \in 1 .. Len(s) /\ 1 < i + 1
      BY <1>1
    <3> QED
      BY <2>1, <3>1 DEF Heard
  <2>2. CASE \E j \in 1 .. Len(r) : j < i /\ Speaks(r[j], t)
    <3>1. PICK j \in 1 .. Len(r) : j < i /\ Speaks(r[j], t)
      BY <2>2
    <3>2. j + 1 < i + 1 /\ j + 1 \in 1 .. Len(s) /\ Speaks(s[j + 1], t)
      BY <1>1, <3>1
    <3> QED
      BY <3>2 DEF Heard
  <2> QED
    BY <2>1, <2>2 DEF Heard
<1> QED
  BY <1>1, <1>2 DEF ExitsLast

\* An event that says nothing of t.
LEMMA ScriptPasses ==
  ASSUME NEW s \in Seq(GoodEvent), s # <<>>, NEW t, NEW k, NEW c \in Nat, NEW n \in Nat,
         NEW ended, NEW opened, NEW later, NEW gone,
         Script(s, t, k, c, n, ended, opened, gone), ~Speaks(s[1], t), later => opened
  PROVE  Script(Tail(s), t, k, c, n, ended, later, gone)
<1> DEFINE r == Tail(s)
<1>1. /\ Len(s) \in Nat /\ Len(r) \in Nat /\ Len(s) > 0
      /\ \A i \in 1 .. Len(r) : i + 1 \in 1 .. Len(s) /\ r[i] = s[i + 1]
      /\ \A i \in 1 .. Len(s) : i # 1 => i - 1 \in 1 .. Len(r) /\ r[i - 1] = s[i]
  BY Shifted
<1>2. ItemsLast(r, t, n, ended) /\ EndsLast(r, t, gone) /\ ExitsLast(r, t, k, later, gone)
  BY EndsShifted, ExitsShifted DEF Script
<1> HIDE DEF r
<1>3. DeltasInOrder(r, t, c, n)
  <2> SUFFICES ASSUME NEW j \in 1 .. Len(r), IsDelta(r[j], t)
               PROVE  /\ c < r[j].piece /\ r[j].piece <= n
                      /\ \A q \in c + 1 .. r[j].piece - 1 :
                            \E i \in 1 .. Len(r) : i < j /\ IsDelta(r[i], t) /\ r[i].piece = q
                      /\ \A i \in 1 .. Len(r) : i < j /\ IsDelta(r[i], t) => r[i].piece < r[j].piece
    BY DEF DeltasInOrder
  <2>1. j + 1 \in 1 .. Len(s) /\ r[j] = s[j + 1]
    BY <1>1
  <2>2. /\ c < s[j + 1].piece /\ s[j + 1].piece <= n
        /\ \A q \in c + 1 .. s[j + 1].piece - 1 :
              \E i \in 1 .. Len(s) : i < j + 1 /\ IsDelta(s[i], t) /\ s[i].piece = q
        /\ \A i \in 1 .. Len(s) : i < j + 1 /\ IsDelta(s[i], t) => s[i].piece < s[j + 1].piece
    BY <2>1 DEF Script, DeltasInOrder
  <2>3. ASSUME NEW q \in c + 1 .. r[j].piece - 1
        PROVE  \E i \in 1 .. Len(r) : i < j /\ IsDelta(r[i], t) /\ r[i].piece = q
    <3>1. PICK i \in 1 .. Len(s) : i < j + 1 /\ IsDelta(s[i], t) /\ s[i].piece = q
      BY <2>1, <2>2
    <3>2. i # 1
      BY <3>1 DEF Speaks
    <3>3. i - 1 \in 1 .. Len(r) /\ r[i - 1] = s[i]
      BY <1>1, <3>2
    <3>4. i - 1 < j
      BY <1>1, <3>1
    <3> QED
      BY <3>1, <3>3, <3>4
  <2>4. ASSUME NEW i \in 1 .. Len(r), i < j, IsDelta(r[i], t) PROVE r[i].piece < r[j].piece
    <3>1. i + 1 < j + 1 /\ i + 1 \in 1 .. Len(s) /\ r[i] = s[i + 1]
      BY <1>1, <2>4
    <3> QED
      BY <2>1, <2>2, <2>4, <3>1
  <2> QED
    BY <2>1, <2>2, <2>3, <2>4
<1>4. NoneMissing(r, t, c, n)
  <2>1. CASE \A q \in c + 1 .. n : \E i \in 1 .. Len(s) : IsDelta(s[i], t) /\ s[i].piece = q
    <3>1. ASSUME NEW q \in c + 1 .. n PROVE \E i \in 1 .. Len(r) : IsDelta(r[i], t) /\ r[i].piece = q
      <4>1. PICK i \in 1 .. Len(s) : IsDelta(s[i], t) /\ s[i].piece = q
        BY <2>1
      <4>2. i # 1
        BY <4>1 DEF Speaks
      <4> QED
        BY <1>1, <4>1, <4>2
    <3> QED
      BY <3>1 DEF NoneMissing
  <2>2. CASE /\ c = 0 /\ \A i \in 1 .. Len(s) : ~IsDelta(s[i], t)
             /\ \E i \in 1 .. Len(s) : IsItem(s[i], t)
    <3>1. \A i \in 1 .. Len(r) : ~IsDelta(r[i], t)
      BY <1>1, <2>2
    <3>2. \E i \in 1 .. Len(r) : IsItem(r[i], t)
      <4>1. PICK i \in 1 .. Len(s) : IsItem(s[i], t)
        BY <2>2
      <4>2. i # 1
        BY <4>1 DEF Speaks
      <4> QED
        BY <1>1, <4>1, <4>2
    <3> QED
      BY <2>2, <3>1, <3>2 DEF NoneMissing
  <2> QED
    BY <2>1, <2>2 DEF Script, NoneMissing
<1> QED
  BY <1>2, <1>3, <1>4 DEF Script, r

\* The next piece of t.
LEMMA ScriptDelta ==
  ASSUME NEW s \in Seq(GoodEvent), s # <<>>, NEW t, NEW k, NEW c \in Nat, NEW n \in Nat,
         NEW ended, NEW opened, NEW gone,
         Script(s, t, k, c, n, ended, opened, gone), IsDelta(s[1], t)
  PROVE  /\ s[1].piece = c + 1
         /\ Script(Tail(s), t, k, c + 1, n, ended, TRUE, gone)
<1> DEFINE r == Tail(s)
<1>1. /\ Len(s) \in Nat /\ Len(r) \in Nat /\ Len(s) > 0 /\ s[1] \in GoodEvent
      /\ \A i \in 1 .. Len(r) : i + 1 \in 1 .. Len(s) /\ r[i] = s[i + 1]
      /\ \A i \in 1 .. Len(s) : i # 1 => i - 1 \in 1 .. Len(r) /\ r[i - 1] = s[i]
  BY Shifted
<1>2. ItemsLast(r, t, n, ended) /\ EndsLast(r, t, gone) /\ ExitsLast(r, t, k, TRUE, gone)
  BY EndsShifted, ExitsShifted DEF Script, Speaks
<1>3. 1 \in 1 .. Len(s) /\ s[1].piece \in Nat
  BY <1>1, TurnAssumption DEF GoodEvent, RuntimeEvent
<1>4. /\ c < s[1].piece /\ s[1].piece <= n
      /\ \A q \in c + 1 .. s[1].piece - 1 : \E i \in 1 .. Len(s) : i < 1 /\ IsDelta(s[i], t) /\ s[i].piece = q
  BY <1>3 DEF Script, DeltasInOrder
<1>5. \A q \in c + 1 .. s[1].piece - 1 : FALSE
  BY <1>4
<1>6. s[1].piece = c + 1
  <2>1. CASE c + 1 \in c + 1 .. s[1].piece - 1
    BY <1>5, <2>1
  <2>2. CASE c + 1 \notin c + 1 .. s[1].piece - 1
    BY <1>3, <1>4, <2>2
  <2> QED
    BY <2>1, <2>2
<1> HIDE DEF r
<1>7. DeltasInOrder(r, t, c + 1, n)
  <2> SUFFICES ASSUME NEW j \in 1 .. Len(r), IsDelta(r[j], t)
               PROVE  /\ c + 1 < r[j].piece /\ r[j].piece <= n
                      /\ \A q \in (c + 1) + 1 .. r[j].piece - 1 :
                            \E i \in 1 .. Len(r) : i < j /\ IsDelta(r[i], t) /\ r[i].piece = q
                      /\ \A i \in 1 .. Len(r) : i < j /\ IsDelta(r[i], t) => r[i].piece < r[j].piece
    BY DEF DeltasInOrder
  <2>1. j + 1 \in 1 .. Len(s) /\ r[j] = s[j + 1] /\ 1 < j + 1
    BY <1>1
  <2>2. /\ s[j + 1].piece <= n
        /\ \A q \in c + 1 .. s[j + 1].piece - 1 :
              \E i \in 1 .. Len(s) : i < j + 1 /\ IsDelta(s[i], t) /\ s[i].piece = q
        /\ \A i \in 1 .. Len(s) : i < j + 1 /\ IsDelta(s[i], t) => s[i].piece < s[j + 1].piece
    BY <2>1 DEF Script, DeltasInOrder
  <2>3. c + 1 < r[j].piece
    BY <1>3, <1>6, <2>1, <2>2
  <2>4. ASSUME NEW q \in (c + 1) + 1 .. r[j].piece - 1
        PROVE  \E i \in 1 .. Len(r) : i < j /\ IsDelta(r[i], t) /\ r[i].piece = q
    <3>0. q \in c + 1 .. s[j + 1].piece - 1 /\ q # c + 1
      BY <2>1
    <3>1. PICK i \in 1 .. Len(s) : i < j + 1 /\ IsDelta(s[i], t) /\ s[i].piece = q
      BY <3>0, <2>2
    <3>2. i # 1
      BY <3>0, <3>1, <1>6
    <3>3. i - 1 \in 1 .. Len(r) /\ r[i - 1] = s[i]
      BY <1>1, <3>2
    <3>4. i - 1 < j
      BY <1>1, <3>1
    <3> QED
      BY <3>1, <3>3, <3>4
  <2>5. ASSUME NEW i \in 1 .. Len(r), i < j, IsDelta(r[i], t) PROVE r[i].piece < r[j].piece
    <3>1. i + 1 < j + 1 /\ i + 1 \in 1 .. Len(s) /\ r[i] = s[i + 1]
      BY <1>1, <2>5
    <3> QED
      BY <2>1, <2>2, <2>5, <3>1
  <2> QED
    BY <2>1, <2>2, <2>3, <2>4, <2>5
<1>8. NoneMissing(r, t, c + 1, n)
  <2>1. \A q \in c + 1 .. n : \E i \in 1 .. Len(s) : IsDelta(s[i], t) /\ s[i].piece = q
    BY <1>3 DEF Script, NoneMissing
  <2>2. ASSUME NEW q \in (c + 1) + 1 .. n PROVE \E i \in 1 .. Len(r) : IsDelta(r[i], t) /\ r[i].piece = q
    <3>0. q \in c + 1 .. n /\ q # c + 1
      OBVIOUS
    <3>1. PICK i \in 1 .. Len(s) : IsDelta(s[i], t) /\ s[i].piece = q
      BY <2>1, <3>0
    <3>2. i # 1
      BY <1>6, <3>0, <3>1
    <3> QED
      BY <1>1, <3>1, <3>2
  <2> QED
    BY <2>2 DEF NoneMissing
<1>9. c + 1 <= n
  BY <1>4, <1>6
<1> QED
  BY <1>2, <1>6, <1>7, <1>8, <1>9 DEF Script, r

\* The item of t: it says how many pieces there were, and none of them is to come.
LEMMA ScriptItem ==
  ASSUME NEW s \in Seq(GoodEvent), s # <<>>, NEW t, NEW k, NEW c \in Nat, NEW n \in Nat,
         NEW ended, NEW opened, NEW gone,
         Script(s, t, k, c, n, ended, opened, gone), IsItem(s[1], t)
  PROVE  /\ s[1].piece = n /\ ended /\ (c = n \/ c = 0)
         /\ Script(Tail(s), t, k, n, n, ended, FALSE, gone)
<1>1. Len(s) \in Nat /\ Len(s) > 0 /\ 1 \in 1 .. Len(s) /\ Tail(s) \in Seq(GoodEvent)
  BY Shifted
<1>2. s[1].piece = n /\ ended /\ SilentFrom(s, 1, t)
  BY <1>1 DEF Script, ItemsLast
<1>3. ItemsLast(Tail(s), t, n, ended) /\ EndsLast(Tail(s), t, gone) /\ ExitsLast(Tail(s), t, k, FALSE, gone)
  BY EndsShifted, ExitsShifted DEF Script
<1>4. Silent(Tail(s), t)
  BY <1>2, SilentShifted
<1>5. DeltasInOrder(Tail(s), t, n, n) /\ NoneMissing(Tail(s), t, n, n)
  <2>1. \A q \in n + 1 .. n : FALSE
    OBVIOUS
  <2> QED
    BY <1>4, <2>1 DEF DeltasInOrder, NoneMissing, Silent, Speaks
<1>6. c = n \/ c = 0
  <2>1. \A i \in 1 .. Len(s) : ~IsDelta(s[i], t)
    <3> SUFFICES ASSUME NEW i \in 1 .. Len(s), IsDelta(s[i], t) PROVE FALSE
      OBVIOUS
    <3>1. i # 1
      BY DEF IsDelta, IsItem
    <3>2. 1 < i
      BY <1>1, <3>1
    <3> QED
      BY <1>2, <3>2 DEF SilentFrom, Speaks
  <2>2. CASE \A q \in c + 1 .. n : \E i \in 1 .. Len(s) : IsDelta(s[i], t) /\ s[i].piece = q
    <3>1. \A q \in c + 1 .. n : FALSE
      BY <2>1, <2>2
    <3>2. n \notin c + 1 .. n
      BY <3>1
    <3> QED
      BY <3>2 DEF Script
  <2> QED
    BY <2>2 DEF Script, NoneMissing
<1>7. n <= n
  OBVIOUS
<1>8. Script(Tail(s), t, k, n, n, ended, FALSE, gone)
  BY <1>3, <1>5, <1>7 DEF Script
<1> QED
  BY <1>2, <1>6, <1>8

\* When nothing more of t is said, none of its pieces is missing.
LEMMA ScriptSilent ==
  ASSUME NEW s \in Seq(GoodEvent), NEW t, NEW k, NEW c \in Nat, NEW n \in Nat,
         NEW ended, NEW opened, NEW gone,
         Script(s, t, k, c, n, ended, opened, gone), Silent(s, t)
  PROVE  c = n
<1>1. \A q \in c + 1 .. n : FALSE
  BY DEF Script, NoneMissing, Silent, Speaks
<1>2. n \notin c + 1 .. n
  BY <1>1
<1> QED
  BY <1>2 DEF Script

\* A turn nothing was told of.
LEMMA ScriptOfNone ==
  ASSUME NEW s \in Seq(GoodEvent), NEW t, NEW k, NEW gone, NEW ended, NEW n \in Nat, Silent(s, t),
         NEW opened, ~opened, \A i \in 1 .. Len(s) : IsEnd(s[i], t) => gone
  PROVE  Script(s, t, k, n, n, ended, opened, gone)
<1>1. \A q \in n + 1 .. n : FALSE
  OBVIOUS
<1>2. DeltasInOrder(s, t, n, n) /\ NoneMissing(s, t, n, n) /\ ItemsLast(s, t, n, ended)
  BY <1>1 DEF DeltasInOrder, NoneMissing, ItemsLast, Silent, Speaks
<1>3. \A i \in 1 .. Len(s) : SilentFrom(s, i, t) /\ ~Heard(s, i, t, opened)
  BY DEF Silent, SilentFrom, Heard
<1>4. EndsLast(s, t, gone) /\ ExitsLast(s, t, k, opened, gone)
  BY <1>3 DEF EndsLast, ExitsLast
<1>5. n <= n
  OBVIOUS
<1> QED
  BY <1>2, <1>4, <1>5 DEF Script

\* Nothing has ended that still speaks.
LEMMA NotEnded ==
  ASSUME NEW s \in Seq(GoodEvent), NEW t, NEW k, NEW c \in Nat, NEW n \in Nat, NEW ended, NEW opened,
         Script(s, t, k, c, n, ended, opened, FALSE)
  PROVE  /\ \A i \in 1 .. Len(s) : ~IsEnd(s[i], t)
         /\ \A i \in 1 .. Len(s) : IsExit(s[i], k) => ~Heard(s, i, t, opened)
         /\ ~ended => \A i \in 1 .. Len(s) : ~IsItem(s[i], t)
  BY DEF Script, EndsLast, ExitsLast, ItemsLast

\* t says one thing more: a piece, or its item.
LEMMA SpeaksLast ==
  ASSUME NEW s \in Seq(GoodEvent), NEW e \in GoodEvent
  PROVE  /\ s \o <<e>> \in Seq(GoodEvent) /\ Len(s) \in Nat /\ Len(s \o <<e>>) = Len(s) + 1
         /\ Len(s) + 1 \in 1 .. Len(s \o <<e>>) /\ (s \o <<e>>)[Len(s) + 1] = e
         /\ \A i \in 1 .. Len(s) : i \in 1 .. Len(s \o <<e>>) /\ (s \o <<e>>)[i] = s[i]
         /\ \A i \in 1 .. Len(s \o <<e>>) :
               (i \in 1 .. Len(s) /\ (s \o <<e>>)[i] = s[i]) \/ i = Len(s) + 1
<1> DEFINE es == <<e>>
<1>1. es \in Seq(GoodEvent) /\ Len(es) = 1 /\ es[1] = e
  BY OneIsSeq
<1> HIDE DEF es
<1> DEFINE r == s \o es
<1>2. /\ r \in Seq(GoodEvent) /\ Len(s) \in Nat /\ Len(r) = Len(s) + 1
      /\ \A i \in 1 .. Len(s) : i \in 1 .. Len(r) /\ r[i] = s[i]
      /\ \A i \in 1 .. Len(r) :
            \/ i \in 1 .. Len(s) /\ r[i] = s[i]
            \/ i > Len(s) /\ i - Len(s) \in 1 .. Len(es) /\ r[i] = es[i - Len(s)]
  <2>1. r \in Seq(GoodEvent) /\ Len(s) \in Nat /\ Len(r) = Len(s) + Len(es)
    BY <1>1, Joined
  <2>2. \A i \in 1 .. Len(s) : i \in 1 .. Len(r) /\ r[i] = s[i]
    BY <1>1, Joined
  <2>3. \A i \in 1 .. Len(r) :
            \/ i \in 1 .. Len(s) /\ r[i] = s[i]
            \/ i > Len(s) /\ i - Len(s) \in 1 .. Len(es) /\ r[i] = es[i - Len(s)]
    BY <1>1, Joined
  <2> HIDE DEF r
  <2> QED
    BY <1>1, <2>1, <2>2, <2>3
<1> HIDE DEF r
<1>3. \A i \in 1 .. Len(r) : (i \in 1 .. Len(s) /\ r[i] = s[i]) \/ i = Len(s) + 1
  BY <1>1, <1>2
<1>4. Len(s) + 1 \in 1 .. Len(r) /\ Len(s) + 1 \notin 1 .. Len(s) /\ (Len(s) + 1) - Len(s) = 1
  BY <1>2
<1>5. r[Len(s) + 1] = e
  BY <1>1, <1>2, <1>4
<1> QED
  BY <1>2, <1>3, <1>4, <1>5 DEF r, es

LEMMA ScriptGrows ==
  ASSUME NEW s \in Seq(GoodEvent), NEW e \in GoodEvent, NEW t, NEW k, NEW c \in Nat, NEW n \in Nat,
         NEW opened, Script(s, t, k, c, n, FALSE, opened, FALSE),
         IsDelta(e, t), e.piece = n + 1
  PROVE  Script(s \o <<e>>, t, k, c, n + 1, FALSE, opened, FALSE)
<1> DEFINE r == s \o <<e>>
<1>1. /\ Len(s) \in Nat /\ Len(r) = Len(s) + 1
      /\ Len(s) + 1 \in 1 .. Len(r) /\ r[Len(s) + 1] = e
      /\ \A i \in 1 .. Len(s) : i \in 1 .. Len(r) /\ r[i] = s[i]
      /\ \A i \in 1 .. Len(r) : (i \in 1 .. Len(s) /\ r[i] = s[i]) \/ i = Len(s) + 1
  BY SpeaksLast
<1>2. /\ \A i \in 1 .. Len(s) : ~IsEnd(s[i], t)
      /\ \A i \in 1 .. Len(s) : IsExit(s[i], k) => ~Heard(s, i, t, opened)
      /\ \A i \in 1 .. Len(s) : ~IsItem(s[i], t)
      /\ c <= n
  BY NotEnded DEF Script
<1>3. ~IsEnd(e, t) /\ ~IsItem(e, t) /\ ~IsExit(e, k)
  BY DEF IsDelta, IsEnd, IsItem, IsExit
<1> HIDE DEF r
<1>4. DeltasInOrder(r, t, c, n + 1)
  <2> SUFFICES ASSUME NEW j \in 1 .. Len(r), IsDelta(r[j], t)
               PROVE  /\ c < r[j].piece /\ r[j].piece <= n + 1
                      /\ \A q \in c + 1 .. r[j].piece - 1 :
                            \E i \in 1 .. Len(r) : i < j /\ IsDelta(r[i], t) /\ r[i].piece = q
                      /\ \A i \in 1 .. Len(r) : i < j /\ IsDelta(r[i], t) => r[i].piece < r[j].piece
    BY DEF DeltasInOrder
  <2>0. \A i \in 1 .. Len(s) : s[i].piece \in Nat
    BY TurnAssumption DEF GoodEvent, RuntimeEvent
  <2>1. CASE j \in 1 .. Len(s) /\ r[j] = s[j]
    <3>1. /\ c < s[j].piece /\ s[j].piece <= n
          /\ \A q \in c + 1 .. s[j].piece - 1 :
                \E i \in 1 .. Len(s) : i < j /\ IsDelta(s[i], t) /\ s[i].piece = q
          /\ \A i \in 1 .. Len(s) : i < j /\ IsDelta(s[i], t) => s[i].piece < s[j].piece
      BY <2>1 DEF Script, DeltasInOrder
    <3>2. s[j].piece <= n + 1
      BY <2>0, <2>1, <3>1
    <3>3. \A q \in c + 1 .. r[j].piece - 1 :
             \E i \in 1 .. Len(r) : i < j /\ IsDelta(r[i], t) /\ r[i].piece = q
      BY <1>1, <2>1, <3>1
    <3>4. ASSUME NEW i \in 1 .. Len(r), i < j, IsDelta(r[i], t) PROVE r[i].piece < r[j].piece
      <4>1. i \in 1 .. Len(s) /\ r[i] = s[i]
        BY <1>1, <2>1, <3>4
      <4> QED
        BY <2>1, <3>1, <3>4, <4>1
    <3> QED
      BY <2>1, <3>1, <3>2, <3>3, <3>4
  <2>2. CASE j = Len(s) + 1
    <3>1. r[j] = e /\ r[j].piece = n + 1 /\ c < n + 1
      BY <1>1, <1>2, <2>2
    <3>2. \A q \in c + 1 .. n : \E i \in 1 .. Len(s) : IsDelta(s[i], t) /\ s[i].piece = q
      BY <1>2 DEF Script, NoneMissing
    <3>3. ASSUME NEW q \in c + 1 .. r[j].piece - 1
          PROVE  \E i \in 1 .. Len(r) : i < j /\ IsDelta(r[i], t) /\ r[i].piece = q
      <4>1. q \in c + 1 .. n
        BY <3>1
      <4>2. PICK i \in 1 .. Len(s) : IsDelta(s[i], t) /\ s[i].piece = q
        BY <3>2, <4>1
      <4>3. i < j
        BY <1>1, <2>2
      <4> QED
        BY <1>1, <4>2, <4>3
    <3>4. ASSUME NEW i \in 1 .. Len(r), i < j, IsDelta(r[i], t) PROVE r[i].piece < r[j].piece
      <4>1. i \in 1 .. Len(s) /\ r[i] = s[i]
        BY <1>1, <2>2, <3>4
      <4>2. s[i].piece <= n /\ s[i].piece \in Nat
        BY <2>0, <3>4, <4>1 DEF Script, DeltasInOrder
      <4>3. s[i].piece < n + 1
        BY <4>2
      <4> QED
        BY <3>1, <4>1, <4>3
    <3> QED
      BY <3>1, <3>3, <3>4
  <2> QED
    BY <1>1, <2>1, <2>2
<1>5. NoneMissing(r, t, c, n + 1)
  <2>1. \A q \in c + 1 .. n : \E i \in 1 .. Len(s) : IsDelta(s[i], t) /\ s[i].piece = q
    BY <1>2 DEF Script, NoneMissing
  <2>2. ASSUME NEW q \in c + 1 .. n + 1 PROVE \E i \in 1 .. Len(r) : IsDelta(r[i], t) /\ r[i].piece = q
    <3>1. q \in c + 1 .. n \/ q = n + 1
      OBVIOUS
    <3>2. CASE q \in c + 1 .. n
      BY <1>1, <2>1, <3>2
    <3>3. CASE q = n + 1
      BY <1>1, <3>3
    <3> QED
      BY <3>1, <3>2, <3>3
  <2> QED
    BY <2>2 DEF NoneMissing
<1>6. ItemsLast(r, t, n + 1, FALSE) /\ EndsLast(r, t, FALSE)
  BY <1>1, <1>2, <1>3 DEF ItemsLast, EndsLast
<1>7. ExitsLast(r, t, k, opened, FALSE)
  <2> SUFFICES ASSUME NEW i \in 1 .. Len(r), IsExit(r[i], k), Heard(r, i, t, opened) PROVE FALSE
    BY DEF ExitsLast
  <2>1. i \in 1 .. Len(s) /\ r[i] = s[i]
    BY <1>1, <1>3
  <2>2. \A j \in 1 .. Len(r) : j < i => j \in 1 .. Len(s) /\ r[j] = s[j]
    BY <1>1, <2>1
  <2>3. Heard(s, i, t, opened)
    BY <2>2 DEF Heard
  <2> QED
    BY <1>2, <2>1, <2>3
<1>8. c <= n + 1
  BY <1>2
<1> QED
  BY <1>4, <1>5, <1>6, <1>7, <1>8 DEF Script, r

\* The item, when every piece was said or none.
LEMMA ScriptCloses ==
  ASSUME NEW s \in Seq(GoodEvent), NEW e \in GoodEvent, NEW t, NEW k, NEW c \in Nat, NEW n \in Nat,
         NEW m \in Nat, NEW opened, Script(s, t, k, c, n, FALSE, opened, FALSE),
         IsItem(e, t), e.piece = m, m = n \/ n = 0
  PROVE  Script(s \o <<e>>, t, k, c, m, TRUE, opened, FALSE)
<1> DEFINE r == s \o <<e>>
<1>1. /\ Len(s) \in Nat /\ Len(r) = Len(s) + 1
      /\ Len(s) + 1 \in 1 .. Len(r) /\ r[Len(s) + 1] = e
      /\ \A i \in 1 .. Len(s) : i \in 1 .. Len(r) /\ r[i] = s[i]
      /\ \A i \in 1 .. Len(r) : (i \in 1 .. Len(s) /\ r[i] = s[i]) \/ i = Len(s) + 1
  BY SpeaksLast
<1>2. /\ \A i \in 1 .. Len(s) : ~IsEnd(s[i], t)
      /\ \A i \in 1 .. Len(s) : IsExit(s[i], k) => ~Heard(s, i, t, opened)
      /\ \A i \in 1 .. Len(s) : ~IsItem(s[i], t)
      /\ c <= n
  BY NotEnded DEF Script
<1>3. ~IsEnd(e, t) /\ ~IsDelta(e, t) /\ ~IsExit(e, k)
  BY DEF IsDelta, IsEnd, IsItem, IsExit
<1>4. \A i \in 1 .. Len(s) : s[i].piece \in Nat
  BY TurnAssumption DEF GoodEvent, RuntimeEvent
<1>5. \A i \in 1 .. Len(r) : IsDelta(r[i], t) => i \in 1 .. Len(s) /\ r[i] = s[i]
  BY <1>1, <1>3
<1> HIDE DEF r
<1>6. ASSUME m = n PROVE c <= m /\ DeltasInOrder(r, t, c, m) /\ NoneMissing(r, t, c, m)
  <2>1. DeltasInOrder(r, t, c, m)
    <3> SUFFICES ASSUME NEW j \in 1 .. Len(r), IsDelta(r[j], t)
                 PROVE  /\ c < r[j].piece /\ r[j].piece <= m
                        /\ \A q \in c + 1 .. r[j].piece - 1 :
                              \E i \in 1 .. Len(r) : i < j /\ IsDelta(r[i], t) /\ r[i].piece = q
                        /\ \A i \in 1 .. Len(r) : i < j /\ IsDelta(r[i], t) => r[i].piece < r[j].piece
      BY DEF DeltasInOrder
    <3>1. j \in 1 .. Len(s) /\ r[j] = s[j]
      BY <1>5
    <3>2. /\ c < s[j].piece /\ s[j].piece <= m
          /\ \A q \in c + 1 .. s[j].piece - 1 :
                \E i \in 1 .. Len(s) : i < j /\ IsDelta(s[i], t) /\ s[i].piece = q
          /\ \A i \in 1 .. Len(s) : i < j /\ IsDelta(s[i], t) => s[i].piece < s[j].piece
      BY <1>6, <3>1 DEF Script, DeltasInOrder
    <3>3. \A q \in c + 1 .. r[j].piece - 1 :
             \E i \in 1 .. Len(r) : i < j /\ IsDelta(r[i], t) /\ r[i].piece = q
      BY <1>1, <3>1, <3>2
    <3>4. \A i \in 1 .. Len(r) : i < j /\ IsDelta(r[i], t) => r[i].piece < r[j].piece
      BY <1>5, <3>1, <3>2
    <3> QED
      BY <3>1, <3>2, <3>3, <3>4
  <2>2. NoneMissing(r, t, c, m)
    BY <1>1, <1>2, <1>6 DEF Script, NoneMissing
  <2> QED
    BY <1>2, <1>6, <2>1, <2>2
<1>7. ASSUME n = 0 PROVE c <= m /\ DeltasInOrder(r, t, c, m) /\ NoneMissing(r, t, c, m)
  <2>1. \A i \in 1 .. Len(s) : ~IsDelta(s[i], t)
    BY <1>4, <1>7 DEF Script, DeltasInOrder
  <2>2. c = 0 /\ \A i \in 1 .. Len(r) : ~IsDelta(r[i], t)
    BY <1>2, <1>5, <1>7, <2>1
  <2>3. \E i \in 1 .. Len(r) : IsItem(r[i], t)
    BY <1>1
  <2>4. DeltasInOrder(r, t, c, m) /\ NoneMissing(r, t, c, m) /\ c <= m
    BY <2>2, <2>3 DEF DeltasInOrder, NoneMissing
  <2> QED
    BY <2>4
<1>8. c <= m /\ DeltasInOrder(r, t, c, m) /\ NoneMissing(r, t, c, m)
  BY <1>6, <1>7
<1>9. ItemsLast(r, t, m, TRUE) /\ EndsLast(r, t, FALSE)
  <2>1. SilentFrom(r, Len(s) + 1, t)
    BY <1>1 DEF SilentFrom
  <2> QED
    BY <1>1, <1>2, <1>3, <2>1 DEF ItemsLast, EndsLast
<1>10. ExitsLast(r, t, k, opened, FALSE)
  <2> SUFFICES ASSUME NEW i \in 1 .. Len(r), IsExit(r[i], k), Heard(r, i, t, opened) PROVE FALSE
    BY DEF ExitsLast
  <2>1. i \in 1 .. Len(s) /\ r[i] = s[i]
    BY <1>1, <1>3
  <2>2. \A j \in 1 .. Len(r) : j < i => j \in 1 .. Len(s) /\ r[j] = s[j]
    BY <1>1, <2>1
  <2>3. Heard(s, i, t, opened)
    BY <2>2 DEF Heard
  <2> QED
    BY <1>2, <2>1, <2>3
<1> QED
  BY <1>8, <1>9, <1>10 DEF Script, r

---------------------------------------------------------------------------
(* What closes a reply.                                                    *)

LEMMA DueExtends ==
  ASSUME NEW s \in Seq(GoodEvent), NEW es \in Seq(GoodEvent), NEW t, NEW k,
         NEW opened, NEW given, NEW later, Due(s, t, k, opened, given), Silent(es, t),
         given => later \/ \E i \in 1 .. Len(es) : IsEnd(es[i], t),
         (\E i \in 1 .. Len(es) : IsExit(es[i], k)) => ~given
  PROVE  Due(s \o es, t, k, opened, later)
<1> DEFINE r == s \o es
<1>1. /\ Len(s) \in Nat /\ Len(es) \in Nat /\ Len(r) = Len(s) + Len(es)
      /\ \A i \in 1 .. Len(s) : i \in 1 .. Len(r) /\ r[i] = s[i]
      /\ \A i \in 1 .. Len(r) :
            \/ i \in 1 .. Len(s) /\ r[i] = s[i]
            \/ i > Len(s) /\ i - Len(s) \in 1 .. Len(es) /\ r[i] = es[i - Len(s)]
  BY Joined
<1>2. \A j \in 1 .. Len(es) : Len(s) + j \in 1 .. Len(r) /\ r[Len(s) + j] = es[j]
  BY <1>1, ConcatIsSeq
<1> HIDE DEF r
<1>3. \A i \in 1 .. Len(r) : Speaks(r[i], t) => i \in 1 .. Len(s) /\ r[i] = s[i]
  BY <1>1 DEF Silent
<1>4. later \/ \E i \in 1 .. Len(r) : IsEnd(r[i], t)
  <2>1. CASE given
    BY <1>2, <2>1
  <2>2. CASE ~given
    BY <1>1, <2>2 DEF Due
  <2> QED
    BY <2>1, <2>2
<1>5. opened \/ ~Silent(r, t)
  BY <1>1 DEF Due, Silent
<1>6. ASSUME NEW i \in 1 .. Len(r), IsExit(r[i], k), Heard(r, i, t, opened)
      PROVE  \E j \in 1 .. Len(r) : j < i /\ IsEnd(r[j], t)
  <2>1. CASE i \in 1 .. Len(s) /\ r[i] = s[i]
    <3>1. Heard(s, i, t, opened)
      BY <1>3, <1>6 DEF Heard
    <3>2. \E j \in 1 .. Len(s) : j < i /\ IsEnd(s[j], t)
      BY <1>6, <2>1, <3>1 DEF Due
    <3> QED
      BY <1>1, <3>2
  <2>2. CASE i > Len(s) /\ i - Len(s) \in 1 .. Len(es) /\ r[i] = es[i - Len(s)]
    <3>1. ~given
      BY <1>6, <2>2
    <3>2. PICK j \in 1 .. Len(s) : IsEnd(s[j], t)
      BY <3>1 DEF Due
    <3>3. j < i
      BY <1>1, <2>2
    <3> QED
      BY <1>1, <3>2, <3>3
  <2> QED
    BY <1>1, <2>1, <2>2
<1> QED
  BY <1>4, <1>5, <1>6 DEF Due, r

\* The first event is not t's end, nor its session's exit; text of it opens the message.
LEMMA DuePasses ==
  ASSUME NEW s \in Seq(GoodEvent), s # <<>>, NEW t, NEW k, NEW opened, NEW later, NEW given,
         Due(s, t, k, opened, given), ~IsEnd(s[1], t), later <=> (opened \/ Speaks(s[1], t))
  PROVE  Due(Tail(s), t, k, later, given)
<1> DEFINE r == Tail(s)
<1>1. /\ Len(s) \in Nat /\ Len(r) \in Nat /\ Len(s) > 0 /\ 1 \in 1 .. Len(s)
      /\ \A i \in 1 .. Len(r) : i + 1 \in 1 .. Len(s) /\ r[i] = s[i + 1]
      /\ \A i \in 1 .. Len(s) : i # 1 => i - 1 \in 1 .. Len(r) /\ r[i - 1] = s[i]
  BY Shifted
<1> HIDE DEF r
<1>2. given \/ \E i \in 1 .. Len(r) : IsEnd(r[i], t)
  BY <1>1 DEF Due
<1>3. later \/ ~Silent(r, t)
  BY <1>1 DEF Due, Silent
<1>4. ASSUME NEW i \in 1 .. Len(r), IsExit(r[i], k), Heard(r, i, t, later)
      PROVE  \E j \in 1 .. Len(r) : j < i /\ IsEnd(r[j], t)
  <2>1. Heard(s, i + 1, t, opened)
    <3>1. CASE later
      <4>1. 1 < i + 1
        BY <1>1
      <4> QED
        BY <1>1, <3>1, <4>1 DEF Heard
    <3>2. CASE \E j \in 1 .. Len(r) : j < i /\ Speaks(r[j], t)
      <4>1. PICK j \in 1 .. Len(r) : j < i /\ Speaks(r[j], t)
        BY <3>2
      <4>2. j + 1 < i + 1
        BY <1>1, <4>1
      <4> QED
        BY <1>1, <4>1, <4>2 DEF Heard
    <3> QED
      BY <1>4, <3>1, <3>2 DEF Heard
  <2>2. PICK j \in 1 .. Len(s) : j < i + 1 /\ IsEnd(s[j], t)
    BY <1>1, <1>4, <2>1 DEF Due
  <2>3. j # 1
    BY <2>2
  <2>4. j - 1 < i
    BY <1>1, <2>2
  <2> QED
    BY <1>1, <2>2, <2>3, <2>4
<1> QED
  BY <1>2, <1>3, <1>4 DEF Due, r

---------------------------------------------------------------------------
(* Where turns are.                                                        *)

InQueue(t) == \E i \in 1 .. Len(commands.queue) : commands.queue[i].turn = t

LEMMA RequestedWhere ==
  ASSUME NEW t
  PROVE  t \in Requested <=> t # 0 /\ (InQueue(t) \/ (commands.work # Idle /\ commands.work.turn = t))
  BY DEF Requested, InQueue

LEMMA QueueIsGood ==
  ASSUME Typed
  PROVE  /\ commands.queue \in Seq(GoodCommand) /\ Len(commands.queue) \in Nat
         /\ \A i \in 1 .. Len(commands.queue) : commands.queue[i] \in GoodCommand
                                                /\ commands.queue[i].thread \in Threads
<1>1. commands.queue \in Seq(GoodCommand)
  BY DEF Typed, CommandsType
<1> QED
  BY <1>1 DEF GoodCommand, Command

\* A turn asked for has an owner, and so has one a session was given.
LEMMA RequestedOwned ==
  ASSUME Typed, RequestsPlaced, NEW t \in Requested
  PROVE  owner[t] \in Threads /\ owner[t] # 0
<1>1. 0 \notin Threads
  BY TurnAssumption
<1>2. t # 0 /\ (InQueue(t) \/ (commands.work # Idle /\ commands.work.turn = t))
  BY RequestedWhere
<1>3. CASE InQueue(t)
  BY <1>1, <1>2, <1>3, QueueIsGood DEF InQueue, RequestsPlaced
<1>4. CASE commands.work # Idle /\ commands.work.turn = t
  <2>1. commands.work.thread \in Threads
    BY <1>4 DEF Typed, CommandsType, GoodWork, Work
  <2> QED
    BY <1>1, <1>2, <1>4, <2>1 DEF RequestsPlaced
<1> QED
  BY <1>2, <1>3, <1>4

LEMMA GivenOwned ==
  ASSUME Typed, NEW k \in Threads, SessionPlaced(provider[k], k), NEW t \in Unfinished(k)
  PROVE  owner[t] = k /\ owner[t] # 0
<1>1. k # 0
  BY TurnAssumption
<1>2. t # 0 /\ (t = provider[k].turn \/ \E i \in 1 .. Len(provider[k].queue) : t = provider[k].queue[i])
  BY DEF Unfinished
<1> QED
  BY <1>1, <1>2 DEF SessionPlaced

\* The user asks for something.
LEMMA AskPlaces ==
  ASSUME Typed, RequestsPlaced, NEW c \in GoodCommand, Ask(c), c.turn \notin Requested,
         \A t : t # c.turn /\ t # 0 => owner'[t] = owner[t], c.turn # 0 => owner'[c.turn] = c.thread
  PROVE  /\ RequestsPlaced'
         /\ Requested' = Requested \cup ({c.turn} \ {0})
<1> DEFINE q == commands.queue
           r == Append(commands.queue, c)
<1>1. /\ q \in Seq(GoodCommand) /\ Len(q) \in Nat /\ Len(r) = Len(q) + 1 /\ r[Len(q) + 1] = c
      /\ \A i \in 1 .. Len(q) : i \in 1 .. Len(r) /\ r[i] = q[i]
      /\ \A i \in 1 .. Len(r) : i \in 1 .. Len(q) \/ i = Len(q) + 1
      /\ Len(q) + 1 \in 1 .. Len(r)
  BY QueueIsGood
<1>2. commands'.queue = r /\ commands'.work = commands.work
  <2>1. commands \in CommandsType /\ commands' = [commands EXCEPT !.queue = Append(@, c)]
    BY DEF Typed, Ask
  <2> QED
    BY <2>1 DEF CommandsType
<1> HIDE DEF r
<1>3. \A t : InQueue(t)' <=> InQueue(t) \/ t = c.turn
  BY <1>1, <1>2 DEF InQueue
<1>4. Requested' = Requested \cup ({c.turn} \ {0})
  <2>1. \A t : t \in Requested' <=>
               t # 0 /\ (InQueue(t)' \/ (commands'.work # Idle /\ commands'.work.turn = t))
    BY DEF Requested, InQueue
  <2>2. \A t : t \in Requested' <=> t \in Requested \/ (t = c.turn /\ t # 0)
    BY <1>2, <1>3, <2>1, RequestedWhere
  <2> QED
    BY <2>2
<1>5. \A i \in 1 .. Len(q) : q[i].turn # 0 => q[i].turn \in Requested
  BY RequestedWhere DEF InQueue
<1>6. commands.work # Idle /\ commands.work.turn # 0 => commands.work.turn \in Requested
  BY RequestedWhere
<1>7. RequestsPlaced'
  <2>1. \A i \in 1 .. Len(r) : r[i].turn # 0 => owner'[r[i].turn] = r[i].thread
    BY <1>1, <1>5 DEF RequestsPlaced
  <2>2. \A i, j \in 1 .. Len(r) : i # j /\ r[i].turn # 0 => r[i].turn # r[j].turn
    <3> SUFFICES ASSUME NEW i \in 1 .. Len(r), NEW j \in 1 .. Len(r), i # j, r[i].turn # 0
                 PROVE  r[i].turn # r[j].turn
      OBVIOUS
    <3>1. CASE i \in 1 .. Len(q) /\ j \in 1 .. Len(q)
      BY <1>1, <3>1 DEF RequestsPlaced
    <3>2. CASE i = Len(q) + 1 /\ j \in 1 .. Len(q)
      BY <1>1, <1>5, <3>2
    <3>3. CASE i \in 1 .. Len(q) /\ j = Len(q) + 1
      BY <1>1, <1>5, <3>3
    <3> QED
      BY <1>1, <3>1, <3>2, <3>3
  <2>3. commands.work # Idle /\ commands.work.turn # 0 =>
           /\ owner'[commands.work.turn] = commands.work.thread
           /\ \A i \in 1 .. Len(r) : r[i].turn # commands.work.turn
    BY <1>1, <1>6 DEF RequestsPlaced
  <2> QED
    BY <1>2, <2>1, <2>2, <2>3 DEF RequestsPlaced
<1> QED
  BY <1>4, <1>7

\* The worker takes the next command: its turn, if any, is at hand.
LEMMA TakePlaces ==
  ASSUME Typed, RequestsPlaced, NEW type, Takes(type), NEW w, Take(w), UNCHANGED owner,
         w # Idle => (w.turn = 0 \/ (w.turn = Asked.turn /\ w.thread = Asked.thread))
  PROVE  RequestsPlaced' /\ Requested' \subseteq Requested
<1> DEFINE q == commands.queue
           r == Tail(commands.queue)
<1>1. q \in Seq(GoodCommand) /\ q # <<>> /\ commands.work = Idle
  BY DEF Typed, CommandsType, Takes
<1>2. /\ Len(q) \in Nat /\ Len(q) > 0 /\ Asked = q[1] /\ Len(r) = Len(q) - 1
      /\ \A i \in 1 .. Len(r) : r[i] = q[i + 1]
  BY <1>1, HeadThenTail DEF Asked
<1>3. commands'.queue = r /\ commands'.work = w
  BY DEF Take
<1> HIDE DEF r
<1>4. \A i \in 1 .. Len(r) : i + 1 \in 1 .. Len(q) /\ i + 1 # 1
  BY <1>2
<1>5. 1 \in 1 .. Len(q)
  BY <1>2
<1>6. RequestsPlaced'
  <2>1. \A i \in 1 .. Len(r) : r[i].turn # 0 => owner'[r[i].turn] = r[i].thread
    BY <1>2, <1>4 DEF RequestsPlaced
  <2>2. \A i, j \in 1 .. Len(r) : i # j /\ r[i].turn # 0 => r[i].turn # r[j].turn
    <3> SUFFICES ASSUME NEW i \in 1 .. Len(r), NEW j \in 1 .. Len(r), i # j, r[i].turn # 0
                 PROVE  r[i].turn # r[j].turn
      OBVIOUS
    <3>1. i + 1 # j + 1
      OBVIOUS
    <3> QED
      BY <1>2, <1>4, <3>1 DEF RequestsPlaced
  <2>3. w # Idle /\ w.turn # 0 =>
           owner'[w.turn] = w.thread /\ \A i \in 1 .. Len(r) : r[i].turn # w.turn
    BY <1>2, <1>4, <1>5 DEF RequestsPlaced
  <2> QED
    BY <1>3, <2>1, <2>2, <2>3 DEF RequestsPlaced
<1>7. \A t : InQueue(t)' => InQueue(t)
  BY <1>2, <1>3, <1>4 DEF InQueue
<1>8. w # Idle /\ w.turn # 0 => InQueue(w.turn)
  BY <1>2, <1>5 DEF InQueue
<1>9. \A t : t \in Requested' <=>
             t # 0 /\ (InQueue(t)' \/ (commands'.work # Idle /\ commands'.work.turn = t))
  BY DEF Requested, InQueue
<1> QED
  BY <1>3, <1>6, <1>7, <1>8, <1>9, RequestedWhere

\* The worker goes on with the turn at hand, or is done with it.
LEMMA ThenPlaces ==
  ASSUME Typed, RequestsPlaced, commands.work # Idle, NEW w, Then(w), UNCHANGED owner,
         w # Idle => (w.turn = commands.work.turn /\ w.thread = commands.work.thread)
  PROVE  /\ RequestsPlaced' /\ Requested' \subseteq Requested
         /\ w = Idle => commands.work.turn \notin Requested'
<1>1. commands'.queue = commands.queue /\ commands'.work = w
  <2>1. commands \in CommandsType /\ commands' = [commands EXCEPT !.work = w]
    BY DEF Typed, Then
  <2> QED
    BY <2>1 DEF CommandsType
<1>2. RequestsPlaced'
  BY <1>1 DEF RequestsPlaced
<1>3. \A t : InQueue(t)' <=> InQueue(t)
  BY <1>1 DEF InQueue
<1>4. \A t : t \in Requested' <=>
             t # 0 /\ (InQueue(t)' \/ (commands'.work # Idle /\ commands'.work.turn = t))
  BY DEF Requested, InQueue
<1>5. Requested' \subseteq Requested
  BY <1>1, <1>3, <1>4, RequestedWhere
<1>6. ASSUME w = Idle PROVE commands.work.turn \notin Requested'
  <2>1. commands.work.turn # 0 => ~InQueue(commands.work.turn)
    BY DEF RequestsPlaced, InQueue
  <2> QED
    BY <1>1, <1>3, <1>4, <1>6, <2>1
<1> QED
  BY <1>2, <1>5, <1>6

\* The turns a session was given and has not ended.
TurnsOf(p) == ({p.turn} \cup {p.queue[i] : i \in 1 .. Len(p.queue)}) \ {0}

WaitsIn(p, t) == \E i \in 1 .. Len(p.queue) : p.queue[i] = t

LEMMA NoSessionPlaced ==
  ASSUME NEW k, NEW p, p = NoSession \/ p = [NoSession EXCEPT !.alive = TRUE]
  PROVE  SessionPlaced(p, k) /\ TurnsOf(p) = {} /\ (\A t : ~WaitsIn(p, t)) /\ p.turn = 0
<1>1. p.turn = 0 /\ p.queue = <<>>
  BY DEF NoSession
<1>2. Len(p.queue) = 0 /\ 1 .. Len(p.queue) = {}
  BY <1>1
<1> QED
  BY <1>1, <1>2 DEF SessionPlaced, TurnsOf, WaitsIn

LEMMA NextTurnPlaced ==
  ASSUME NEW k, NEW p \in GoodSession, p.turn # 0, SessionPlaced(p, k)
  PROVE  /\ SessionPlaced(NextTurn(p), k)
         /\ TurnsOf(NextTurn(p)) = TurnsOf(p) \ {p.turn}
         /\ \A t : WaitsIn(NextTurn(p), t) => WaitsIn(p, t)
<1>0. /\ p \in [alive : BOOLEAN, turn : 0 .. MaxTurns, queue : Seq(Turns)]
      /\ p.queue \in Seq(Turns) /\ Len(p.queue) \in Nat
  BY DEF GoodSession
<1>1. CASE p.queue = <<>>
  <2>1. NextTurn(p).turn = 0 /\ NextTurn(p).queue = <<>>
    BY <1>0, <1>1 DEF NextTurn
  <2>2. Len(p.queue) = 0 /\ Len(NextTurn(p).queue) = 0 /\ 1 .. 0 = {}
    BY <1>1, <2>1
  <2> QED
    BY <2>1, <2>2 DEF SessionPlaced, TurnsOf, WaitsIn
<1>2. CASE p.queue # <<>>
  <2> DEFINE n == NextTurn(p)
  <2>1. n.turn = Head(p.queue) /\ n.queue = Tail(p.queue)
    BY <1>0, <1>2 DEF NextTurn
  <2>2. /\ Len(p.queue) > 0 /\ Head(p.queue) = p.queue[1] /\ Len(Tail(p.queue)) = Len(p.queue) - 1
        /\ \A i \in 1 .. Len(Tail(p.queue)) : Tail(p.queue)[i] = p.queue[i + 1]
    BY <1>0, <1>2, HeadThenTail
  <2>3. /\ n.turn = p.queue[1] /\ Len(n.queue) = Len(p.queue) - 1 /\ 1 \in 1 .. Len(p.queue)
        /\ \A i \in 1 .. Len(n.queue) : n.queue[i] = p.queue[i + 1]
    BY <1>0, <2>1, <2>2
  <2> HIDE DEF n
  <2>4. \A i \in 1 .. Len(n.queue) : i + 1 \in 1 .. Len(p.queue) /\ i + 1 # 1
    BY <1>0, <2>3
  <2>5. \A i \in 1 .. Len(p.queue) : i # 1 => i - 1 \in 1 .. Len(n.queue) /\ (i - 1) + 1 = i
    BY <1>0, <2>3
  <2>6. SessionPlaced(n, k)
    <3>1. n.turn # 0 => owner[n.turn] = k
      BY <2>3 DEF SessionPlaced
    <3>2. \A i \in 1 .. Len(n.queue) : owner[n.queue[i]] = k /\ n.queue[i] # n.turn
      BY <2>3, <2>4 DEF SessionPlaced
    <3>3. \A i, j \in 1 .. Len(n.queue) : i # j => n.queue[i] # n.queue[j]
      <4> SUFFICES ASSUME NEW i \in 1 .. Len(n.queue), NEW j \in 1 .. Len(n.queue), i # j
                   PROVE  n.queue[i] # n.queue[j]
        OBVIOUS
      <4>1. i + 1 # j + 1
        OBVIOUS
      <4> QED
        BY <2>3, <2>4, <4>1 DEF SessionPlaced
    <3> QED
      BY <3>1, <3>2, <3>3 DEF SessionPlaced
  <2>7. \A t : WaitsIn(n, t) => WaitsIn(p, t)
    BY <2>3, <2>4 DEF WaitsIn
  <2>8. \A t : WaitsIn(p, t) => WaitsIn(n, t) \/ t = n.turn
    <3> SUFFICES ASSUME NEW i \in 1 .. Len(p.queue)
                 PROVE  WaitsIn(n, p.queue[i]) \/ p.queue[i] = n.turn
      BY DEF WaitsIn
    <3>1. CASE i = 1
      BY <2>3, <3>1
    <3>2. CASE i # 1
      BY <2>3, <2>5, <3>2 DEF WaitsIn
    <3> QED
      BY <3>1, <3>2
  <2>9. ~WaitsIn(p, p.turn) /\ WaitsIn(p, n.turn)
    BY <2>3 DEF WaitsIn, SessionPlaced
  <2>10. /\ \A t : t \in TurnsOf(p) <=> t # 0 /\ (t = p.turn \/ WaitsIn(p, t))
         /\ \A t : t \in TurnsOf(n) <=> t # 0 /\ (t = n.turn \/ WaitsIn(n, t))
    BY DEF TurnsOf, WaitsIn
  <2>11. \A t : t \in TurnsOf(n) <=> t \in TurnsOf(p) /\ t # p.turn
    BY <2>7, <2>8, <2>9, <2>10
  <2> QED
    BY <2>6, <2>7, <2>11 DEF n
<1> QED
  BY <1>1, <1>2

LEMMA WithTurnPlaced ==
  ASSUME NEW k, NEW p \in GoodSession, NEW t \in Turns, SessionPlaced(p, k),
         t \notin TurnsOf(p), owner[t] = k
  PROVE  /\ SessionPlaced(WithTurn(p, t), k)
         /\ TurnsOf(WithTurn(p, t)) = TurnsOf(p) \cup {t}
         /\ \A x : WaitsIn(WithTurn(p, t), x) => WaitsIn(p, x) \/ x = t
<1>0. /\ p \in [alive : BOOLEAN, turn : 0 .. MaxTurns, queue : Seq(Turns)]
      /\ p.queue \in Seq(Turns) /\ Len(p.queue) \in Nat /\ t # 0
  BY DEF GoodSession, Turns
<1>1. CASE p.turn = 0
  <2>1. WithTurn(p, t).turn = t /\ WithTurn(p, t).queue = p.queue
    BY <1>0, <1>1 DEF WithTurn
  <2>2. \A i \in 1 .. Len(p.queue) : p.queue[i] # t
    BY <1>0 DEF TurnsOf
  <2>3. SessionPlaced(WithTurn(p, t), k)
    BY <2>1, <2>2 DEF SessionPlaced
  <2>4. TurnsOf(WithTurn(p, t)) = TurnsOf(p) \cup {t}
    BY <1>0, <1>1, <2>1 DEF TurnsOf
  <2> QED
    BY <2>1, <2>3, <2>4 DEF WaitsIn
<1>2. CASE p.turn # 0
  <2> DEFINE w == WithTurn(p, t)
  <2>1. w.turn = p.turn /\ w.queue = Append(p.queue, t)
    BY <1>0, <1>2 DEF WithTurn
  <2>2. /\ Len(w.queue) = Len(p.queue) + 1 /\ w.queue[Len(p.queue) + 1] = t
        /\ Len(p.queue) + 1 \in 1 .. Len(w.queue)
        /\ \A i \in 1 .. Len(p.queue) : i \in 1 .. Len(w.queue) /\ w.queue[i] = p.queue[i]
        /\ \A i \in 1 .. Len(w.queue) : i \in 1 .. Len(p.queue) \/ i = Len(p.queue) + 1
    BY <1>0, <2>1
  <2> HIDE DEF w
  <2>3. /\ t # p.turn /\ \A i \in 1 .. Len(p.queue) : p.queue[i] # t
    BY <1>0, <1>2 DEF TurnsOf
  <2>4. SessionPlaced(w, k)
    <3>1. \A i \in 1 .. Len(w.queue) : owner[w.queue[i]] = k /\ w.queue[i] # w.turn
      BY <2>1, <2>2, <2>3 DEF SessionPlaced
    <3>2. \A i, j \in 1 .. Len(w.queue) : i # j => w.queue[i] # w.queue[j]
      BY <2>2, <2>3 DEF SessionPlaced
    <3>3. w.turn # 0 => owner[w.turn] = k
      BY <2>1 DEF SessionPlaced
    <3> QED
      BY <3>1, <3>2, <3>3 DEF SessionPlaced
  <2>5. \A x : WaitsIn(w, x) <=> WaitsIn(p, x) \/ x = t
    BY <2>2 DEF WaitsIn
  <2>6. /\ \A x : x \in TurnsOf(p) <=> x # 0 /\ (x = p.turn \/ WaitsIn(p, x))
        /\ \A x : x \in TurnsOf(w) <=> x # 0 /\ (x = w.turn \/ WaitsIn(w, x))
    BY DEF TurnsOf, WaitsIn
  <2>7. \A x : x \in TurnsOf(w) <=> x \in TurnsOf(p) \/ x = t
    BY <1>0, <2>1, <2>5, <2>6
  <2> QED
    BY <2>4, <2>5, <2>7 DEF w
<1> QED
  BY <1>1, <1>2

\* In the terms of a session: what is given and what is queued.
LEMMA SessionsSay ==
  /\ \A k \in Threads : Unfinished(k) = TurnsOf(provider[k])
  /\ \A t : Given(t) <=> \E k \in Threads : t \in TurnsOf(provider[k])
  /\ \A t : Queued(t) <=> \E k \in Threads : WaitsIn(provider[k], t)
  /\ \A t : Given(t)' <=> \E k \in Threads : t \in TurnsOf(provider'[k])
  /\ \A t : Queued(t)' <=> \E k \in Threads : WaitsIn(provider'[k], t)
  BY DEF Unfinished, TurnsOf, Given, Queued, WaitsIn

\* The session of k becomes s.
LEMMA ReplacePlaces ==
  ASSUME Typed, NEW k \in Threads, NEW s, provider' = [provider EXCEPT ![k] = s], UNCHANGED owner,
         \A o \in Threads : SessionPlaced(provider[o], o), SessionPlaced(s, k)
  PROVE  /\ \A o \in Threads : SessionPlaced(provider[o], o)'
         /\ \A t : Given(t)' => Given(t) \/ t \in TurnsOf(s)
         /\ \A t : Given(t) => Given(t)' \/ (t \in Unfinished(k) /\ t \notin TurnsOf(s))
         /\ \A t \in TurnsOf(s) : Given(t)'
         /\ \A t : Queued(t)' => Queued(t) \/ WaitsIn(s, t)
         /\ \A t \in Unfinished(k) \ TurnsOf(s) : ~Given(t)'
<1>1. \A o \in Threads : provider'[o] = IF o = k THEN s ELSE provider[o]
  BY DEF Typed, ProviderType
<1>2. \A o \in Threads : SessionPlaced(provider[o], o)'
  BY <1>1 DEF SessionPlaced
<1>3. \A t \in Unfinished(k) \ TurnsOf(s) : ~Given(t)'
  <2> SUFFICES ASSUME NEW t \in Unfinished(k), t \notin TurnsOf(s),
                      NEW o \in Threads, t \in TurnsOf(provider'[o])
               PROVE  FALSE
    BY SessionsSay
  <2>1. owner[t] = k
    BY GivenOwned
  <2>2. o # k /\ t \in Unfinished(o)
    BY <1>1, SessionsSay
  <2>3. owner[t] = o
    BY <2>2, GivenOwned
  <2> QED
    BY <2>1, <2>2, <2>3
<1>4. \A t : Given(t)' => Given(t) \/ t \in TurnsOf(s)
  BY <1>1, SessionsSay
<1>5. \A t : Given(t) => Given(t)' \/ (t \in Unfinished(k) /\ t \notin TurnsOf(s))
  BY <1>1, SessionsSay
<1>6. /\ \A t \in TurnsOf(s) : Given(t)'
      /\ \A t : Queued(t)' => Queued(t) \/ WaitsIn(s, t)
  BY <1>1, SessionsSay
<1> QED
  BY <1>2, <1>3, <1>4, <1>5, <1>6

\* Commands and sessions that only lose turns.
LEMMA FewerPlaced ==
  ASSUME Placed, UNCHANGED owner, RequestsPlaced', Requested' \subseteq Requested,
         \A o \in Threads : SessionPlaced(provider[o], o)', \A t : Given(t)' => Given(t),
         \A t : Queued(t)' => Queued(t)
  PROVE  Placed' /\ Fewer
<1>1. \A t \in Requested' : ~Given(t)'
  BY DEF Placed
<1> QED
  BY <1>1 DEF Placed, Fewer

LEMMA SessionsSame ==
  ASSUME Placed, UNCHANGED <<owner, provider>>
  PROVE  /\ \A o \in Threads : SessionPlaced(provider[o], o)'
         /\ \A t : Given(t)' <=> Given(t)
         /\ \A t : Queued(t)' <=> Queued(t)
  BY DEF Placed, SessionPlaced, Given, Queued, Unfinished

LEMMA RequestsSame ==
  ASSUME Placed, UNCHANGED <<owner, commands>>
  PROVE  RequestsPlaced' /\ Requested' = Requested
  BY DEF Placed, RequestsPlaced, Requested

\* The session of k ends, or is started anew.
LEMMA EndPlaces ==
  ASSUME Typed, Placed, NEW k \in Threads, NEW s,
         s = NoSession \/ s = [NoSession EXCEPT !.alive = TRUE],
         provider' = [provider EXCEPT ![k] = s], UNCHANGED owner
  PROVE  /\ \A o \in Threads : SessionPlaced(provider[o], o)'
         /\ \A t : Given(t)' => Given(t)
         /\ \A t : Queued(t)' => Queued(t)
         /\ \A t \in Unfinished(k) : ~Given(t)'
         /\ \A t : Given(t) => Given(t)' \/ t \in Unfinished(k)
<1>1. SessionPlaced(s, k) /\ TurnsOf(s) = {} /\ \A t : ~WaitsIn(s, t)
  BY NoSessionPlaced
<1>2. \A o \in Threads : SessionPlaced(provider[o], o)
  BY DEF Placed
<1> QED
  BY <1>1, <1>2, ReplacePlaces

\* The turn of k ends.
LEMMA TurnEndsPlaces ==
  ASSUME Typed, Placed, NEW k \in Threads, provider[k].turn # 0, TurnEnds(k), UNCHANGED owner
  PROVE  /\ \A o \in Threads : SessionPlaced(provider[o], o)'
         /\ \A t : Given(t)' => Given(t)
         /\ \A t : Queued(t)' => Queued(t)
         /\ Given(provider[k].turn) /\ \A t : t = provider[k].turn => ~Given(t)'
         /\ \A t : Given(t) => Given(t)' \/ t = provider[k].turn
<1> DEFINE p == provider[k]
<1>1. p \in GoodSession /\ SessionPlaced(p, k) /\ \A o \in Threads : SessionPlaced(provider[o], o)
  BY SessionOf DEF Placed
<1>2. /\ SessionPlaced(NextTurn(p), k) /\ TurnsOf(NextTurn(p)) = TurnsOf(p) \ {p.turn}
      /\ \A t : WaitsIn(NextTurn(p), t) => WaitsIn(p, t)
  BY <1>1, NextTurnPlaced
<1>3. provider' = [provider EXCEPT ![k] = NextTurn(p)]
  BY DEF TurnEnds
<1>4. p.turn \in TurnsOf(p) /\ Unfinished(k) = TurnsOf(p)
  BY SessionsSay DEF TurnsOf
<1>5. Given(p.turn) /\ \A t : (t \in TurnsOf(p) => Given(t)) /\ (WaitsIn(p, t) => Queued(t))
  BY <1>4, SessionsSay
<1> HIDE DEF p
<1>6. /\ \A o \in Threads : SessionPlaced(provider[o], o)'
      /\ \A t : Given(t)' => Given(t) \/ t \in TurnsOf(NextTurn(p))
      /\ \A t : Given(t) => Given(t)' \/ (t \in Unfinished(k) /\ t \notin TurnsOf(NextTurn(p)))
      /\ \A t : Queued(t)' => Queued(t) \/ WaitsIn(NextTurn(p), t)
      /\ \A t \in Unfinished(k) \ TurnsOf(NextTurn(p)) : ~Given(t)'
  BY <1>1, <1>2, <1>3, ReplacePlaces
<1>7. p.turn \in Unfinished(k) \ TurnsOf(NextTurn(p))
  BY <1>2, <1>4
<1>8. \A t : t = p.turn => ~Given(t)'
  BY <1>6, <1>7
<1> QED
  BY <1>2, <1>4, <1>5, <1>6, <1>8 DEF p

---------------------------------------------------------------------------
(* A turn stays at one place.                                              *)

LEMMA RequestTurnPlaced ==
  ASSUME Typed, Placed, RequestTurn
  PROVE  /\ Placed'
         /\ \A t : (Given(t)' <=> Given(t)) /\ (Queued(t)' <=> Queued(t))
         /\ \E t \in Turns, k \in Threads :
               /\ owner[t] = 0 /\ owner' = [owner EXCEPT ![t] = k]
               /\ t \notin Requested /\ ~Given(t) /\ Requested' = Requested \cup {t}
<1>1. PICK t \in Turns, k \in Threads :
        /\ owner[t] = 0 /\ owner' = [owner EXCEPT ![t] = k]
        /\ Ask([type |-> "start", thread |-> k, turn |-> t])
  BY DEF RequestTurn
<1> DEFINE c == [type |-> "start", thread |-> k, turn |-> t]
<1>2. t # 0 /\ t \in 0 .. MaxTurns /\ owner \in [Turns -> Threads \cup {0}]
  BY TurnAssumption DEF Turns, Typed
<1>3. c \in GoodCommand /\ c.turn = t /\ c.thread = k
  BY <1>2 DEF GoodCommand, Command
<1>4. t \notin Requested
  BY <1>1, RequestedOwned DEF Placed
<1>5. ~Given(t)
  BY <1>1, GivenOwned DEF Placed, Given
<1>6. \A x : x # t => owner'[x] = owner[x]
  BY <1>1, <1>2
<1>7. owner'[t] = k
  BY <1>1, <1>2
<1> HIDE DEF c
<1>8. RequestsPlaced' /\ Requested' = Requested \cup {t}
  BY <1>1, <1>2, <1>3, <1>4, <1>6, <1>7, AskPlaces DEF Placed, c
<1>9. UNCHANGED provider
  BY DEF RequestTurn
<1>10. \A x : (Given(x)' <=> Given(x)) /\ (Queued(x)' <=> Queued(x))
  BY <1>9 DEF Given, Queued, Unfinished
<1>11. \A o \in Threads : SessionPlaced(provider[o], o)'
  <2> SUFFICES ASSUME NEW o \in Threads PROVE SessionPlaced(provider[o], o)'
    OBVIOUS
  <2>1. SessionPlaced(provider[o], o) /\ o # 0 /\ provider'[o] = provider[o]
    BY <1>9, TurnAssumption DEF Placed
  <2>2. provider[o].turn # 0 => owner'[provider[o].turn] = o
    BY <1>1, <1>6, <2>1 DEF SessionPlaced
  <2>3. \A i \in 1 .. Len(provider[o].queue) : owner'[provider[o].queue[i]] = o
    BY <1>1, <1>6, <2>1 DEF SessionPlaced
  <2> QED
    BY <2>1, <2>2, <2>3 DEF SessionPlaced
<1>12. \A x \in Requested' : ~Given(x)'
  BY <1>5, <1>8, <1>10 DEF Placed
<1> QED
  BY <1>1, <1>4, <1>5, <1>8, <1>10, <1>11, <1>12 DEF Placed

LEMMA RequestStopPlaced == ASSUME Typed, Placed, RequestStop PROVE Placed' /\ Fewer
<1>1. PICK k \in Threads, type \in {"interrupt", "stop", "restart"} :
        Ask([type |-> type, thread |-> k, turn |-> 0])
  BY DEF RequestStop
<1> DEFINE c == [type |-> type, thread |-> k, turn |-> 0]
<1>2. c \in GoodCommand /\ c.turn = 0
  BY TurnAssumption DEF GoodCommand, Command
<1>3. 0 \notin Requested /\ UNCHANGED <<owner, provider>>
  BY DEF Requested, RequestStop
<1> HIDE DEF c
<1>4. RequestsPlaced' /\ Requested' = Requested \cup ({c.turn} \ {0})
  BY <1>1, <1>2, <1>3, AskPlaces DEF Placed, c
<1> QED
  BY <1>2, <1>3, <1>4, SessionsSame, FewerPlaced

LEMMA TakeStartPlaced == ASSUME Typed, Placed, TakeStart PROVE Placed' /\ Fewer
<1>1. Takes("start") /\ UNCHANGED <<owner, provider>>
  BY DEF TakeStart
<1>2. PICK op : Take(Works(op, Asked.thread, Asked.turn))
  BY DEF TakeStart
<1>3. Works(op, Asked.thread, Asked.turn).turn = Asked.turn
      /\ Works(op, Asked.thread, Asked.turn).thread = Asked.thread
  BY DEF Works
<1>4. RequestsPlaced' /\ Requested' \subseteq Requested
  BY <1>1, <1>2, <1>3, TakePlaces DEF Placed
<1> QED
  BY <1>1, <1>4, SessionsSame, FewerPlaced

LEMMA TakeRestartPlaced == ASSUME Typed, Placed, TakeRestart PROVE Placed' /\ Fewer
<1>1. Takes("restart") /\ UNCHANGED <<owner, provider>>
  BY DEF TakeRestart
<1>2. PICK w : Take(w) /\ (w = Idle \/ w = Works("session", Asked.thread, 0))
  BY DEF TakeRestart
<1>3. w # Idle => w.turn = 0
  BY <1>2 DEF Works
<1>4. RequestsPlaced' /\ Requested' \subseteq Requested
  BY <1>1, <1>2, <1>3, TakePlaces DEF Placed
<1> QED
  BY <1>1, <1>4, SessionsSame, FewerPlaced

\* The worker's steps on the turn at hand, the send apart.
LEMMA StartSessionPlaced ==
  ASSUME Typed, Placed, StartSession
  PROVE  /\ Placed' /\ Fewer
         /\ \A t \in Unfinished(commands.work.thread) : ~Given(t)'
         /\ \A t : Given(t) => Given(t)' \/ t \in Unfinished(commands.work.thread)
<1> DEFINE w == commands.work
<1>1. /\ w.thread \in Threads /\ w # Idle /\ UNCHANGED owner
      /\ w \in [op : {"session", "bind", "send", "stopped"}, thread : Threads, turn : 0 .. MaxTurns]
  BY WorkAtHand DEF StartSession
<1>2. \E s : /\ s = NoSession \/ s = [NoSession EXCEPT !.alive = TRUE]
             /\ provider' = [provider EXCEPT ![w.thread] = s]
  BY DEF StartSession
<1>3. \E v : Then(v) /\ (v # Idle => v.turn = w.turn /\ v.thread = w.thread)
  <2>1. CASE Then([w EXCEPT !.op = "bind"])
    <3>1. [w EXCEPT !.op = "bind"].turn = w.turn /\ [w EXCEPT !.op = "bind"].thread = w.thread
      BY <1>1
    <3> QED
      BY <2>1, <3>1
  <2>2. CASE Then(Idle)
    BY <2>2
  <2> QED
    BY <2>1, <2>2 DEF StartSession
<1>4. RequestsPlaced' /\ Requested' \subseteq Requested
  BY <1>1, <1>3, ThenPlaces DEF Placed
<1>5. /\ \A o \in Threads : SessionPlaced(provider[o], o)'
      /\ \A t : Given(t)' => Given(t)
      /\ \A t : Queued(t)' => Queued(t)
      /\ \A t \in Unfinished(w.thread) : ~Given(t)'
      /\ \A t : Given(t) => Given(t)' \/ t \in Unfinished(w.thread)
  BY <1>1, <1>2, EndPlaces
<1> QED
  BY <1>1, <1>4, <1>5, FewerPlaced

LEMMA BindPlaced == ASSUME Typed, Placed, Bind PROVE Placed' /\ Fewer
<1> DEFINE w == commands.work
<1>1. /\ w # Idle /\ UNCHANGED <<owner, provider>>
      /\ w \in [op : {"session", "bind", "send", "stopped"}, thread : Threads, turn : 0 .. MaxTurns]
  BY WorkAtHand DEF Bind
<1>2. \E v : Then(v) /\ (v # Idle => v.turn = w.turn /\ v.thread = w.thread)
  <2>1. CASE Then([w EXCEPT !.op = "send"])
    <3>1. [w EXCEPT !.op = "send"].turn = w.turn /\ [w EXCEPT !.op = "send"].thread = w.thread
      BY <1>1
    <3> QED
      BY <2>1, <3>1
  <2>2. CASE Then(Idle)
    BY <2>2
  <2> QED
    BY <2>1, <2>2 DEF Bind, Fails
<1>3. RequestsPlaced' /\ Requested' \subseteq Requested
  BY <1>1, <1>2, ThenPlaces DEF Placed
<1> QED
  BY <1>1, <1>3, SessionsSame, FewerPlaced

LEMMA SetStoppedPlaced == ASSUME Typed, Placed, SetStopped PROVE Placed' /\ Fewer
<1>1. commands.work # Idle /\ UNCHANGED <<owner, provider>> /\ Then(Idle)
  BY WorkAtHand DEF SetStopped
<1>2. RequestsPlaced' /\ Requested' \subseteq Requested
  BY <1>1, ThenPlaces DEF Placed
<1> QED
  BY <1>1, <1>2, SessionsSame, FewerPlaced

\* A session gone that is to be recovered, or the one there is.
LEMMA RoutedPlaced ==
  ASSUME Typed, Placed, NEW k \in Threads
  PROVE  /\ SessionPlaced(Routed(k), k) /\ TurnsOf(Routed(k)) = Unfinished(k)
         /\ \A t : WaitsIn(Routed(k), t) => Queued(t)
<1>1. CASE provider[k].alive
  BY <1>1, SessionsSay DEF Routed, Placed
<1>2. CASE ~provider[k].alive
  <2>1. provider[k] = NoSession /\ Routed(k) = [NoSession EXCEPT !.alive = TRUE]
    BY <1>2, SessionOf DEF Routed, GoodSession
  <2> QED
    BY <2>1, NoSessionPlaced, SessionsSay
<1> QED
  BY <1>1, <1>2

\* The turn at hand is given to the session of its thread, or to none.
LEMMA SendPlaced ==
  ASSUME Typed, Placed, Send
  PROVE  /\ Placed' /\ owner' = owner
         /\ Requested' \subseteq Requested /\ commands.work.turn \in Requested
         /\ \A t : Given(t) => Given(t)'
         /\ \A t : Given(t)' => Given(t) \/ t = commands.work.turn
         /\ \A t : Queued(t)' => Queued(t) \/ t = commands.work.turn
         /\ \/ UNCHANGED <<provider, ingestion>>
            \/ Tell(Recovery(commands.work.thread) \o
                    TurnStarted(Routed(commands.work.thread), commands.work.thread, commands.work.turn))
<1> DEFINE w == commands.work
           k == commands.work.thread
<1>1. k \in Threads /\ w # Idle /\ w.turn \in Turns /\ w.turn # 0 /\ UNCHANGED owner
  BY WorkAtHand DEF Send, Turns
<1>2. Then(Idle)
  BY DEF Send, Fails, GivesBack
<1>3. RequestsPlaced' /\ Requested' \subseteq Requested /\ \A t : t = w.turn => t \notin Requested'
  <2>1. RequestsPlaced' /\ Requested' \subseteq Requested
    BY <1>1, <1>2, ThenPlaces DEF Placed
  <2>2. commands'.work = Idle /\ commands'.queue = commands.queue
    <3>1. commands \in CommandsType /\ commands' = [commands EXCEPT !.work = Idle]
      BY <1>2 DEF Typed, Then
    <3> QED
      BY <3>1 DEF CommandsType
  <2>3. \A t : t = w.turn => ~InQueue(t)
    BY <1>1 DEF Placed, RequestsPlaced, InQueue
  <2>4. \A t : t \in Requested' => InQueue(t)
    BY <2>2 DEF Requested, InQueue
  <2> QED
    BY <2>1, <2>3, <2>4
<1>4. w.turn \in Requested /\ owner[w.turn] = k /\ ~Given(w.turn)
  BY <1>1, RequestedWhere DEF Placed, RequestsPlaced
<1>5. CASE UNCHANGED <<provider, ingestion>>
  <2>1. /\ \A o \in Threads : SessionPlaced(provider[o], o)'
        /\ \A t : Given(t)' <=> Given(t)
        /\ \A t : Queued(t)' <=> Queued(t)
    BY <1>1, <1>5, SessionsSame
  <2>2. Placed'
    BY <1>1, <1>3, <2>1, FewerPlaced
  <2> QED
    BY <1>1, <1>3, <1>4, <1>5, <2>1, <2>2
<1>6. CASE /\ provider' = [provider EXCEPT ![k] = WithTurn(Routed(k), w.turn)]
           /\ Tell(Recovery(k) \o TurnStarted(Routed(k), k, w.turn))
  <2>1. Routed(k) \in GoodSession
    BY <1>1, RoutedIsGood
  <2>2. /\ SessionPlaced(Routed(k), k) /\ TurnsOf(Routed(k)) = Unfinished(k)
        /\ \A t : WaitsIn(Routed(k), t) => Queued(t)
    BY <1>1, RoutedPlaced
  <2>3. w.turn \notin Unfinished(k) /\ \A t \in Unfinished(k) : Given(t)
    BY <1>1, <1>4 DEF Given
  <2>4. /\ SessionPlaced(WithTurn(Routed(k), w.turn), k)
        /\ TurnsOf(WithTurn(Routed(k), w.turn)) = Unfinished(k) \cup {w.turn}
        /\ \A x : WaitsIn(WithTurn(Routed(k), w.turn), x) => WaitsIn(Routed(k), x) \/ x = w.turn
    BY <1>1, <1>4, <2>1, <2>2, <2>3, WithTurnPlaced
  <2> HIDE DEF w, k
  <2>5. /\ \A o \in Threads : SessionPlaced(provider[o], o)'
        /\ \A t : Given(t)' => Given(t) \/ t \in TurnsOf(WithTurn(Routed(k), w.turn))
        /\ \A t : Given(t) => Given(t)' \/ (t \in Unfinished(k) /\ t \notin TurnsOf(WithTurn(Routed(k), w.turn)))
        /\ \A t : Queued(t)' => Queued(t) \/ WaitsIn(WithTurn(Routed(k), w.turn), t)
    BY <1>1, <1>6, <2>4, ReplacePlaces DEF Placed
  <2>6. /\ \A t : Given(t) => Given(t)'
        /\ \A t : Given(t)' => Given(t) \/ t = w.turn
        /\ \A t : Queued(t)' => Queued(t) \/ t = w.turn
    BY <2>2, <2>3, <2>4, <2>5
  <2>7. \A t \in Requested' : ~Given(t)'
    BY <1>3, <2>6 DEF Placed
  <2>8. Placed'
    BY <1>3, <2>5, <2>7 DEF Placed
  <2> QED
    BY <1>1, <1>3, <1>4, <1>6, <2>6, <2>8 DEF w, k
<1>7. CASE Routed(k).turn = 0 /\ GivesBack(k, w.turn)
  <2>1. /\ provider' = [provider EXCEPT ![k] = Routed(k)]
        /\ Tell(Recovery(k) \o TurnStarted(Routed(k), k, w.turn))
    BY <1>7 DEF GivesBack, TurnStarted
  <2>2. /\ SessionPlaced(Routed(k), k) /\ TurnsOf(Routed(k)) = Unfinished(k)
        /\ \A t : WaitsIn(Routed(k), t) => Queued(t)
    BY <1>1, RoutedPlaced
  <2>3. \A t \in Unfinished(k) : Given(t)
    BY <1>1 DEF Given
  <2> HIDE DEF w, k
  <2>4. /\ \A o \in Threads : SessionPlaced(provider[o], o)'
        /\ \A t : Given(t)' => Given(t) \/ t \in TurnsOf(Routed(k))
        /\ \A t : Given(t) => Given(t)' \/ (t \in Unfinished(k) /\ t \notin TurnsOf(Routed(k)))
        /\ \A t : Queued(t)' => Queued(t) \/ WaitsIn(Routed(k), t)
    BY <1>1, <2>1, <2>2, ReplacePlaces DEF Placed
  <2>5. /\ \A t : Given(t)' <=> Given(t)
        /\ \A t : Queued(t)' => Queued(t)
    BY <2>2, <2>3, <2>4
  <2>6. Placed'
    BY <1>3, <2>4, <2>5 DEF Placed
  <2> QED
    BY <1>1, <1>3, <1>4, <2>1, <2>5, <2>6 DEF w, k
<1> QED
  BY <1>5, <1>6, <1>7 DEF Send

LEMMA TakeInterruptPlaced ==
  ASSUME Typed, Placed, TakeInterrupt
  PROVE  /\ Placed' /\ Fewer
         /\ \/ UNCHANGED <<provider, ingestion>>
            \/ \E k \in Threads : provider[k].turn # 0 /\ TurnEnds(k)
            \/ \E k \in Threads : Tell(Recovery(k)) /\ \A t : Given(t)' <=> Given(t)
<1> DEFINE k == Asked.thread
<1>1. k \in Threads /\ Takes("interrupt") /\ UNCHANGED owner /\ Take(Idle)
  BY AskedIsGood DEF TakeInterrupt
<1>2. RequestsPlaced' /\ Requested' \subseteq Requested
  BY <1>1, TakePlaces DEF Placed
<1>3. CASE UNCHANGED <<provider, ingestion>>
  <2>1. /\ \A o \in Threads : SessionPlaced(provider[o], o)'
        /\ \A t : Given(t)' => Given(t)
        /\ \A t : Queued(t)' => Queued(t)
    BY <1>1, <1>3, SessionsSame
  <2> QED
    BY <1>1, <1>2, <1>3, <2>1, FewerPlaced
<1>4. CASE provider[k].turn # 0 /\ TurnEnds(k)
  <2> HIDE DEF k
  <2>1. /\ \A o \in Threads : SessionPlaced(provider[o], o)'
        /\ \A t : Given(t)' => Given(t)
        /\ \A t : Queued(t)' => Queued(t)
    BY <1>1, <1>4, TurnEndsPlaces
  <2>2. Placed' /\ Fewer
    BY <1>1, <1>2, <2>1, FewerPlaced
  <2> QED
    BY <1>1, <1>4, <2>2
<1>5. CASE provider' = [provider EXCEPT ![k] = Routed(k)] /\ Tell(Recovery(k))
  <2> HIDE DEF k
  <2>1. /\ SessionPlaced(Routed(k), k) /\ TurnsOf(Routed(k)) = Unfinished(k)
        /\ \A t : WaitsIn(Routed(k), t) => Queued(t)
    BY <1>1, RoutedPlaced
  <2>2. \A t \in Unfinished(k) : Given(t)
    BY <1>1 DEF Given
  <2>3. /\ \A o \in Threads : SessionPlaced(provider[o], o)'
        /\ \A t : Given(t)' => Given(t) \/ t \in TurnsOf(Routed(k))
        /\ \A t : Given(t) => Given(t)' \/ (t \in Unfinished(k) /\ t \notin TurnsOf(Routed(k)))
        /\ \A t : Queued(t)' => Queued(t) \/ WaitsIn(Routed(k), t)
    BY <1>1, <1>5, <2>1, ReplacePlaces DEF Placed
  <2>4. \A t : (Given(t)' <=> Given(t)) /\ (Queued(t)' => Queued(t))
    BY <2>1, <2>2, <2>3
  <2>5. Placed' /\ Fewer
    BY <1>1, <1>2, <2>3, <2>4, FewerPlaced
  <2> QED
    BY <1>1, <1>5, <2>4, <2>5
<1> QED
  BY <1>3, <1>4, <1>5 DEF TakeInterrupt

LEMMA TakeStopPlaced ==
  ASSUME Typed, Placed, TakeStop
  PROVE  /\ Placed' /\ Fewer
         /\ \/ UNCHANGED <<provider, ingestion>>
            \/ \E k \in Threads :
                  /\ StopSession(k)
                  /\ \A t \in Unfinished(k) : ~Given(t)'
                  /\ \A t : Given(t) => Given(t)' \/ t \in Unfinished(k)
<1> DEFINE k == Asked.thread
<1>1. k \in Threads /\ Takes("stop") /\ UNCHANGED owner /\ Asked.turn = 0
  BY AskedIsGood DEF TakeStop
<1>2. RequestsPlaced' /\ Requested' \subseteq Requested
  <2>1. PICK w : Take(w) /\ (w = Idle \/ w = Works("stopped", k, 0))
    BY DEF TakeStop
  <2>2. w # Idle => w.turn = 0
    BY <2>1 DEF Works
  <2> QED
    BY <1>1, <2>1, <2>2, TakePlaces DEF Placed
<1>3. CASE UNCHANGED <<provider, ingestion>>
  <2>1. /\ \A o \in Threads : SessionPlaced(provider[o], o)'
        /\ \A t : Given(t)' => Given(t)
        /\ \A t : Queued(t)' => Queued(t)
    BY <1>1, <1>3, SessionsSame
  <2> QED
    BY <1>1, <1>2, <1>3, <2>1, FewerPlaced
<1>4. CASE StopSession(k)
  <2> HIDE DEF k
  <2>1. /\ \A o \in Threads : SessionPlaced(provider[o], o)'
        /\ \A t : Given(t)' => Given(t)
        /\ \A t : Queued(t)' => Queued(t)
        /\ \A t \in Unfinished(k) : ~Given(t)'
        /\ \A t : Given(t) => Given(t)' \/ t \in Unfinished(k)
    BY <1>1, <1>4, EndPlaces DEF StopSession
  <2>2. Placed' /\ Fewer
    BY <1>1, <1>2, <2>1, FewerPlaced
  <2> QED
    BY <1>1, <1>4, <2>1, <2>2
<1> QED
  BY <1>3, <1>4 DEF TakeStop

LEMMA EndTurnPlaced ==
  ASSUME Typed, Placed, NEW k \in Threads, EndTurn(k)
  PROVE  Placed' /\ Fewer
<1>1. provider[k].turn # 0 /\ TurnEnds(k) /\ UNCHANGED <<owner, commands>>
  BY DEF EndTurn
<1>2. /\ \A o \in Threads : SessionPlaced(provider[o], o)'
      /\ \A t : Given(t)' => Given(t)
      /\ \A t : Queued(t)' => Queued(t)
  BY <1>1, TurnEndsPlaces
<1> QED
  BY <1>1, <1>2, RequestsSame, FewerPlaced

LEMMA ExitPlaced ==
  ASSUME Typed, Placed, NEW k \in Threads, Exit(k)
  PROVE  /\ Placed' /\ Fewer
         /\ \A t \in Unfinished(k) : ~Given(t)'
         /\ \A t : Given(t) => Given(t)' \/ t \in Unfinished(k)
<1>1. provider' = [provider EXCEPT ![k] = NoSession] /\ UNCHANGED <<owner, commands>>
  BY DEF Exit
<1>2. /\ \A o \in Threads : SessionPlaced(provider[o], o)'
      /\ \A t : Given(t)' => Given(t)
      /\ \A t : Queued(t)' => Queued(t)
      /\ \A t \in Unfinished(k) : ~Given(t)'
      /\ \A t : Given(t) => Given(t)' \/ t \in Unfinished(k)
  BY <1>1, EndPlaces
<1> QED
  BY <1>1, <1>2, RequestsSame, FewerPlaced

\* Steps of the ingestion, and what the provider says, move no turn.
LEMMA StaysPlaced ==
  ASSUME Placed, UNCHANGED <<owner, commands, provider>>
  PROVE  Placed' /\ Fewer /\ \A t : Given(t)' <=> Given(t)
<1>1. /\ \A o \in Threads : SessionPlaced(provider[o], o)'
      /\ \A t : Given(t)' <=> Given(t)
      /\ \A t : Queued(t)' <=> Queued(t)
  BY SessionsSame
<1> QED
  BY <1>1, RequestsSame, FewerPlaced

LEMMA CrashPlaced ==
  ASSUME Typed, Placed, Crash
  PROVE  /\ Placed' /\ owner' = owner /\ Requested' = {} /\ \A t : ~Given(t)' /\ ~Queued(t)'
<1>1. /\ \A k \in Threads : provider'[k] = NoSession
      /\ commands'.queue = <<>> /\ commands'.work = Idle /\ owner' = owner
  BY DEF Crash
<1>2. Len(<<>>) = 0 /\ 1 .. 0 = {}
  OBVIOUS
<1>3. RequestsPlaced' /\ Requested' = {}
  BY <1>1, <1>2 DEF RequestsPlaced, Requested
<1>4. \A t : ~Given(t)' /\ ~Queued(t)'
  BY <1>1, NoSessionPlaced, SessionsSay
<1>5. \A o \in Threads : SessionPlaced(provider[o], o)'
  BY <1>1, <1>2 DEF SessionPlaced, NoSession
<1> QED
  BY <1>1, <1>3, <1>4, <1>5 DEF Placed

---------------------------------------------------------------------------
(* The stream as a sequence, and the reply of a turn nothing is said of.   *)

LEMMA StreamIsSeq ==
  ASSUME Typed
  PROVE  /\ Stream \in Seq(GoodEvent) /\ ingestion.runtime \in Seq(GoodEvent)
         /\ Calm => Stream = ingestion.runtime
         /\ ~Calm => /\ ingestion.reading[1] \in GoodEvent
                     /\ Stream # <<>> /\ Stream[1] = ingestion.reading[1]
                     /\ Tail(Stream) = ingestion.runtime
<1> DEFINE r == ingestion.runtime
           e == ingestion.reading[1]
<1>1. r \in Seq(GoodEvent) /\ ingestion.reading \in {<<>>} \cup Reading
  BY DEF Typed, IngestionType
<1>2. CASE Calm
  <2>1. Stream = <<>> \o r
    BY <1>2 DEF Stream
  <2> HIDE DEF r
  <2>2. <<>> \o r = r
    BY <1>1, ConcatEmptySeq
  <2> QED
    BY <1>1, <1>2, <2>1, <2>2 DEF r
<1>3. CASE ~Calm
  <2>1. ingestion.reading \in Reading
    BY <1>1, <1>3 DEF Calm
  <2>2. e \in GoodEvent
    BY <2>1 DEF Reading
  <2>3. Stream = <<e>> \o r
    BY <1>3 DEF Stream
  <2> HIDE DEF r, e
  <2>4. <<e>> \in Seq(GoodEvent)
    BY <2>2, OneIsSeq
  <2>5. <<e>> \o r \in Seq(GoodEvent) /\ <<e>> \o r # <<>> /\ (<<e>> \o r)[1] = e
        /\ Tail(<<e>> \o r) = r
    <3> DEFINE s == <<e>> \o r
    <3>1. /\ s \in Seq(GoodEvent) /\ Len(s) = 1 + Len(r) /\ Len(r) \in Nat /\ s[1] = e
          /\ \A j \in 1 .. Len(r) : s[1 + j] = r[j]
      BY <1>1, <2>4, ConcatIsSeq
    <3> HIDE DEF s
    <3>2. s # <<>>
      BY <3>1
    <3>3. /\ Tail(s) \in Seq(GoodEvent) /\ Len(Tail(s)) = Len(r)
          /\ \A j \in 1 .. Len(r) : Tail(s)[j] = s[j + 1]
      BY <3>1, <3>2
    <3>4. \A j \in 1 .. Len(r) : Tail(s)[j] = r[j]
      BY <3>1, <3>3
    <3>5. Tail(s) = r
      BY <1>1, <3>3, <3>4, SeqEqual
    <3> QED
      BY <3>1, <3>2, <3>5 DEF s
  <2> QED
    BY <1>1, <1>3, <2>2, <2>3, <2>5 DEF r, e
<1> QED
  BY <1>2, <1>3

LEMMA EventsAssociate ==
  ASSUME NEW a \in Seq(GoodEvent), NEW b \in Seq(GoodEvent), NEW c \in Seq(GoodEvent)
  PROVE  (a \o b) \o c = a \o (b \o c)
  BY ConcatAssociative

LEMMA StreamTold ==
  ASSUME Typed, NEW es \in Seq(GoodEvent), Tell(es)
  PROVE  /\ Stream' = Stream \o es
         /\ ingestion'.buffer = ingestion.buffer /\ ingestion'.open = ingestion.open
         /\ ingestion'.mode = ingestion.mode
<1>1. ingestion \in IngestionType /\ ingestion' = [ingestion EXCEPT !.runtime = @ \o es]
  BY DEF Typed, Tell
<1>2. /\ ingestion'.runtime = ingestion.runtime \o es /\ ingestion'.reading = ingestion.reading
      /\ ingestion'.buffer = ingestion.buffer /\ ingestion'.open = ingestion.open
      /\ ingestion'.mode = ingestion.mode
  BY <1>1 DEF IngestionType
<1> DEFINE first == IF Calm THEN <<>> ELSE <<ingestion.reading[1]>>
<1>3. first \in Seq(GoodEvent) /\ ingestion.runtime \in Seq(GoodEvent)
  BY StreamIsSeq, OneIsSeq, EmptyIsSeq
<1>4. Stream = first \o ingestion.runtime /\ Stream' = first \o ingestion'.runtime
  BY <1>2 DEF Stream, Calm
<1> HIDE DEF first
<1>5. first \o (ingestion.runtime \o es) = (first \o ingestion.runtime) \o es
  <2> DEFINE m == ingestion.runtime
  <2>1. m \in Seq(GoodEvent)
    BY <1>3
  <2> HIDE DEF m
  <2>2. (first \o m) \o es = first \o (m \o es)
    BY <1>3, <2>1, EventsAssociate
  <2> QED
    BY <2>2 DEF m
<1> QED
  BY <1>2, <1>4, <1>5

LEMMA StreamSame ==
  ASSUME Typed, UNCHANGED <<ingestion.runtime, ingestion.reading>>
  PROVE  Stream' = Stream \o <<>>
<1>1. Stream' = Stream
  BY DEF Stream, Calm
<1> QED
  BY <1>1, StreamIsSeq, ConcatEmptySeq

\* What the reply of t is about.
Fine(t) ==
    /\ Waits(t) => Untouched(t)
    /\ Flows(t) \/ Over(t)
    /\ Closing(t)

LEMMA ReplyParts ==
  ASSUME Typed, NEW t \in Turns
  PROVE  /\ reply[t].text \in Text /\ reply[t].complete \in BOOLEAN
         /\ output[t].pieces \in Nat /\ output[t].ended \in BOOLEAN
         /\ ingestion.buffer[t] \in Text /\ Len(ingestion.buffer[t]) <= BufferLimit
         /\ Len(reply[t].text) \in Nat /\ Len(ingestion.buffer[t]) \in Nat
         /\ Taken(t) \in Nat
         /\ reply[t] = [text |-> reply[t].text, complete |-> reply[t].complete]
         /\ output[t] = [pieces |-> output[t].pieces, ended |-> output[t].ended]
<1>1. reply[t] \in [text : Text, complete : BOOLEAN]
  BY DEF Typed, ReplyType
<1>2. output[t] \in [pieces : 0 .. MaxPieces, ended : BOOLEAN] /\ MaxPieces \in Nat
  BY TurnAssumption DEF Typed, OutputType
<1>3. ingestion.buffer[t] \in Text /\ Len(ingestion.buffer[t]) <= BufferLimit
  <2>1. ingestion.buffer \in [Turns -> {s \in Text : Len(s) <= BufferLimit}]
    BY DEF Typed, IngestionType
  <2> QED
    BY <2>1
<1>4. Len(reply[t].text) \in Nat /\ Len(ingestion.buffer[t]) \in Nat
  BY <1>1, <1>3 DEF Text
<1>5. Taken(t) \in Nat
  <2>1. \A a, b \in Nat : a + b \in Nat
    OBVIOUS
  <2> QED
    BY <1>4, <2>1, Zenon DEF Taken
<1>6. /\ reply[t] = [text |-> reply[t].text, complete |-> reply[t].complete]
      /\ output[t] = [pieces |-> output[t].pieces, ended |-> output[t].ended]
  BY <1>1, <1>2
<1> QED
  BY <1>1, <1>2, <1>3, <1>4, <1>5, <1>6

LEMMA GoneWaitsNot ==
  ASSUME Typed, NEW t, Gone(t)
  PROVE  ~Waits(t)
<1> SUFFICES ASSUME Queued(t) PROVE FALSE
  BY DEF Gone, Waits
<1>1. PICK k \in Threads : \E i \in 1 .. Len(provider[k].queue) : provider[k].queue[i] = t
  BY DEF Queued
<1>2. provider[k].queue \in Seq(Turns)
  BY SessionOf
<1>3. t \in Turns /\ t # 0
  <2>1. t \in Turns
    BY <1>1, <1>2
  <2> QED
    BY <2>1 DEF Turns
<1> QED
  BY <1>1, <1>3 DEF Gone, Given, Unfinished

\* A reply nothing was told of is on its way.
LEMMA FreshFlows ==
  ASSUME Typed, NEW t \in Turns, Untouched(t)
  PROVE  Flows(t) /\ Closing(t)
<1>1. /\ output[t].pieces = 0 /\ output[t].ended = FALSE
      /\ reply[t].text = <<>> /\ reply[t].complete = FALSE
      /\ ingestion.buffer[t] = <<>> /\ t \notin ingestion.open
      /\ Silent(Stream, t) /\ \A i \in 1 .. Len(Stream) : ~IsEnd(Stream[i], t)
  BY DEF Untouched
<1>2. Len(reply[t].text) = 0 /\ Len(ingestion.buffer[t]) = 0 /\ Taken(t) = 0 /\ 1 .. 0 = {}
  BY <1>1 DEF Taken
<1>3. Script(Stream, t, owner[t], 0, 0, FALSE, t \in ingestion.open, Gone(t))
  <2>1. 0 \in Nat /\ Stream \in Seq(GoodEvent) /\ t \notin ingestion.open
    BY <1>1, StreamIsSeq
  <2> QED
    BY <1>1, <2>1, ScriptOfNone, Zenon
<1>4. Elements(reply[t].text) \cup Elements(ingestion.buffer[t]) = 1 .. Taken(t)
  BY <1>2 DEF Elements
<1>5. Ordered(t)
  BY <1>1, <1>2 DEF Ordered
<1>6. Flows(t)
  BY <1>1, <1>2, <1>3, <1>4, <1>5 DEF Flows
<1> QED
  BY <1>1, <1>6 DEF Closing

FreshIsFine == \A t \in Turns : Typed /\ Untouched(t) => Flows(t) /\ Closing(t)

LEMMA FreshNow == FreshIsFine
  BY FreshFlows DEF FreshIsFine

LEMMA FreshNext == FreshIsFine'
  BY FreshNow, PTL

GoneIsAway == \A t \in Turns : Typed /\ Gone(t) => ~Waits(t)

LEMMA GoneNow == GoneIsAway
  BY GoneWaitsNot DEF GoneIsAway

LEMMA GoneAfter == GoneIsAway'
  BY GoneNow, PTL

\* What is told is not about t, unless it says that t or its session has ended.
LEMMA ToldReply ==
  ASSUME Typed, Typed', NEW t \in Turns, Fine(t),
         reply'[t] = reply[t], output'[t] = output[t], owner'[t] = owner[t],
         ingestion'.buffer[t] = ingestion.buffer[t],
         ingestion'.open = ingestion.open,
         t \in past.switched => t \in past'.switched, t \in past.cut => t \in past'.cut,
         ingestion'.mode = "streaming" =>
            ingestion.mode = "streaming" \/ t \in past'.switched \/ ingestion.buffer[t] = <<>>,
         NEW es \in Seq(GoodEvent), Stream' = Stream \o es, Silent(es, t),
         Gone(t) => Gone(t)', Waits(t)' => Waits(t),
         \A i \in 1 .. Len(es) : IsEnd(es[i], t) => Gone(t)',
         \A i \in 1 .. Len(es) : IsExit(es[i], owner[t]) =>
            Untouched(t) \/ (Gone(t)' /\ (~Given(t) \/ t \in past'.cut)),
         Given(t) => Given(t)' \/ t \in past'.cut \/ \E i \in 1 .. Len(es) : IsEnd(es[i], t)
  PROVE  Fine(t)'
<1> DEFINE s == Stream
           k == owner[t]
           c == Taken(t)
           n == output[t].pieces
           ended == output[t].ended
<1>1. /\ s \in Seq(GoodEvent) /\ c \in Nat /\ n \in Nat
  BY StreamIsSeq, ReplyParts
<1>2. Taken(t)' = c
  BY DEF Taken
<1>3. \A i \in 1 .. Len(s \o es) : (\E j \in 1 .. Len(s) : (s \o es)[i] = s[j])
                                  \/ (\E j \in 1 .. Len(es) : (s \o es)[i] = es[j])
  BY <1>1, Joined
<1>4. ASSUME Silent(s, t) PROVE Silent(Stream, t)'
  BY <1>3, <1>4 DEF Silent
<1>5. ASSUME Waits(t)' PROVE Untouched(t)'
  <2>1. Untouched(t)
    BY <1>5 DEF Fine
  <2>2. ~Gone(t)'
    <3>1. Gone(t)' => ~Waits(t)'
      BY GoneAfter DEF GoneIsAway
    <3> QED
      BY <1>5, <3>1
  <2>3. \A i \in 1 .. Len(Stream') : ~IsEnd(Stream'[i], t)
    BY <1>3, <2>1, <2>2 DEF Untouched
  <2> QED
    BY <1>4, <2>1, <2>3 DEF Untouched
<1>6. ASSUME Over(t) PROVE Over(t)'
  <2>1. /\ Gone(t) /\ t \notin ingestion.open /\ Silent(s, t)
        /\ t \notin past.switched => \A i \in 1 .. Len(reply[t].text) : reply[t].text[i] = i
        /\ reply[t].complete => Elements(reply[t].text) = 1 .. output[t].pieces
    BY <1>6 DEF Over
  <2>2. Gone(t)' /\ t \notin ingestion'.open /\ Silent(Stream, t)'
    BY <1>4, <2>1
  <2>3. t \notin past'.switched => \A i \in 1 .. Len(reply'[t].text) : reply'[t].text[i] = i
    BY <2>1
  <2>4. reply'[t].complete => (Elements(reply[t].text) = 1 .. output[t].pieces)'
    BY <2>1 DEF Elements
  <2> QED
    BY <2>2, <2>3, <2>4 DEF Over
<1>7. ASSUME Flows(t) PROVE Flows(t)'
  <2>1. Script(s, t, k, c, n, ended, t \in ingestion.open, Gone(t))
    BY <1>7 DEF Flows
  <2>2. \A i \in 1 .. Len(es) : IsExit(es[i], k) =>
           Gone(t)' \/ (~(t \in ingestion.open) /\ Silent(s, t))
    BY DEF Untouched
  <2> HIDE DEF s, k, c, n, ended
  <2>3. Script(s \o es, t, k, c, n, ended, t \in ingestion.open, Gone(t)')
    BY <1>1, <2>1, <2>2, ScriptExtends, Zenon DEF k
  <2>4. Script(Stream, t, owner[t], Taken(t), output[t].pieces, output[t].ended,
               t \in ingestion.open, Gone(t))'
    BY <1>2, <2>3, Zenon DEF s, k, c, n, ended
  <2>5. /\ Elements(reply[t].text) \cup Elements(ingestion.buffer[t]) = 1 .. Taken(t)
        /\ t \notin past.switched => Ordered(t)
        /\ reply[t].complete =>
              /\ ingestion.buffer[t] = <<>> /\ Taken(t) = output[t].pieces
              /\ output[t].ended \/ Gone(t)
    BY <1>7 DEF Flows
  <2>6. (Elements(reply[t].text) \cup Elements(ingestion.buffer[t]) = 1 .. Taken(t))'
    BY <1>2, <2>5 DEF Elements, c
  <2>7. t \notin past'.switched => Ordered(t)'
    BY <2>5 DEF Ordered
  <2>8. reply'[t].complete =>
              /\ ingestion'.buffer[t] = <<>> /\ Taken(t)' = output'[t].pieces
              /\ output'[t].ended \/ Gone(t)'
    BY <1>2, <2>5 DEF c
  <2> QED
    BY <2>4, <2>6, <2>7, <2>8 DEF Flows
<1>8. Closing(t)'
  <2> SUFFICES ASSUME output'[t].pieces > 0, t \notin past'.cut, ~reply'[t].complete
               PROVE  Due(Stream, t, owner[t], t \in ingestion.open, Given(t))'
    BY DEF Closing
  <2>1. Due(s, t, k, t \in ingestion.open, Given(t))
    BY DEF Fine, Closing
  <2>2. ~Untouched(t)
    BY DEF Untouched
  <2>3. (\E i \in 1 .. Len(es) : IsExit(es[i], k)) => ~Given(t)
    BY <2>2
  <2>4. Given(t) => Given(t)' \/ \E i \in 1 .. Len(es) : IsEnd(es[i], t)
    OBVIOUS
  <2> DEFINE opened == t \in ingestion.open
             given == Given(t)
             later == Given(t)'
  <2> HIDE DEF s, k, c, n, ended, opened, given, later
  <2>5. Due(s, t, k, opened, given)
    BY <2>1 DEF opened, given
  <2>6. given => later \/ \E i \in 1 .. Len(es) : IsEnd(es[i], t)
    BY <2>4 DEF given, later
  <2>7. (\E i \in 1 .. Len(es) : IsExit(es[i], k)) => ~given
    BY <2>3 DEF given
  <2>8. Due(s \o es, t, k, opened, later)
    BY <1>1, <2>5, <2>6, <2>7, DueExtends
  <2>9. Due(Stream', t, owner'[t], t \in ingestion'.open, Given(t)')
    BY <2>8 DEF s, k, opened, later
  <2> QED
    BY <2>9
<1> QED
  BY <1>5, <1>6, <1>7, <1>8 DEF Fine

\* Where turns are stays as it is.
Stays(t) ==
    /\ owner'[t] = owner[t] /\ output'[t] = output[t]
    /\ Gone(t)' = Gone(t) /\ Waits(t)' = Waits(t) /\ Given(t)' = Given(t)
    /\ past'.cut = past.cut

LEMMA ScriptAtEnd ==
  ASSUME NEW s \in Seq(GoodEvent), s # <<>>, NEW t, NEW k, NEW c \in Nat, NEW n \in Nat,
         NEW ended, NEW opened, NEW gone, Script(s, t, k, c, n, ended, opened, gone)
  PROVE  /\ IsEnd(s[1], t) => gone /\ Silent(Tail(s), t)
         /\ IsExit(s[1], k) /\ opened => gone /\ Silent(Tail(s), t)
<1>1. Len(s) \in Nat /\ Len(s) > 0 /\ 1 \in 1 .. Len(s)
  BY Shifted
<1>2. SilentFrom(s, 1, t) => Silent(Tail(s), t)
  BY SilentShifted
<1> QED
  BY <1>1, <1>2 DEF Script, EndsLast, ExitsLast, Heard

\* The first event of the stream is worked off, and is not about the message of t.
LEMMA PassedReply ==
  ASSUME Typed, Typed', NEW t \in Turns, Fine(t), Stays(t),
         Stream # <<>>, Stream' = Tail(Stream), ~Speaks(Stream[1], t),
         IsEnd(Stream[1], t) => t \notin ingestion.open,
         reply'[t] = reply[t], ingestion'.buffer[t] = ingestion.buffer[t],
         t \in ingestion'.open <=> t \in ingestion.open,
         ingestion'.mode = ingestion.mode, past'.switched = past.switched
  PROVE  Fine(t)'
<1> DEFINE s == Stream
           k == owner[t]
           c == Taken(t)
           n == output[t].pieces
           ended == output[t].ended
           opened == t \in ingestion.open
           gone == Gone(t)
           given == Given(t)
<1>1. s \in Seq(GoodEvent) /\ s # <<>> /\ c \in Nat /\ n \in Nat
  BY StreamIsSeq, ReplyParts
<1>2. Taken(t)' = c
  BY DEF Taken
<1>3. /\ Silent(s, t) => Silent(Tail(s), t)
      /\ \A i \in 1 .. Len(Tail(s)) : i + 1 \in 1 .. Len(s) /\ Tail(s)[i] = s[i + 1]
  BY <1>1, SilentShifted, Shifted
<1>4. (t \in ingestion'.open) = opened /\ Gone(t)' = gone /\ Given(t)' = given
      /\ Stream' = Tail(s) /\ owner'[t] = k /\ output'[t] = output[t]
  BY DEF Stays
<1>5. ASSUME Waits(t)' PROVE Untouched(t)'
  <2>1. Untouched(t)
    BY <1>5 DEF Fine, Stays
  <2>2. Silent(Tail(s), t) /\ \A i \in 1 .. Len(Tail(s)) : ~IsEnd(Tail(s)[i], t)
    BY <1>3, <2>1 DEF Untouched
  <2> QED
    BY <2>1, <2>2 DEF Untouched, Stays
<1>6. ASSUME Over(t) PROVE Over(t)'
  <2>1. /\ Gone(t) /\ t \notin ingestion.open /\ Silent(s, t)
        /\ t \notin past.switched => \A i \in 1 .. Len(reply[t].text) : reply[t].text[i] = i
        /\ reply[t].complete => Elements(reply[t].text) = 1 .. output[t].pieces
    BY <1>6 DEF Over
  <2>2. Gone(t)' /\ t \notin ingestion'.open /\ Silent(Stream, t)'
    BY <1>3, <1>4, <2>1
  <2>3. reply'[t].complete => (Elements(reply[t].text) = 1 .. output[t].pieces)'
    BY <2>1 DEF Elements, Stays
  <2> QED
    BY <2>1, <2>2, <2>3 DEF Over
<1>7. ASSUME Flows(t) PROVE Flows(t)'
  <2>1. Script(s, t, k, c, n, ended, opened, gone)
    BY <1>7 DEF Flows
  <2>2. ~Speaks(s[1], t)
    OBVIOUS
  <2>3. Script(Tail(s), t, k, c, n, ended, opened, gone)
    <3> HIDE DEF s, k, c, n, ended, opened, gone
    <3> QED
      BY <1>1, <2>1, <2>2, ScriptPasses
  <2>4. Script(Stream', t, owner'[t], Taken(t)', output'[t].pieces, output'[t].ended,
               t \in ingestion'.open, Gone(t)')
    <3> HIDE DEF s, k, c, opened, gone
    <3> QED
      BY <1>2, <1>4, <2>3
  <2>5. /\ Elements(reply[t].text) \cup Elements(ingestion.buffer[t]) = 1 .. Taken(t)
        /\ t \notin past.switched => Ordered(t)
        /\ reply[t].complete =>
              /\ ingestion.buffer[t] = <<>> /\ Taken(t) = output[t].pieces
              /\ output[t].ended \/ Gone(t)
    BY <1>7 DEF Flows
  <2>6. (Elements(reply[t].text) \cup Elements(ingestion.buffer[t]) = 1 .. Taken(t))'
    BY <1>2, <2>5 DEF Elements
  <2>7. t \notin past'.switched => Ordered(t)'
    BY <2>5 DEF Ordered
  <2>8. reply'[t].complete =>
              /\ ingestion'.buffer[t] = <<>> /\ Taken(t)' = output'[t].pieces
              /\ output'[t].ended \/ Gone(t)'
    BY <1>2, <1>4, <2>5
  <2> QED
    BY <2>4, <2>6, <2>7, <2>8 DEF Flows
<1>8. Closing(t)'
  <2> SUFFICES ASSUME output'[t].pieces > 0, t \notin past'.cut, ~reply'[t].complete
               PROVE  Due(Stream', t, owner'[t], t \in ingestion'.open, Given(t)')
    BY DEF Closing
  <2>1. Due(s, t, k, opened, given)
    BY DEF Fine, Closing, Stays
  <2>2. ~IsEnd(s[1], t)
    <3> SUFFICES ASSUME IsEnd(s[1], t), ~Speaks(s[1], t), ~opened PROVE FALSE
      OBVIOUS
    <3>1. ~Silent(s, t)
      BY <2>1 DEF Due
    <3>2. CASE Flows(t)
      <4>1. Script(s, t, k, c, n, ended, opened, gone)
        BY <3>2 DEF Flows
      <4> HIDE DEF s, k, c, n, ended, opened, gone
      <4>2. Silent(Tail(s), t)
        BY <1>1, <4>1, ScriptAtEnd
      <4>3. \A i \in 1 .. Len(s) : i # 1 => i - 1 \in 1 .. Len(Tail(s)) /\ Tail(s)[i - 1] = s[i]
        BY <1>1, Shifted
      <4>4. Silent(s, t)
        BY <4>2, <4>3 DEF Silent
      <4> QED
        BY <3>1, <4>4
    <3>3. CASE Over(t)
      BY <3>1, <3>3 DEF Over
    <3> QED
      BY <3>2, <3>3 DEF Fine
  <2>3. opened <=> (opened \/ Speaks(s[1], t))
    OBVIOUS
  <2>4. Due(Tail(s), t, k, opened, given)
    <3> HIDE DEF s, k, opened, given
    <3> QED
      BY <1>1, <2>1, <2>2, <2>3, DuePasses
  <2> HIDE DEF s, k, opened, given
  <2> QED
    BY <1>4, <2>4
<1> QED
  BY <1>5, <1>6, <1>7, <1>8 DEF Fine

\* The session of t's thread has exited, and t had a message open.
LEMMA ClearedReply ==
  ASSUME Typed, Typed', NEW t \in Turns, Fine(t), Stays(t),
         Stream # <<>>, Stream' = Tail(Stream), IsExit(Stream[1], owner[t]),
         t \in ingestion.open, t \notin ingestion'.open,
         reply'[t] = reply[t], past'.switched = past.switched
  PROVE  Fine(t)'
<1> DEFINE s == Stream
           k == owner[t]
           c == Taken(t)
           n == output[t].pieces
           ended == output[t].ended
           opened == t \in ingestion.open
           gone == Gone(t)
<1>1. s \in Seq(GoodEvent) /\ s # <<>> /\ c \in Nat /\ n \in Nat
  BY StreamIsSeq, ReplyParts
<1>2. Flows(t)
  BY DEF Fine, Over
<1>3. Script(s, t, k, c, n, ended, opened, gone)
  BY <1>2 DEF Flows
<1>4. gone /\ Silent(Tail(s), t)
  <2>1. IsExit(s[1], k) /\ opened
    OBVIOUS
  <2> HIDE DEF s, k, c, n, ended, opened, gone
  <2> QED
    BY <1>1, <1>3, <2>1, ScriptAtEnd
<1>5. /\ Elements(reply[t].text) \cup Elements(ingestion.buffer[t]) = 1 .. Taken(t)
      /\ t \notin past.switched => Ordered(t)
      /\ reply[t].complete => ingestion.buffer[t] = <<>> /\ Taken(t) = output[t].pieces
  BY <1>2 DEF Flows
<1>6. Over(t)'
  <2>1. Gone(t)' /\ t \notin ingestion'.open /\ Silent(Stream, t)'
    BY <1>4 DEF Stays
  <2>2. t \notin past'.switched => \A i \in 1 .. Len(reply'[t].text) : reply'[t].text[i] = i
    BY <1>5 DEF Ordered
  <2>3. ASSUME reply[t].complete PROVE Elements(reply[t].text) = 1 .. output[t].pieces
    <3>1. Len(ingestion.buffer[t]) = 0 /\ 1 .. 0 = {}
      BY <1>5, <2>3
    <3>2. Elements(ingestion.buffer[t]) = {}
      BY <3>1 DEF Elements
    <3> QED
      BY <1>5, <2>3, <3>2
  <2>4. reply'[t].complete => (Elements(reply[t].text) = 1 .. output[t].pieces)'
    BY <2>3 DEF Elements, Stays
  <2> QED
    BY <2>1, <2>2, <2>4 DEF Over
<1>7. ~Waits(t)'
  BY <1>4, GoneWaitsNot DEF Stays
<1>8. Closing(t)'
  <2> SUFFICES ASSUME output[t].pieces > 0, t \notin past.cut, ~reply[t].complete PROVE FALSE
    BY DEF Closing, Stays
  <2>1. Due(s, t, k, opened, Given(t))
    BY DEF Fine, Closing
  <2>2. Len(s) \in Nat /\ Len(s) > 0 /\ 1 \in 1 .. Len(s)
    BY <1>1, Shifted
  <2>3. Heard(s, 1, t, opened)
    BY DEF Heard
  <2>4. \E j \in 1 .. Len(s) : j < 1 /\ IsEnd(s[j], t)
    BY <2>1, <2>2, <2>3 DEF Due
  <2>5. \A j \in 1 .. Len(s) : ~(j < 1)
    BY <2>2
  <2> QED
    BY <2>4, <2>5
<1> QED
  BY <1>6, <1>7, <1>8 DEF Fine

---------------------------------------------------------------------------
(* Texts, and the reply that something is said of.                         *)

InSequence(text, from) == \A i \in 1 .. Len(text) : text[i] = from + i

LEMMA TextsJoin ==
  ASSUME NEW a \in Text, NEW b \in Text
  PROVE  /\ a \o b \in Text /\ Len(a \o b) = Len(a) + Len(b) /\ Len(a) \in Nat /\ Len(b) \in Nat
         /\ Elements(a \o b) = Elements(a) \cup Elements(b)
         /\ InSequence(a, 0) /\ InSequence(b, Len(a)) => InSequence(a \o b, 0)
<1> DEFINE r == a \o b
<1>1. /\ r \in Text /\ Len(r) = Len(a) + Len(b) /\ Len(a) \in Nat /\ Len(b) \in Nat
      /\ \A i \in 1 .. Len(a) : r[i] = a[i]
      /\ \A j \in 1 .. Len(b) : r[Len(a) + j] = b[j]
  BY ConcatIsSeq DEF Text
<1> HIDE DEF r
<1>2. /\ \A i \in 1 .. Len(a) : i \in 1 .. Len(r)
      /\ \A j \in 1 .. Len(b) : Len(a) + j \in 1 .. Len(r)
      /\ \A i \in 1 .. Len(r) : i \in 1 .. Len(a) \/ (i - Len(a) \in 1 .. Len(b) /\ i = Len(a) + (i - Len(a)))
  BY <1>1
<1>3. Elements(r) = Elements(a) \cup Elements(b)
  <2>1. Elements(a) \subseteq Elements(r) /\ Elements(b) \subseteq Elements(r)
    BY <1>1, <1>2 DEF Elements
  <2>2. ASSUME NEW i \in 1 .. Len(r) PROVE r[i] \in Elements(a) \cup Elements(b)
    <3>1. CASE i \in 1 .. Len(a)
      BY <1>1, <3>1 DEF Elements
    <3>2. CASE i - Len(a) \in 1 .. Len(b) /\ i = Len(a) + (i - Len(a))
      <4>1. r[i] = b[i - Len(a)]
        BY <1>1, <3>2
      <4> QED
        BY <3>2, <4>1 DEF Elements
    <3> QED
      BY <1>2, <3>1, <3>2
  <2> QED
    BY <2>1, <2>2 DEF Elements
<1>4. ASSUME InSequence(a, 0), InSequence(b, Len(a)) PROVE InSequence(r, 0)
  <2> SUFFICES ASSUME NEW i \in 1 .. Len(r) PROVE r[i] = 0 + i
    BY DEF InSequence
  <2>1. CASE i \in 1 .. Len(a)
    BY <1>1, <1>4, <2>1 DEF InSequence
  <2>2. CASE i - Len(a) \in 1 .. Len(b) /\ i = Len(a) + (i - Len(a))
    <3>1. r[i] = b[i - Len(a)]
      BY <1>1, <2>2
    <3>2. b[i - Len(a)] = Len(a) + (i - Len(a))
      BY <1>4, <2>2 DEF InSequence
    <3> QED
      BY <1>1, <2>2, <3>1, <3>2
  <2> QED
    BY <1>2, <2>1, <2>2
<1> QED
  BY <1>1, <1>3, <1>4 DEF r

LEMMA TextGrows ==
  ASSUME NEW a \in Text, NEW p \in 1 .. MaxPieces
  PROVE  /\ Append(a, p) \in Text /\ Len(Append(a, p)) = Len(a) + 1 /\ Len(a) \in Nat
         /\ Elements(Append(a, p)) = Elements(a) \cup {p}
         /\ \A from \in Nat : InSequence(a, from) /\ p = from + Len(a) + 1 => InSequence(Append(a, p), from)
<1> DEFINE r == Append(a, p)
<1>1. /\ r \in Text /\ Len(r) = Len(a) + 1 /\ Len(a) \in Nat /\ r[Len(a) + 1] = p
      /\ \A i \in 1 .. Len(a) : r[i] = a[i]
  BY DEF Text
<1> HIDE DEF r
<1>2. /\ \A i \in 1 .. Len(a) : i \in 1 .. Len(r)
      /\ Len(a) + 1 \in 1 .. Len(r)
      /\ \A i \in 1 .. Len(r) : i \in 1 .. Len(a) \/ i = Len(a) + 1
  BY <1>1
<1>3. Elements(r) = Elements(a) \cup {p}
  <2>1. Elements(a) \cup {p} \subseteq Elements(r)
    BY <1>1, <1>2 DEF Elements
  <2>2. Elements(r) \subseteq Elements(a) \cup {p}
    BY <1>1, <1>2 DEF Elements
  <2> QED
    BY <2>1, <2>2
<1>4. \A from \in Nat : InSequence(a, from) /\ p = from + Len(a) + 1 => InSequence(r, from)
  <2> SUFFICES ASSUME NEW from \in Nat, InSequence(a, from), p = from + Len(a) + 1,
                      NEW i \in 1 .. Len(r)
               PROVE  r[i] = from + i
    BY DEF InSequence
  <2>1. CASE i \in 1 .. Len(a)
    BY <1>1, <2>1 DEF InSequence
  <2>2. CASE i = Len(a) + 1
    BY <1>1, <2>2
  <2> QED
    BY <1>2, <2>1, <2>2
<1> QED
  BY <1>1, <1>3, <1>4 DEF r

LEMMA WholeText ==
  ASSUME NEW n \in 0 .. MaxPieces
  PROVE  Whole(n) \in Text /\ Len(Whole(n)) = n /\ Elements(Whole(n)) = 1 .. n /\ InSequence(Whole(n), 0)
<1>1. Whole(n) \in Text /\ Len(Whole(n)) = n /\ n \in Nat
  BY TurnAssumption DEF Whole, Text
<1>2. \A i \in 1 .. n : Whole(n)[i] = i
  BY DEF Whole
<1>3. Elements(Whole(n)) = 1 .. n
  <2> DEFINE w == Whole(n)
  <2> HIDE DEF w
  <2>1. Len(w) = n /\ \A i \in 1 .. n : w[i] = i
    BY <1>1, <1>2 DEF w
  <2>2. Elements(w) = 1 .. n
    BY <2>1 DEF Elements
  <2> QED
    BY <2>2 DEF w
<1>4. InSequence(Whole(n), 0)
  BY <1>1, <1>2 DEF InSequence
<1> QED
  BY <1>1, <1>3, <1>4

\* The text of a message that is completed: all that was said, in order if it was kept in order.
LEMMA CompletedText ==
  ASSUME NEW a \in Text, NEW b \in Text, NEW n \in 0 .. MaxPieces, NEW w \in 0 .. MaxPieces,
         Elements(a) \cup Elements(b) = 1 .. Len(a) + Len(b),
         (Len(a) + Len(b) = n /\ w \in {0, n}) \/ (Len(a) + Len(b) = 0 /\ w = n)
  PROVE  LET r == a \o (IF b # <<>> THEN b ELSE IF a = <<>> THEN Whole(w) ELSE <<>>) IN
         /\ r \in Text /\ Len(r) = n /\ Elements(r) = 1 .. n
         /\ InSequence(a, 0) /\ InSequence(b, Len(a)) => InSequence(r, 0)
<1> DEFINE more == IF b # <<>> THEN b ELSE IF a = <<>> THEN Whole(w) ELSE <<>>
<1>1. /\ Len(a) \in Nat /\ Len(b) \in Nat /\ n \in Nat
      /\ (a = <<>> <=> Len(a) = 0) /\ (b = <<>> <=> Len(b) = 0)
  BY TurnAssumption DEF Text
<1>2. CASE Len(a) + Len(b) = 0
  <2>1. Len(a) = 0 /\ Len(b) = 0 /\ w = n
    BY <1>1, <1>2
  <2>2. a = <<>> /\ more = Whole(n)
    BY <1>1, <2>1
  <2>3. a \o more = Whole(n)
    <3> DEFINE v == Whole(n)
    <3>1. v \in Seq(1 .. MaxPieces)
      BY WholeText DEF Text
    <3> HIDE DEF v
    <3>2. <<>> \o v = v
      BY <3>1, ConcatEmptySeq
    <3> QED
      BY <2>2, <3>2 DEF v
  <2> QED
    BY <2>3, WholeText
<1>3. CASE Len(a) + Len(b) # 0
  <2>1. Len(a) + Len(b) = n /\ more = b
    BY <1>1, <1>3
  <2> HIDE DEF more
  <2> QED
    BY <1>1, <2>1, TextsJoin DEF more
<1> QED
  BY <1>2, <1>3

LEMMA OneMore == ASSUME NEW c \in Nat PROVE 1 .. c + 1 = (1 .. c) \cup {c + 1}
  OBVIOUS

\* The message of t is completed, by its item or by the end of its turn.
LEMMA CompletedReply ==
  ASSUME Typed, Typed', NEW t \in Turns, Fine(t), Stays(t), NEW w \in 0 .. MaxPieces,
         Stream # <<>>, Stream' = Tail(Stream),
         \/ IsEnd(Stream[1], t) /\ t \in ingestion.open /\ w = 0
         \/ IsItem(Stream[1], t) /\ w = Stream[1].piece,
         reply'[t].text = reply[t].text \o (IF ingestion.buffer[t] # <<>> THEN ingestion.buffer[t]
                                            ELSE IF reply[t].text = <<>> THEN Whole(w) ELSE <<>>),
         reply'[t].complete, ingestion'.buffer[t] = <<>>, t \notin ingestion'.open,
         past'.switched = past.switched
  PROVE  Fine(t)'
<1> DEFINE s == Stream
           k == owner[t]
           c == Taken(t)
           n == output[t].pieces
           ended == output[t].ended
           opened == t \in ingestion.open
           later == t \in ingestion'.open
           gone == Gone(t)
           a == reply[t].text
           b == ingestion.buffer[t]
<1>1. /\ s \in Seq(GoodEvent) /\ s # <<>> /\ c \in Nat /\ n \in Nat /\ n \in 0 .. MaxPieces
      /\ a \in Text /\ b \in Text /\ c = Len(a) + Len(b)
  BY StreamIsSeq, ReplyParts DEF Typed, OutputType, Taken
<1>2. Len(s) \in Nat /\ Len(s) > 0 /\ 1 \in 1 .. Len(s)
  BY <1>1, Shifted
<1>3. ~Waits(t)
  BY <1>2 DEF Fine, Untouched, Silent, Speaks
<1>4. Flows(t)
  BY <1>2 DEF Fine, Over, Silent, Speaks
<1>5. Script(s, t, k, c, n, ended, opened, gone)
  BY <1>4 DEF Flows
<1>6. /\ (c = n /\ w \in {0, n}) \/ (c = 0 /\ w = n)
      /\ Script(Tail(s), t, k, n, n, ended, later, gone)
      /\ ended \/ gone
  <2>0. later = FALSE
    OBVIOUS
  <2>1. CASE IsEnd(s[1], t) /\ w = 0
    <3>1. ~Speaks(s[1], t)
      BY <2>1 DEF IsEnd, Speaks, IsDelta, IsItem
    <3> HIDE DEF s, k, c, n, ended, opened, gone, later
    <3>2. gone /\ Silent(Tail(s), t)
      BY <1>1, <1>5, <2>1, ScriptAtEnd
    <3>3. Script(Tail(s), t, k, c, n, ended, later, gone)
      BY <1>1, <1>5, <2>0, <3>1, ScriptPasses
    <3>4. Tail(s) \in Seq(GoodEvent)
      BY <1>1, Shifted
    <3>5. c = n
      BY <1>1, <3>2, <3>3, <3>4, ScriptSilent
    <3> QED
      BY <2>1, <3>2, <3>3, <3>5
  <2>2. CASE IsItem(s[1], t) /\ w = s[1].piece
    <3>1. /\ s \in Seq(GoodEvent) /\ s # <<>> /\ c \in Nat /\ n \in Nat
          /\ IsItem(s[1], t) /\ Script(s, t, k, c, n, ended, opened, gone)
      BY <1>1, <1>5, <2>2
    <3> HIDE DEF s, k, c, n, ended, opened, gone, later
    <3>2. /\ s[1].piece = n /\ ended /\ (c = n \/ c = 0)
          /\ Script(Tail(s), t, k, n, n, ended, FALSE, gone)
      BY <3>1, ScriptItem, Zenon
    <3> QED
      BY <2>0, <2>2, <3>2
  <2> QED
    BY <2>1, <2>2
<1>7. /\ Elements(a) \cup Elements(b) = 1 .. c
      /\ t \notin past.switched => InSequence(a, 0) /\ InSequence(b, Len(a))
  <2>1. /\ Elements(a) \cup Elements(b) = 1 .. c
        /\ t \notin past.switched => Ordered(t)
    BY <1>4 DEF Flows
  <2>2. Ordered(t) => InSequence(a, 0) /\ InSequence(b, Len(a))
    <3>1. Ordered(t) => /\ \A i \in 1 .. Len(a) : a[i] = i
                        /\ \A i \in 1 .. Len(b) : b[i] = Len(a) + i
      BY DEF Ordered
    <3> HIDE DEF a, b
    <3>2. \A i \in 1 .. Len(a) : 0 + i = i
      OBVIOUS
    <3> QED
      BY <3>1, <3>2 DEF InSequence
  <2> QED
    BY <2>1, <2>2
<1> DEFINE r == reply'[t].text
<1>8. /\ r \in Text /\ Len(r) = n /\ Elements(r) = 1 .. n
      /\ t \notin past.switched => InSequence(r, 0)
  <2>1. r = a \o (IF b # <<>> THEN b ELSE IF a = <<>> THEN Whole(w) ELSE <<>>)
    OBVIOUS
  <2> HIDE DEF r, a, b, c, n
  <2> QED
    BY <1>1, <1>6, <1>7, <2>1, CompletedText
<1>9. Len(<<>>) = 0 /\ 1 .. 0 = {}
  OBVIOUS
<1>10. Taken(t)' = n
  <2>1. Taken(t)' = Len(r) + Len(ingestion'.buffer[t])
    BY DEF Taken
  <2>2. Len(ingestion'.buffer[t]) = 0
    BY <1>9
  <2>3. Taken(t)' = n + 0
    BY <1>8, <2>1, <2>2
  <2>4. n \in Nat
    BY <1>1
  <2> HIDE DEF n
  <2> QED
    BY <2>3, <2>4
<1>11. Flows(t)'
  <2>1. Script(Stream', t, owner'[t], Taken(t)', output'[t].pieces, output'[t].ended,
               t \in ingestion'.open, Gone(t)')
    <3>1. /\ Stream' = Tail(s) /\ owner'[t] = k /\ output'[t].pieces = n /\ output'[t].ended = ended
          /\ Gone(t)' = gone
      BY DEF Stays
    <3> HIDE DEF s, k, c, n, ended, gone
    <3> QED
      BY <1>6, <1>10, <3>1
  <2>2. (Elements(reply[t].text) \cup Elements(ingestion.buffer[t]) = 1 .. Taken(t))'
    BY <1>8, <1>9, <1>10 DEF Elements
  <2>3. ASSUME t \notin past'.switched PROVE Ordered(t)'
    <3>1. \A i \in 1 .. Len(r) : r[i] = i
      <4>1. InSequence(r, 0)
        BY <1>8, <2>3
      <4> HIDE DEF r
      <4>2. \A i \in 1 .. Len(r) : r[i] = 0 + i /\ 0 + i = i
        BY <4>1 DEF InSequence
      <4> QED
        BY <4>2
    <3> QED
      BY <1>9, <3>1 DEF Ordered
  <2>4. /\ ingestion'.buffer[t] = <<>> /\ Taken(t)' = output'[t].pieces
        /\ output'[t].ended \/ Gone(t)'
    BY <1>6, <1>10 DEF Stays
  <2> QED
    BY <2>1, <2>2, <2>3, <2>4 DEF Flows
<1>12. ~Waits(t)' /\ Closing(t)'
  BY <1>3 DEF Stays, Closing
<1> QED
  BY <1>11, <1>12 DEF Fine

\* The next piece of t is streamed, kept, or spilled with the buffer.
LEMMA DeltaReply ==
  ASSUME Typed, Typed', NEW t \in Turns, Fine(t), Stays(t), NEW p \in 1 .. MaxPieces,
         Stream # <<>>, Stream' = Tail(Stream), IsDelta(Stream[1], t), p = Stream[1].piece,
         t \in ingestion'.open, past'.switched = past.switched, ingestion'.mode = ingestion.mode,
         \/ /\ reply'[t].text = Append(reply[t].text, p) /\ ~reply'[t].complete
            /\ ingestion'.buffer[t] = ingestion.buffer[t] /\ ingestion.mode = "streaming"
         \/ /\ reply'[t] = reply[t]
            /\ ingestion'.buffer[t] = Append(ingestion.buffer[t], p) /\ ingestion.mode = "buffered"
         \/ /\ reply'[t].text = reply[t].text \o Append(ingestion.buffer[t], p) /\ ~reply'[t].complete
            /\ ingestion'.buffer[t] = <<>> /\ ingestion.mode = "buffered"
  PROVE  Fine(t)'
<1> DEFINE s == Stream
           k == owner[t]
           c == Taken(t)
           n == output[t].pieces
           ended == output[t].ended
           opened == t \in ingestion.open
           later == t \in ingestion'.open
           gone == Gone(t)
           a == reply[t].text
           b == ingestion.buffer[t]
           a2 == reply'[t].text
           b2 == ingestion'.buffer[t]
<1>1. /\ s \in Seq(GoodEvent) /\ s # <<>> /\ c \in Nat /\ n \in Nat
      /\ a \in Text /\ b \in Text /\ c = Len(a) + Len(b)
  BY StreamIsSeq, ReplyParts DEF Taken
<1>2. Len(s) \in Nat /\ Len(s) > 0 /\ 1 \in 1 .. Len(s)
  BY <1>1, Shifted
<1>3. ~Waits(t)
  BY <1>2 DEF Fine, Untouched, Silent, Speaks
<1>4. Flows(t)
  BY <1>2 DEF Fine, Over, Silent, Speaks
<1>5. Script(s, t, k, c, n, ended, opened, gone)
  BY <1>4 DEF Flows
<1>6. p = c + 1 /\ c + 1 <= n /\ Script(Tail(s), t, k, c + 1, n, ended, later, gone)
  <2>0. later = TRUE
    OBVIOUS
  <2>1. IsDelta(s[1], t) /\ p = s[1].piece
    OBVIOUS
  <2> HIDE DEF s, k, c, n, ended, opened, gone, later
  <2>2. s[1].piece = c + 1 /\ Script(Tail(s), t, k, c + 1, n, ended, TRUE, gone)
    BY <1>1, <1>5, <2>1, ScriptDelta
  <2> QED
    BY <2>0, <2>1, <2>2 DEF Script
<1>7. /\ Elements(a) \cup Elements(b) = 1 .. c
      /\ t \notin past.switched =>
           InSequence(a, 0) /\ InSequence(b, Len(a)) /\ (ingestion.mode = "streaming" => b = <<>>)
      /\ reply[t].complete => c = n
  <2>1. /\ Elements(a) \cup Elements(b) = 1 .. c
        /\ t \notin past.switched => Ordered(t)
        /\ reply[t].complete => c = n
    BY <1>4 DEF Flows
  <2>2. Ordered(t) => InSequence(a, 0) /\ InSequence(b, Len(a)) /\ (ingestion.mode = "streaming" => b = <<>>)
    <3>1. Ordered(t) => /\ \A i \in 1 .. Len(a) : a[i] = i
                        /\ \A i \in 1 .. Len(b) : b[i] = Len(a) + i
                        /\ ingestion.mode = "streaming" => b = <<>>
      BY DEF Ordered
    <3> HIDE DEF a, b
    <3>2. \A i \in 1 .. Len(a) : 0 + i = i
      OBVIOUS
    <3> QED
      BY <3>1, <3>2 DEF InSequence
  <2> QED
    BY <2>1, <2>2
<1>8. ~reply[t].complete /\ ~reply'[t].complete
  <2>1. c # n
    <3>1. c \in Nat /\ n \in Nat /\ c + 1 <= n
      BY <1>1, <1>6
    <3> HIDE DEF c, n
    <3> QED
      BY <3>1
  <2> QED
    BY <1>7, <2>1
<1>9. /\ Len(a2) + Len(b2) = c + 1 /\ Elements(a2) \cup Elements(b2) = 1 .. c + 1
      /\ t \notin past.switched =>
           InSequence(a2, 0) /\ InSequence(b2, Len(a2)) /\ (ingestion.mode = "streaming" => b2 = <<>>)
  <2>0. 1 .. c + 1 = (1 .. c) \cup {p} /\ Len(<<>>) = 0 /\ Elements(<<>>) = {}
    <3>0. c \in Nat
      BY <1>1
    <3> HIDE DEF c
    <3>1. 1 .. c + 1 = (1 .. c) \cup {c + 1}
      BY <3>0, OneMore
    <3>2. Len(<<>>) = 0 /\ 1 .. 0 = {}
      OBVIOUS
    <3> QED
      BY <1>6, <3>1, <3>2 DEF Elements
  <2>1. CASE a2 = Append(a, p) /\ b2 = b /\ ingestion.mode = "streaming"
    <3> HIDE DEF a, b, c, a2, b2
    <3>1. /\ Len(a2) = Len(a) + 1 /\ Len(a) \in Nat /\ Elements(a2) = Elements(a) \cup {p}
          /\ InSequence(a, 0) /\ p = 0 + Len(a) + 1 => InSequence(a2, 0)
      BY <1>1, <2>1, TextGrows
    <3>2. Len(b) \in Nat
      BY <1>1 DEF Text
    <3>3. Len(a2) + Len(b2) = c + 1
      BY <1>1, <2>1, <3>1, <3>2
    <3>4. Elements(a2) \cup Elements(b2) = 1 .. c + 1
      BY <1>7, <2>0, <2>1, <3>1
    <3>5. ASSUME t \notin past.switched PROVE InSequence(a2, 0) /\ b2 = <<>>
      <4>1. b = <<>> /\ InSequence(a, 0)
        BY <1>7, <2>1, <3>5
      <4>2. p = 0 + Len(a) + 1
        BY <1>1, <1>6, <2>0, <3>1, <4>1
      <4> QED
        BY <2>1, <3>1, <4>1, <4>2
    <3>6. b2 = <<>> => InSequence(b2, Len(a2))
      BY <2>0 DEF InSequence
    <3> QED
      BY <3>3, <3>4, <3>5, <3>6
  <2>2. CASE a2 = a /\ b2 = Append(b, p) /\ ingestion.mode = "buffered"
    <3> HIDE DEF a, b, c, a2, b2
    <3>1. Len(a) \in Nat
      BY <1>1 DEF Text
    <3>2. /\ Len(b2) = Len(b) + 1 /\ Len(b) \in Nat /\ Elements(b2) = Elements(b) \cup {p}
          /\ InSequence(b, Len(a)) /\ p = Len(a) + Len(b) + 1 => InSequence(b2, Len(a))
      BY <1>1, <2>2, <3>1, TextGrows
    <3>3. Len(a2) + Len(b2) = c + 1 /\ p = Len(a) + Len(b) + 1
      BY <1>1, <1>6, <2>2, <3>1, <3>2
    <3>4. Elements(a2) \cup Elements(b2) = 1 .. c + 1
      BY <1>7, <2>0, <2>2, <3>2
    <3> QED
      BY <1>7, <2>2, <3>2, <3>3, <3>4
  <2>3. CASE a2 = a \o Append(b, p) /\ b2 = <<>> /\ ingestion.mode = "buffered"
    <3> DEFINE m == Append(b, p)
    <3> HIDE DEF a, b, c, a2, b2
    <3>1. Len(a) \in Nat
      BY <1>1 DEF Text
    <3>2. /\ m \in Text /\ Len(m) = Len(b) + 1 /\ Len(b) \in Nat /\ Elements(m) = Elements(b) \cup {p}
          /\ InSequence(b, Len(a)) /\ p = Len(a) + Len(b) + 1 => InSequence(m, Len(a))
      BY <1>1, <3>1, TextGrows
    <3>3. a2 = a \o m
      BY <2>3
    <3> HIDE DEF m
    <3>4. /\ Len(a2) = Len(a) + Len(m) /\ Elements(a2) = Elements(a) \cup Elements(m)
          /\ InSequence(a, 0) /\ InSequence(m, Len(a)) => InSequence(a2, 0)
      BY <1>1, <3>2, <3>3, TextsJoin
    <3>5. Len(a2) + Len(b2) = c + 1 /\ p = Len(a) + Len(b) + 1
      BY <1>1, <1>6, <2>0, <2>3, <3>1, <3>2, <3>4
    <3>6. Elements(a2) \cup Elements(b2) = 1 .. c + 1
      BY <1>7, <2>0, <2>3, <3>2, <3>4
    <3>7. InSequence(b2, Len(a2))
      BY <2>0, <2>3 DEF InSequence
    <3> QED
      BY <1>7, <2>3, <3>2, <3>4, <3>5, <3>6, <3>7
  <2> QED
    BY <2>1, <2>2, <2>3
<1>10. Taken(t)' = c + 1
  BY <1>9 DEF Taken
<1>11. Flows(t)'
  <2>1. Script(Stream', t, owner'[t], Taken(t)', output'[t].pieces, output'[t].ended,
               t \in ingestion'.open, Gone(t)')
    <3>1. /\ Stream' = Tail(s) /\ owner'[t] = k /\ output'[t].pieces = n /\ output'[t].ended = ended
          /\ Gone(t)' = gone
      BY DEF Stays
    <3> HIDE DEF s, k, c, n, ended, gone
    <3> QED
      BY <1>6, <1>10, <3>1
  <2>2. (Elements(reply[t].text) \cup Elements(ingestion.buffer[t]) = 1 .. Taken(t))'
    BY <1>9, <1>10 DEF Elements
  <2>3. ASSUME t \notin past'.switched PROVE Ordered(t)'
    <3>1. InSequence(a2, 0) /\ InSequence(b2, Len(a2)) /\ (ingestion.mode = "streaming" => b2 = <<>>)
      BY <1>9, <2>3
    <3>2. \A i \in 1 .. Len(a2) : a2[i] = i
      <4> HIDE DEF a2
      <4>1. \A i \in 1 .. Len(a2) : a2[i] = 0 + i /\ 0 + i = i
        BY <3>1 DEF InSequence
      <4> QED
        BY <4>1
    <3> QED
      BY <3>1, <3>2 DEF Ordered, InSequence
  <2> QED
    BY <1>8, <2>1, <2>2, <2>3 DEF Flows
<1>12. Closing(t)'
  <2> SUFFICES ASSUME output[t].pieces > 0, t \notin past.cut
               PROVE  Due(Stream', t, owner'[t], t \in ingestion'.open, Given(t)')
    BY DEF Closing, Stays
  <2> DEFINE given == Given(t)
  <2>1. Due(s, t, k, opened, given)
    BY <1>8 DEF Fine, Closing
  <2>2. ~IsEnd(s[1], t) /\ (later <=> (opened \/ Speaks(s[1], t)))
    BY DEF IsDelta, IsEnd, Speaks
  <2>3. Due(Tail(s), t, k, later, given)
    <3> HIDE DEF s, k, opened, later, given
    <3> QED
      BY <1>1, <2>1, <2>2, DuePasses
  <2>4. Stream' = Tail(s) /\ owner'[t] = k /\ Given(t)' = given
    BY DEF Stays
  <2> HIDE DEF s, k, given
  <2> QED
    BY <2>3, <2>4
<1> QED
  BY <1>3, <1>11, <1>12 DEF Fine, Stays

---------------------------------------------------------------------------
(* Each step, as the reply of a turn sees it.                              *)

\* Events the session of k tells: what starts and what ends.
Tells(es, k) ==
    /\ es \in Seq(GoodEvent)
    /\ \A i \in 1 .. Len(es) : es[i].type \in Lifecycle /\ es[i].thread = k

\* Turns end that it was given.
EndsOwn(es, k) ==
    \A i \in 1 .. Len(es) : es[i].type = "turn.completed" => es[i].turn \in Unfinished(k)

LEMMA TellsSilent ==
  ASSUME NEW es, NEW k, Tells(es, k), NEW t
  PROVE  Silent(es, t)
  BY DEF Tells, Silent, Speaks, IsDelta, IsItem, Lifecycle

LEMMA TellsJoined ==
  ASSUME NEW a, NEW b, NEW k, Tells(a, k), Tells(b, k)
  PROVE  /\ Tells(a \o b, k)
         /\ EndsOwn(a, k) /\ EndsOwn(b, k) => EndsOwn(a \o b, k)
         /\ \A f : (\A i \in 1 .. Len(a) : a[i].type # f) /\ (\A i \in 1 .. Len(b) : b[i].type # f)
                   => \A i \in 1 .. Len(a \o b) : (a \o b)[i].type # f
<1> DEFINE r == a \o b
<1>1. /\ r \in Seq(GoodEvent)
      /\ \A i \in 1 .. Len(r) : \/ i \in 1 .. Len(a) /\ r[i] = a[i]
                                \/ i > Len(a) /\ i - Len(a) \in 1 .. Len(b) /\ r[i] = b[i - Len(a)]
  BY Joined DEF Tells
<1> HIDE DEF r
<1>2. \A i \in 1 .. Len(r) : (\E j \in 1 .. Len(a) : r[i] = a[j]) \/ (\E j \in 1 .. Len(b) : r[i] = b[j])
  BY <1>1
<1>3. Tells(r, k)
  BY <1>1, <1>2 DEF Tells
<1>4. EndsOwn(a, k) /\ EndsOwn(b, k) => EndsOwn(r, k)
  BY <1>2 DEF EndsOwn
<1>5. \A f : (\A i \in 1 .. Len(a) : a[i].type # f) /\ (\A i \in 1 .. Len(b) : b[i].type # f)
             => \A i \in 1 .. Len(r) : r[i].type # f
  BY <1>2
<1> QED
  BY <1>3, <1>4, <1>5 DEF r

LEMMA TellsNone ==
  ASSUME NEW k
  PROVE  /\ Tells(<<>>, k) /\ EndsOwn(<<>>, k)
         /\ \A f : \A i \in 1 .. Len(<<>>) : <<>>[i].type # f
<1>1. <<>> \in Seq(GoodEvent) /\ Len(<<>>) = 0 /\ 1 .. 0 = {}
  BY EmptyIsSeq
<1> QED
  BY <1>1 DEF Tells, EndsOwn

LEMMA TellsOne ==
  ASSUME NEW k \in Threads, NEW t \in 0 .. MaxTurns, NEW type \in Lifecycle
  PROVE  LET e == Event(type, k, t, 0) IN
         /\ Tells(<<e>>, k)
         /\ type = "turn.completed" => (EndsOwn(<<e>>, k) <=> t \in Unfinished(k))
         /\ type # "turn.completed" => EndsOwn(<<e>>, k)
         /\ \A f : f # type => \A i \in 1 .. Len(<<e>>) : <<e>>[i].type # f
         /\ Len(<<e>>) = 1 /\ <<e>>[1] = e /\ e.type = type /\ e.turn = t
<1> DEFINE e == Event(type, k, t, 0)
<1>1. e \in GoodEvent /\ e.type = type /\ e.thread = k /\ e.turn = t
  BY EventIsGood DEF Event
<1> HIDE DEF e
<1> DEFINE es == <<e>>
<1>2. es \in Seq(GoodEvent) /\ Len(es) = 1 /\ es[1] = e
  BY <1>1, OneIsSeq
<1> HIDE DEF es
<1>3. \A i \in 1 .. Len(es) : i = 1
  BY <1>2
<1>4. Tells(es, k)
  BY <1>1, <1>2, <1>3 DEF Tells
<1>5. type = "turn.completed" => (EndsOwn(es, k) <=> t \in Unfinished(k))
  <2>1. 1 \in 1 .. Len(es)
    BY <1>2
  <2> QED
    BY <1>1, <1>2, <1>3, <2>1 DEF EndsOwn
<1>6. type # "turn.completed" => EndsOwn(es, k)
  BY <1>1, <1>2, <1>3 DEF EndsOwn
<1>7. \A f : f # type => \A i \in 1 .. Len(es) : es[i].type # f
  BY <1>1, <1>2, <1>3
<1> QED
  BY <1>1, <1>2, <1>4, <1>5, <1>6, <1>7 DEF es, e

LEMMA FarewellTells ==
  ASSUME Typed, NEW k \in Threads, NEW told \in Farewell(k)
  PROVE  Tells(told, k) /\ EndsOwn(told, k)
<1> DEFINE p == provider[k].turn
           exited == Event("session.exited", k, 0, 0)
           ended == Event("turn.completed", k, p, 0)
<1>1. p \in 0 .. MaxTurns /\ 0 \in 0 .. MaxTurns /\ (p # 0 => p \in Unfinished(k))
  BY SessionOf, TurnAssumption DEF Unfinished
<1>2. Tells(<<exited>>, k) /\ EndsOwn(<<exited>>, k)
  BY <1>1, TellsOne DEF Lifecycle
<1>3. p # 0 => Tells(<<ended>>, k) /\ EndsOwn(<<ended>>, k)
  BY <1>1, TellsOne DEF Lifecycle
<1>4. told = <<>> \/ told = <<exited>> \/ (p # 0 /\ told = <<ended, exited>>)
  BY DEF Farewell
<1> HIDE DEF p, exited, ended
<1>5. CASE told = <<>>
  BY <1>5, TellsNone
<1>6. CASE told = <<exited>>
  BY <1>2, <1>6
<1>7. CASE p # 0 /\ told = <<ended, exited>>
  <2>1. <<ended, exited>> = <<ended>> \o <<exited>>
    OBVIOUS
  <2> QED
    BY <1>2, <1>3, <1>7, <2>1, TellsJoined
<1> QED
  BY <1>4, <1>5, <1>6, <1>7

\* Turns done with are gone and waited for no longer.
LEMMA FewerWait ==
  ASSUME Fewer, NEW t
  PROVE  /\ owner'[t] = owner[t] /\ (Gone(t) => Gone(t)') /\ (Waits(t)' => Waits(t))
  BY DEF Fewer, Gone, Waits

\* Nothing is told, nothing taken.
LEMMA QuietReply ==
  ASSUME Typed, Typed', NEW t \in Turns, Fine(t), Fewer, UNCHANGED <<reply, output, provider>>,
         Stream' = Stream, ingestion'.buffer = ingestion.buffer, ingestion'.open = ingestion.open,
         past.switched \subseteq past'.switched, past.cut \subseteq past'.cut,
         ingestion'.mode = "streaming" =>
            ingestion.mode = "streaming" \/ t \in past'.switched \/ ingestion.buffer[t] = <<>>
  PROVE  Fine(t)'
<1> DEFINE es == <<>>
<1>1. Stream' = Stream \o es /\ es \in Seq(GoodEvent)
  BY StreamIsSeq, ConcatEmptySeq, EmptyIsSeq
<1>2. Silent(es, t) /\ \A i \in 1 .. Len(es) : FALSE
  BY DEF Silent
<1>3. Given(t)' <=> Given(t)
  BY DEF Given, Unfinished
<1> HIDE DEF es
<1>4. /\ reply'[t] = reply[t] /\ output'[t] = output[t] /\ ingestion'.buffer[t] = ingestion.buffer[t]
      /\ t \in past.switched => t \in past'.switched
      /\ t \in past.cut => t \in past'.cut
  OBVIOUS
<1> QED
  BY <1>1, <1>2, <1>3, <1>4, FewerWait, ToldReply

\* A session starts or goes on to a turn; nothing ends.
LEMMA BegunReply ==
  ASSUME Typed, Typed', NEW t \in Turns, Fine(t), owner'[t] = owner[t], UNCHANGED <<reply, output>>,
         past'.switched = past.switched, past'.cut = past.cut,
         Gone(t) => Gone(t)', Waits(t)' => Waits(t), Given(t) => Given(t)',
         NEW k, NEW es, Tells(es, k), Tell(es),
         \A i \in 1 .. Len(es) : es[i].type # "turn.completed" /\ es[i].type # "session.exited"
  PROVE  Fine(t)'
<1>1. es \in Seq(GoodEvent) /\ Silent(es, t)
  BY TellsSilent DEF Tells
<1>2. /\ Stream' = Stream \o es /\ ingestion'.buffer[t] = ingestion.buffer[t]
      /\ ingestion'.open = ingestion.open /\ ingestion'.mode = ingestion.mode
  BY <1>1, StreamTold
<1>3. \A i \in 1 .. Len(es) : ~IsEnd(es[i], t) /\ ~IsExit(es[i], owner[t])
  BY DEF IsEnd, IsExit
<1>4. reply'[t] = reply[t] /\ output'[t] = output[t]
  OBVIOUS
<1> QED
  BY <1>1, <1>2, <1>3, <1>4, ToldReply

\* A turn is given to one thread.
LEMMA GivenWhere ==
  ASSUME Typed, Placed, NEW t, Given(t)
  PROVE  /\ owner[t] \in Threads /\ owner[t] # 0 /\ t \notin Requested /\ t \in Unfinished(owner[t])
         /\ \A k \in Threads : t \in Unfinished(k) => owner[t] = k
<1>1. \A k \in Threads : t \in Unfinished(k) => owner[t] = k /\ owner[t] # 0
  BY GivenOwned DEF Placed
<1> QED
  BY <1>1 DEF Given, Placed

\* The session of k ends, and with it the turns it was given.
LEMMA EndedReply ==
  ASSUME Typed, Typed', Placed, NEW t \in Turns, Fine(t), Fewer, UNCHANGED <<reply, output>>,
         NEW k \in Threads, NEW es, Tells(es, k), EndsOwn(es, k), Tell(es),
         past'.switched = past.switched, past'.cut = past.cut \cup Unfinished(k),
         \A x \in Unfinished(k) : ~Given(x)',
         \A x : Given(x) => Given(x)' \/ x \in Unfinished(k)
  PROVE  Fine(t)'
<1>1. es \in Seq(GoodEvent) /\ Silent(es, t)
  BY TellsSilent DEF Tells
<1>2. /\ Stream' = Stream \o es /\ ingestion'.buffer[t] = ingestion.buffer[t]
      /\ ingestion'.open = ingestion.open /\ ingestion'.mode = ingestion.mode
  BY <1>1, StreamTold
<1>3. owner'[t] = owner[t] /\ (Gone(t) => Gone(t)') /\ (Waits(t)' => Waits(t))
  BY FewerWait
<1>4. ASSUME t \in Unfinished(k) PROVE Gone(t)'
  <2>1. Given(t)
    BY <1>4 DEF Given
  <2>2. owner[t] # 0 /\ t \notin Requested
    BY <2>1, GivenWhere
  <2> QED
    BY <1>3, <1>4, <2>2 DEF Gone, Fewer
<1>5. \A i \in 1 .. Len(es) : IsEnd(es[i], t) => Gone(t)'
  BY <1>4 DEF IsEnd, EndsOwn
<1>6. ASSUME NEW i \in 1 .. Len(es), IsExit(es[i], owner[t]), ~Untouched(t)
      PROVE  Gone(t)' /\ (~Given(t) \/ t \in past'.cut)
  <2>1. owner[t] = k
    BY <1>6 DEF IsExit, Tells
  <2>2. ~Waits(t)
    BY <1>6 DEF Fine
  <2>3. CASE Given(t)
    <3>1. t \in Unfinished(k)
      BY <2>1, <2>3, GivenWhere
    <3> QED
      BY <1>4, <3>1
  <2>4. CASE ~Given(t)
    BY <1>3, <2>2, <2>4 DEF Gone, Waits
  <2> QED
    BY <2>3, <2>4
<1>7. Given(t) => Given(t)' \/ t \in past'.cut
  OBVIOUS
<1>8. /\ reply'[t] = reply[t] /\ output'[t] = output[t]
      /\ t \in past.cut => t \in past'.cut
      /\ t \in past.switched => t \in past'.switched
  OBVIOUS
<1> QED
  BY <1>1, <1>2, <1>3, <1>5, <1>6, <1>7, <1>8, ToldReply

\* The turn of k ends.
LEMMA TurnEndsReply ==
  ASSUME Typed, Typed', Placed, NEW t \in Turns, Fine(t), Fewer, UNCHANGED <<owner, reply, output, past>>,
         NEW k \in Threads, provider[k].turn # 0, TurnEnds(k)
  PROVE  Fine(t)'
<1> DEFINE p == provider[k].turn
           next == NextTurn(provider[k]).turn
           ended == Event("turn.completed", k, p, 0)
           began == Event("turn.started", k, next, 0)
           a == <<ended>>
           b == IF next # 0 THEN <<began>> ELSE <<>>
           es == a \o b
<1>1. p \in 0 .. MaxTurns /\ p # 0 /\ next \in 0 .. MaxTurns
  <2>1. provider[k] \in GoodSession /\ p \in 0 .. MaxTurns /\ provider[k].queue \in Seq(Turns)
    BY SessionOf
  <2>2. CASE provider[k].queue = <<>>
    BY <2>1, <2>2, TurnAssumption DEF NextTurn, GoodSession
  <2>3. CASE provider[k].queue # <<>>
    <3>1. Head(provider[k].queue) \in Turns
      BY <2>1, <2>3, HeadTailIn
    <3>2. next = Head(provider[k].queue)
      BY <2>1, <2>3 DEF NextTurn, GoodSession
    <3> QED
      BY <2>1, <3>1, <3>2, TurnAssumption DEF Turns
  <2> QED
    BY <2>1, <2>2, <2>3
<1>2. Tell(es)
  BY DEF TurnEnds
<1>3. Given(p) /\ (\A x : x = p => ~Given(x)') /\ (Given(t) => Given(t)' \/ t = p)
  BY TurnEndsPlaces
<1> HIDE DEF p, next
<1>4. /\ Tells(a, k) /\ Len(a) = 1 /\ a[1] = ended /\ ended.type = "turn.completed" /\ ended.turn = p
      /\ \A i \in 1 .. Len(a) : a[i].type # "session.exited"
  <2>1. Tells(a, k)
    BY <1>1, TellsOne DEF Lifecycle
  <2>2. Len(a) = 1 /\ a[1] = ended /\ ended.type = "turn.completed" /\ ended.turn = p
    BY DEF Event
  <2> HIDE DEF ended, a
  <2>3. \A i \in 1 .. Len(a) : i = 1
    BY <2>2
  <2> QED
    BY <2>1, <2>2, <2>3
<1>5. Tells(b, k) /\ \A i \in 1 .. Len(b) : b[i].type # "session.exited" /\ b[i].type # "turn.completed"
  <2>1. CASE next # 0
    <3>1. b = <<began>>
      BY <2>1
    <3>2. Tells(<<began>>, k)
      BY <1>1, TellsOne DEF Lifecycle
    <3>3. began.type = "turn.started"
      BY DEF Event
    <3> HIDE DEF began, b
    <3>4. Len(b) = 1 /\ b[1] = began
      BY <3>1
    <3>5. \A i \in 1 .. Len(b) : i = 1
      BY <3>4
    <3> QED
      BY <3>1, <3>2, <3>3, <3>4, <3>5
  <2>2. CASE next = 0
    BY <2>2, TellsNone
  <2> QED
    BY <2>1, <2>2
<1> HIDE DEF ended, began, a, b
<1>6. /\ Tells(es, k) /\ \A i \in 1 .. Len(es) : es[i].type # "session.exited"
      /\ 1 \in 1 .. Len(es) /\ es[1] = ended
      /\ \A i \in 1 .. Len(es) : es[i].type = "turn.completed" => es[i] = ended
  <2>1. Tells(es, k) /\ \A i \in 1 .. Len(es) : es[i].type # "session.exited"
    BY <1>4, <1>5, TellsJoined
  <2>2. 1 \in 1 .. Len(a)
    BY <1>4
  <2>3. 1 \in 1 .. Len(es) /\ es[1] = a[1]
    BY <1>4, <1>5, <2>2, Joined DEF Tells
  <2>4. \A i \in 1 .. Len(es) : \/ i \in 1 .. Len(a) /\ es[i] = a[i]
                                \/ i > Len(a) /\ i - Len(a) \in 1 .. Len(b) /\ es[i] = b[i - Len(a)]
    BY <1>4, <1>5, Joined DEF Tells
  <2> HIDE DEF es
  <2>5. \A i \in 1 .. Len(a) : i = 1
    BY <1>4
  <2>6. \A i \in 1 .. Len(es) : es[i].type = "turn.completed" => es[i] = ended
    BY <1>4, <1>5, <2>4, <2>5
  <2> QED
    BY <1>4, <2>1, <2>3, <2>6
<1> HIDE DEF es
<1>7. es \in Seq(GoodEvent) /\ Silent(es, t)
  BY <1>6, TellsSilent DEF Tells
<1>8. /\ Stream' = Stream \o es /\ ingestion'.buffer[t] = ingestion.buffer[t]
      /\ ingestion'.open = ingestion.open /\ ingestion'.mode = ingestion.mode
  BY <1>2, <1>7, StreamTold
<1>9. owner'[t] = owner[t] /\ (Gone(t) => Gone(t)') /\ (Waits(t)' => Waits(t))
  BY FewerWait
<1>10. ASSUME NEW i \in 1 .. Len(es), IsEnd(es[i], t) PROVE Gone(t)'
  <2>1. t = p
    BY <1>4, <1>6, <1>10 DEF IsEnd
  <2>2. owner[t] # 0 /\ t \notin Requested
    BY <1>3, <2>1, GivenWhere
  <2> QED
    BY <1>3, <1>9, <2>1, <2>2 DEF Gone, Fewer
<1>11. \A i \in 1 .. Len(es) : ~IsExit(es[i], owner[t])
  BY <1>6 DEF IsExit
<1>12. Given(t) => Given(t)' \/ \E i \in 1 .. Len(es) : IsEnd(es[i], t)
  BY <1>3, <1>4, <1>6 DEF IsEnd
<1>13. reply'[t] = reply[t] /\ output'[t] = output[t] /\ past' = past
  OBVIOUS
<1> QED
  BY <1>7, <1>8, <1>9, <1>10, <1>11, <1>12, <1>13, ToldReply

LEMMA RequestTurnReply ==
  ASSUME Typed, Typed', Placed, NEW t \in Turns, Fine(t), RequestTurn PROVE Fine(t)'
<1>1. PICK x \in Turns, k \in Threads :
         /\ owner[x] = 0 /\ owner' = [owner EXCEPT ![x] = k]
         /\ x \notin Requested /\ ~Given(x) /\ Requested' = Requested \cup {x}
  BY RequestTurnPlaced
<1>2. \A y : (Given(y)' <=> Given(y)) /\ (Queued(y)' <=> Queued(y))
  BY RequestTurnPlaced
<1>3. UNCHANGED <<reply, output, past>>
  BY DEF RequestTurn
<1>4. /\ ingestion'.runtime = ingestion.runtime /\ ingestion'.reading = ingestion.reading
      /\ ingestion'.buffer = ingestion.buffer /\ ingestion'.open = ingestion.open
      /\ ingestion'.mode = ingestion.mode
  <2>1. ingestion \in IngestionType
    BY DEF Typed
  <2>2. PICK mode \in Modes : ingestion' = [ingestion EXCEPT !.modes = Append(@, mode)]
    BY DEF RequestTurn
  <2> QED
    BY <2>1, <2>2 DEF IngestionType
<1>5. Stream' = Stream
  BY <1>4 DEF Stream, Calm
<1>6. CASE t = x
  <2>1. Untouched(t)
    BY <1>1, <1>6 DEF Fine, Waits
  <2>2. Untouched(t)'
    BY <1>3, <1>4, <1>5, <2>1 DEF Untouched
  <2>3. Flows(t)' /\ Closing(t)'
    BY <2>2, FreshNext DEF FreshIsFine
  <2> QED
    BY <2>2, <2>3 DEF Fine
<1>7. CASE t # x
  <2> DEFINE es == <<>>
  <2>1. Stream' = Stream \o es /\ es \in Seq(GoodEvent)
    BY <1>5, StreamIsSeq, ConcatEmptySeq, EmptyIsSeq
  <2>2. Silent(es, t) /\ \A i \in 1 .. Len(es) : FALSE
    BY DEF Silent
  <2> HIDE DEF es
  <2>3. owner'[t] = owner[t]
    BY <1>1, <1>7 DEF Typed
  <2>4. (Gone(t) => Gone(t)') /\ (Waits(t)' => Waits(t))
    BY <1>1, <1>2, <1>7, <2>3 DEF Gone, Waits
  <2>5. reply'[t] = reply[t] /\ output'[t] = output[t] /\ past' = past
    BY <1>3
  <2> QED
    BY <1>2, <1>4, <2>1, <2>2, <2>3, <2>4, <2>5, ToldReply
<1> QED
  BY <1>6, <1>7

\* Steps that neither tell nor take.
LEMMA QuietSteps ==
  ASSUME Typed, Typed', Placed, NEW t \in Turns, Fine(t),
         RequestStop \/ TakeStart \/ TakeRestart \/ Bind \/ SetStopped
  PROVE  Fine(t)'
<1>1. Fewer
  BY RequestStopPlaced, TakeStartPlaced, TakeRestartPlaced, BindPlaced, SetStoppedPlaced
<1>2. UNCHANGED <<reply, output, provider, ingestion>>
  BY DEF RequestStop, TakeStart, TakeRestart, Bind, SetStopped
<1>3. past'.switched = past.switched /\ past'.cut = past.cut
  <2>1. past \in PastType
    BY DEF Typed
  <2>2. past' = past \/ \E told : past' = [past EXCEPT !.told = told]
    BY DEF RequestStop, TakeStart, TakeRestart, Bind, SetStopped, Fails
  <2> QED
    BY <2>1, <2>2 DEF PastType
<1>4. Stream' = Stream
  BY <1>2 DEF Stream, Calm
<1> QED
  BY <1>1, <1>2, <1>3, <1>4, QuietReply

LEMMA TakeModeReply ==
  ASSUME Typed, Typed', Placed, NEW t \in Turns, Fine(t), TakeMode PROVE Fine(t)'
<1> DEFINE mode == Head(ingestion.modes)
           late == IF mode = "streaming" THEN {x \in Turns : ingestion.buffer[x] # <<>>} ELSE {}
<1>1. UNCHANGED <<owner, commands, provider, reply, output>>
  BY DEF TakeMode
<1>2. Fewer
  BY <1>1, StaysPlaced
<1>3. /\ ingestion'.runtime = ingestion.runtime /\ ingestion'.reading = ingestion.reading
      /\ ingestion'.buffer = ingestion.buffer /\ ingestion'.open = ingestion.open
      /\ ingestion'.mode = mode
  <2>1. /\ ingestion \in IngestionType
        /\ ingestion' = [ingestion EXCEPT !.modes = Tail(@), !.mode = mode]
    BY DEF Typed, TakeMode
  <2> QED
    BY <2>1 DEF IngestionType
<1>4. past'.switched = past.switched \cup late /\ past'.cut = past.cut
  <2>1. past \in PastType /\ past' = [past EXCEPT !.switched = @ \cup late]
    BY DEF Typed, TakeMode
  <2> HIDE DEF late
  <2> QED
    BY <2>1 DEF PastType
<1>5. Stream' = Stream
  BY <1>3 DEF Stream, Calm
<1>6. mode = "streaming" => t \in past'.switched \/ ingestion.buffer[t] = <<>>
  BY <1>4
<1> QED
  BY <1>1, <1>2, <1>3, <1>4, <1>5, <1>6, QuietReply

---------------------------------------------------------------------------
(* Steps of a session.                                                     *)

LEMMA EndTurnReply ==
  ASSUME Typed, Typed', Placed, NEW t \in Turns, Fine(t), NEW k \in Threads, EndTurn(k) PROVE Fine(t)'
<1>1. Fewer
  BY EndTurnPlaced
<1> QED
  BY <1>1, TurnEndsReply DEF EndTurn

LEMMA ExitReply ==
  ASSUME Typed, Typed', Placed, NEW t \in Turns, Fine(t), NEW k \in Threads, Exit(k) PROVE Fine(t)'
<1>1. /\ Fewer /\ \A x \in Unfinished(k) : ~Given(x)'
      /\ \A x : Given(x) => Given(x)' \/ x \in Unfinished(k)
  BY ExitPlaced
<1>2. PICK told \in Farewell(k) : Tell(told)
  BY DEF Exit
<1>3. Tells(told, k) /\ EndsOwn(told, k)
  BY <1>2, FarewellTells
<1>4. past'.switched = past.switched /\ past'.cut = past.cut \cup Unfinished(k)
  BY DEF Exit, Typed, PastType
<1>5. UNCHANGED <<reply, output>>
  BY DEF Exit
<1> QED
  BY <1>1, <1>2, <1>3, <1>4, <1>5, EndedReply

LEMMA StartSessionReply ==
  ASSUME Typed, Typed', Placed, NEW t \in Turns, Fine(t), StartSession PROVE Fine(t)'
<1> DEFINE k == commands.work.thread
           start == Event("session.started", k, 0, 0)
<1>1. k \in Threads /\ 0 \in 0 .. MaxTurns
  BY WorkAtHand, TurnAssumption DEF StartSession
<1>2. /\ Fewer /\ \A x \in Unfinished(k) : ~Given(x)'
      /\ \A x : Given(x) => Given(x)' \/ x \in Unfinished(k)
  BY StartSessionPlaced
<1>3. UNCHANGED <<reply, output>>
  BY DEF StartSession
<1>4. past'.switched = past.switched /\ past'.cut = past.cut \cup Unfinished(k)
  <2>1. past \in PastType
    BY DEF Typed
  <2>2. \E told : past' = [past EXCEPT !.told = told, !.cut = @ \cup Unfinished(k)]
    <3>1. CASE past' = [past EXCEPT !.cut = @ \cup Unfinished(k)]
      <4>1. past' = [past EXCEPT !.told = past.told, !.cut = @ \cup Unfinished(k)]
        BY <2>1, <3>1 DEF PastType
      <4> QED
        BY <4>1
    <3>2. CASE past' = [past EXCEPT !.told = @ \cup ({commands.work.turn} \ {0}),
                                    !.cut = @ \cup Unfinished(k)]
      BY <3>2
    <3> QED
      BY <3>1, <3>2 DEF StartSession
  <2> QED
    BY <2>1, <2>2 DEF PastType
<1>5. Tells(<<start>>, k) /\ EndsOwn(<<start>>, k)
  BY <1>1, TellsOne DEF Lifecycle
<1>6. PICK told \in Farewell(k) : Tell(told \o <<start>>) \/ Tell(told)
  BY DEF StartSession
<1> HIDE DEF k, start
<1>7. Tells(told, k) /\ EndsOwn(told, k)
  BY <1>1, <1>6, FarewellTells
<1>8. Tells(told \o <<start>>, k) /\ EndsOwn(told \o <<start>>, k)
  BY <1>5, <1>7, TellsJoined
<1>9. PICK es : Tells(es, k) /\ EndsOwn(es, k) /\ Tell(es)
  BY <1>6, <1>7, <1>8
<1> QED
  BY <1>1, <1>2, <1>3, <1>4, <1>9, EndedReply

LEMMA TakeStopReply ==
  ASSUME Typed, Typed', Placed, NEW t \in Turns, Fine(t), TakeStop PROVE Fine(t)'
<1>1. Fewer /\ UNCHANGED <<reply, output>> /\ past \in PastType
  BY TakeStopPlaced DEF TakeStop, Typed
<1>2. CASE UNCHANGED <<provider, ingestion>>
  <2>1. PICK k \in Threads : k = Asked.thread
    BY AskedIsGood DEF TakeStop
  <2>2. past.switched \subseteq past'.switched /\ past.cut \subseteq past'.cut
    <3>1. \/ \E s : past' = [past EXCEPT !.ignored = s]
          \/ past' = past
          \/ past' = [past EXCEPT !.cut = @ \cup Unfinished(k)]
      BY <2>1 DEF TakeStop, StopSession
    <3> QED
      BY <1>1, <3>1 DEF PastType
  <2>3. Stream' = Stream
    BY <1>2 DEF Stream, Calm
  <2> QED
    BY <1>1, <1>2, <2>2, <2>3, QuietReply
<1>3. ASSUME NEW k \in Threads, StopSession(k),
             \A x \in Unfinished(k) : ~Given(x)',
             \A x : Given(x) => Given(x)' \/ x \in Unfinished(k)
      PROVE  Fine(t)'
  <2>1. PICK told \in Farewell(k) : Tell(told)
    BY <1>3 DEF StopSession
  <2>2. Tells(told, k) /\ EndsOwn(told, k)
    BY <2>1, FarewellTells
  <2>3. past'.switched = past.switched /\ past'.cut = past.cut \cup Unfinished(k)
    BY <1>1, <1>3 DEF StopSession, PastType
  <2> QED
    BY <1>1, <1>3, <2>1, <2>2, <2>3, EndedReply
<1> QED
  BY <1>2, <1>3, TakeStopPlaced

LEMMA RecoveryTells ==
  ASSUME NEW k \in Threads
  PROVE  /\ Tells(Recovery(k), k)
         /\ \A i \in 1 .. Len(Recovery(k)) : /\ Recovery(k)[i].type # "turn.completed"
                                             /\ Recovery(k)[i].type # "session.exited"
<1> DEFINE start == Event("session.started", k, 0, 0)
<1>1. 0 \in 0 .. MaxTurns
  BY TurnAssumption
<1>2. Tells(<<start>>, k)
  BY <1>1, TellsOne DEF Lifecycle
<1>3. start.type = "session.started"
  BY DEF Event
<1>4. Recovery(k) = <<>> \/ Recovery(k) = <<start>>
  BY DEF Recovery
<1> HIDE DEF start
<1>5. CASE Recovery(k) = <<>>
  BY <1>5, TellsNone
<1>6. CASE Recovery(k) = <<start>>
  <2> DEFINE r == Recovery(k)
  <2>1. Tells(r, k) /\ Len(r) = 1 /\ r[1] = start
    BY <1>2, <1>6
  <2> HIDE DEF r
  <2>2. \A i \in 1 .. Len(r) : i = 1
    BY <2>1
  <2>3. \A i \in 1 .. Len(r) : r[i].type # "turn.completed" /\ r[i].type # "session.exited"
    BY <1>3, <2>1, <2>2
  <2> QED
    BY <2>1, <2>3 DEF r
<1> QED
  BY <1>4, <1>5, <1>6

LEMMA StartedTells ==
  ASSUME NEW k \in Threads, NEW p, NEW t \in 0 .. MaxTurns
  PROVE  /\ Tells(TurnStarted(p, k, t), k)
         /\ \A i \in 1 .. Len(TurnStarted(p, k, t)) : /\ TurnStarted(p, k, t)[i].type # "turn.completed"
                                                      /\ TurnStarted(p, k, t)[i].type # "session.exited"
<1> DEFINE began == Event("turn.started", k, t, 0)
           r == TurnStarted(p, k, t)
<1>1. Tells(<<began>>, k)
  BY TellsOne DEF Lifecycle
<1>2. began.type = "turn.started"
  BY DEF Event
<1>3. r = <<>> \/ r = <<began>>
  BY DEF TurnStarted
<1> HIDE DEF began, r
<1>4. CASE r = <<>>
  BY <1>4, TellsNone DEF r
<1>5. CASE r = <<began>>
  <2>1. Tells(r, k) /\ Len(r) = 1 /\ r[1] = began
    BY <1>1, <1>5
  <2>2. \A i \in 1 .. Len(r) : i = 1
    BY <2>1
  <2>3. \A i \in 1 .. Len(r) : r[i].type # "turn.completed" /\ r[i].type # "session.exited"
    BY <1>2, <2>1, <2>2
  <2> QED
    BY <2>1, <2>3 DEF r
<1> QED
  BY <1>3, <1>4, <1>5

LEMMA TakeInterruptReply ==
  ASSUME Typed, Typed', Placed, NEW t \in Turns, Fine(t), TakeInterrupt PROVE Fine(t)'
<1>1. Fewer /\ UNCHANGED <<owner, reply, output, past>>
  BY TakeInterruptPlaced DEF TakeInterrupt
<1>2. CASE UNCHANGED <<provider, ingestion>>
  <2>1. Stream' = Stream
    BY <1>2 DEF Stream, Calm
  <2> QED
    BY <1>1, <1>2, <2>1, QuietReply
<1>3. ASSUME NEW k \in Threads, provider[k].turn # 0, TurnEnds(k) PROVE Fine(t)'
  BY <1>1, <1>3, TurnEndsReply
<1>4. ASSUME NEW k \in Threads, Tell(Recovery(k)), \A x : Given(x)' <=> Given(x) PROVE Fine(t)'
  BY <1>1, <1>4, FewerWait, RecoveryTells, BegunReply
<1> QED
  BY <1>2, <1>3, <1>4, TakeInterruptPlaced

LEMMA SendReply ==
  ASSUME Typed, Typed', Placed, NEW t \in Turns, Fine(t), Send PROVE Fine(t)'
<1> DEFINE k == commands.work.thread
           x == commands.work.turn
           es == Recovery(k) \o TurnStarted(Routed(k), k, x)
<1>1. k \in Threads /\ x \in 0 .. MaxTurns
  BY WorkAtHand DEF Send
<1>2. /\ owner' = owner /\ Requested' \subseteq Requested /\ x \in Requested
      /\ \A y : Given(y) => Given(y)'
      /\ \A y : Given(y)' => Given(y) \/ y = x
      /\ \A y : Queued(y)' => Queued(y) \/ y = x
      /\ UNCHANGED <<provider, ingestion>> \/ Tell(es)
  BY SendPlaced
<1>3. UNCHANGED <<reply, output>> /\ past'.switched = past.switched /\ past'.cut = past.cut
  <2>1. past \in PastType /\ UNCHANGED <<reply, output>>
    BY DEF Typed, Send
  <2>2. \/ \E s : past' = [past EXCEPT !.sent = s]
        \/ \E s : past' = [past EXCEPT !.told = s]
        \/ GivesBack(k, x)
    BY DEF Send, Fails
  <2> QED
    BY <2>1, <2>2, GivesBackOf DEF PastType
<1>4. Recovery(k) \o TurnStarted(Routed(k), k, x) = es
  OBVIOUS
<1> HIDE DEF k, x, es
<1>5. (Gone(t) => Gone(t)') /\ (Waits(t)' => Waits(t)) /\ (Given(t) => Given(t)')
  BY <1>2 DEF Gone, Waits
<1>6. CASE Tell(es)
  <2>1. /\ Tells(es, k)
        /\ \A i \in 1 .. Len(es) : es[i].type # "turn.completed" /\ es[i].type # "session.exited"
    <3> DEFINE a == Recovery(k)
               b == TurnStarted(Routed(k), k, x)
    <3>1. Tells(a, k) /\ \A i \in 1 .. Len(a) : a[i].type # "turn.completed" /\ a[i].type # "session.exited"
      BY <1>1, RecoveryTells
    <3>2. Tells(b, k) /\ \A i \in 1 .. Len(b) : b[i].type # "turn.completed" /\ b[i].type # "session.exited"
      BY <1>1, StartedTells
    <3>3. es = a \o b
      BY <1>4
    <3> HIDE DEF a, b
    <3> QED
      BY <3>1, <3>2, <3>3, TellsJoined
  <2> QED
    BY <1>2, <1>3, <1>5, <1>6, <2>1, BegunReply
<1>7. CASE UNCHANGED <<provider, ingestion>>
  <2> DEFINE none == <<>>
  <2>1. Tells(none, k) /\ \A i \in 1 .. Len(none) : FALSE
    BY TellsNone
  <2>2. Tell(none)
    <3>1. ingestion \in IngestionType
      BY DEF Typed
    <3>2. ingestion.runtime \o none = ingestion.runtime
      BY StreamIsSeq, ConcatEmptySeq
    <3> HIDE DEF none
    <3> QED
      BY <1>7, <3>1, <3>2 DEF Tell, IngestionType
  <2> HIDE DEF none
  <2> QED
    BY <1>2, <1>3, <1>5, <2>1, <2>2, BegunReply
<1> QED
  BY <1>2, <1>6, <1>7

LEMMA RemarkReply ==
  ASSUME Typed, Typed', Placed, NEW t \in Turns, Fine(t), NEW k \in Threads, Remark(k) PROVE Fine(t)'
<1>1. UNCHANGED <<owner, shown, reply, commands, bound, provider, output>>
  BY DEF Remark
<1>2. past'.switched = past.switched /\ past'.cut = past.cut
  BY RemarkTells
<1>3. PICK e \in GoodEvent : Tell(<<e>>) /\ e.type \in Noted /\ e.thread = k
  BY RemarkTells
<1> DEFINE es == <<e>>
<1>4. es \in Seq(GoodEvent) /\ Tell(es) /\ \A i \in 1 .. Len(es) : es[i] = e
  BY <1>3, OneIsSeq
<1> HIDE DEF es
<1>5. /\ Tells(es, k)
      /\ \A i \in 1 .. Len(es) : es[i].type # "turn.completed" /\ es[i].type # "session.exited"
  BY <1>3, <1>4 DEF Tells, Noted, Lifecycle
<1>6. Fewer
  BY <1>1, StaysPlaced
<1>7. Given(t) => Given(t)'
  BY <1>1 DEF Given, Unfinished
<1> QED
  BY <1>1, <1>2, <1>4, <1>5, <1>6, <1>7, FewerWait, BegunReply

---------------------------------------------------------------------------
(* Steps of the ingestion.                                                 *)

StreamFacts ==
    Typed =>
        /\ Stream \in Seq(GoodEvent)
        /\ Calm => Stream = ingestion.runtime
        /\ ~Calm => /\ Stream # <<>> /\ Stream[1] = ingestion.reading[1]
                    /\ Tail(Stream) = ingestion.runtime

LEMMA StreamNow == StreamFacts
  BY StreamIsSeq DEF StreamFacts

LEMMA StreamNext == StreamFacts'
  BY StreamNow, PTL

LEMMA SameParts ==
  ASSUME NEW s \in Seq(GoodEvent), NEW r \in Seq(GoodEvent), s # <<>>, r # <<>>,
         s[1] = r[1], Tail(s) = Tail(r)
  PROVE  s = r
<1>1. /\ Len(s) \in Nat /\ Len(r) \in Nat /\ Len(s) > 0 /\ Len(r) > 0
      /\ Len(Tail(s)) = Len(s) - 1 /\ Len(Tail(r)) = Len(r) - 1
      /\ \A i \in 1 .. Len(s) : i # 1 => Tail(s)[i - 1] = s[i]
      /\ \A i \in 1 .. Len(r) : i # 1 => Tail(r)[i - 1] = r[i]
  BY Shifted
<1>2. Len(s) = Len(r)
  <2>1. Len(s) - 1 = Len(r) - 1
    BY <1>1
  <2>2. \A a, b \in Nat : a - 1 = b - 1 => a = b
    OBVIOUS
  <2> QED
    BY <1>1, <2>1, <2>2, Zenon
<1>3. \A i \in 1 .. Len(s) : s[i] = r[i]
  BY <1>1, <1>2
<1> QED
  BY <1>2, <1>3, SeqEqual

\* An event that is read and not applied is still the first.
LEMMA ReadParts ==
  ASSUME Typed, Typed', ReadLifecycle
  PROVE  LET e == Head(ingestion.runtime) IN
         /\ Stream' = Stream /\ Calm /\ ~Calm' /\ Stream # <<>> /\ Stream[1] = e
         /\ ingestion'.reading[1] = e /\ ingestion'.reading[2] = shown[e.thread].active
<1> DEFINE e == Head(ingestion.runtime)
           a == shown[e.thread].active
<1>1. Calm /\ ingestion.runtime # <<>>
  BY DEF ReadLifecycle
<1>2. /\ ingestion'.runtime = Tail(ingestion.runtime) /\ ingestion'.reading[1] = e
      /\ ingestion'.reading[2] = a /\ ingestion'.reading # <<>>
  <2>1. /\ ingestion \in IngestionType
        /\ ingestion' = [ingestion EXCEPT !.runtime = Tail(@), !.reading = <<e, a>>]
    BY DEF Typed, ReadLifecycle
  <2> HIDE DEF e, a
  <2> QED
    BY <2>1 DEF IngestionType
<1>3. Stream = ingestion.runtime /\ Stream \in Seq(GoodEvent) /\ Stream # <<>> /\ Stream[1] = e
  <2>1. Stream = ingestion.runtime /\ Stream \in Seq(GoodEvent)
    BY <1>1, StreamIsSeq
  <2> QED
    BY <1>1, <2>1, Shifted
<1>4. /\ Stream' \in Seq(GoodEvent) /\ Stream' # <<>> /\ Stream'[1] = e
      /\ Tail(Stream') = Tail(ingestion.runtime)
  BY <1>2, StreamNext DEF StreamFacts, Calm
<1>5. Stream' = Stream
  BY <1>3, <1>4, SameParts
<1> QED
  BY <1>1, <1>2, <1>3, <1>5 DEF Calm

LEMMA ReadLifecycleReply ==
  ASSUME Typed, Typed', Placed, NEW t \in Turns, Fine(t), ReadLifecycle PROVE Fine(t)'
<1> DEFINE e == Head(ingestion.runtime)
<1>1. UNCHANGED <<owner, commands, provider, reply, output, past>> /\ Calm /\ ingestion.runtime # <<>>
  BY DEF ReadLifecycle
<1>2. /\ ingestion'.runtime = Tail(ingestion.runtime) /\ ingestion'.reading[1] = e
      /\ ingestion'.reading # <<>>
      /\ ingestion'.buffer = ingestion.buffer /\ ingestion'.open = ingestion.open
      /\ ingestion'.mode = ingestion.mode
  <2>1. /\ ingestion \in IngestionType
        /\ ingestion' = [ingestion EXCEPT !.runtime = Tail(@), !.reading = <<e, shown[e.thread].active>>]
    BY DEF Typed, ReadLifecycle
  <2> HIDE DEF e
  <2> QED
    BY <2>1 DEF IngestionType
<1>3. Stream' = Stream
  BY ReadParts
<1>4. Fewer
  BY <1>1, StaysPlaced
<1> QED
  BY <1>1, <1>2, <1>3, <1>4, QuietReply

\* The first event of the stream is worked off.
LEMMA WorkedOff ==
  ASSUME Typed, Typed', ingestion'.reading = <<>>,
         \/ ~Calm /\ ingestion'.runtime = ingestion.runtime
         \/ Calm /\ ingestion.runtime # <<>> /\ ingestion'.runtime = Tail(ingestion.runtime)
  PROVE  /\ Stream # <<>> /\ Stream' = Tail(Stream)
         /\ Stream[1] = IF Calm THEN Head(ingestion.runtime) ELSE ingestion.reading[1]
<1>1. Stream' = ingestion'.runtime
  BY StreamNext DEF StreamFacts, Calm
<1>2. CASE ~Calm
  BY <1>1, <1>2, StreamIsSeq
<1>3. CASE Calm
  <2>1. Stream = ingestion.runtime /\ Stream \in Seq(GoodEvent) /\ Stream # <<>>
    BY <1>3, StreamIsSeq
  <2>2. Head(Stream) = Stream[1]
    BY <2>1, Shifted
  <2> QED
    BY <1>1, <1>3, <2>1, <2>2
<1> QED
  BY <1>2, <1>3

LEMMA IngestionStays ==
  ASSUME Typed, UNCHANGED <<owner, commands, provider, output, past>>, NEW t
  PROVE  Stays(t)
  BY DEF Stays, Gone, Waits, Given, Queued, Requested, Unfinished

\* What completes the message of x.
LEMMA CompleteSays ==
  ASSUME Typed, NEW i \in IngestionType, i.buffer = ingestion.buffer, i.open = ingestion.open,
         i.mode = ingestion.mode, NEW x \in Turns, NEW w, Complete(i, x, w)
  PROVE  /\ ingestion'.runtime = i.runtime /\ ingestion'.reading = i.reading
         /\ ingestion'.mode = ingestion.mode
         /\ ingestion'.open = ingestion.open \ {x}
         /\ ingestion'.buffer = [ingestion.buffer EXCEPT ![x] = <<>>]
         /\ ingestion'.buffer[x] = <<>>
         /\ reply'[x].complete
         /\ reply'[x].text = reply[x].text \o (IF ingestion.buffer[x] # <<>> THEN ingestion.buffer[x]
                                               ELSE IF reply[x].text = <<>> THEN Whole(w) ELSE <<>>)
         /\ \A t \in Turns : t # x => reply'[t] = reply[t] /\ ingestion'.buffer[t] = ingestion.buffer[t]
<1> DEFINE b == [ingestion.buffer EXCEPT ![x] = <<>>]
           o == ingestion.open \ {x}
           more == IF ingestion.buffer[x] # <<>> THEN ingestion.buffer[x]
                   ELSE IF reply[x].text = <<>> THEN Whole(w) ELSE <<>>
           text == reply[x].text \o more
<1>1. reply \in [Turns -> [text : Text, complete : BOOLEAN]] /\ DOMAIN ingestion.buffer = Turns
  BY DEF Typed, ReplyType, IngestionType
<1>2. /\ reply' = [reply EXCEPT ![x] = [text |-> text, complete |-> TRUE]]
      /\ ingestion' = [i EXCEPT !.open = o, !.buffer = b]
  BY DEF Complete
<1>3. b[x] = <<>> /\ \A t \in Turns : t # x => b[t] = ingestion.buffer[t]
  BY <1>1
<1> HIDE DEF b, o, text, more
<1>4. /\ ingestion'.runtime = i.runtime /\ ingestion'.reading = i.reading
      /\ ingestion'.mode = ingestion.mode /\ ingestion'.open = o /\ ingestion'.buffer = b
  BY <1>2 DEF IngestionType
<1>5. /\ reply'[x].complete /\ reply'[x].text = text
      /\ \A t \in Turns : t # x => reply'[t] = reply[t]
  BY <1>1, <1>2
<1> QED
  BY <1>3, <1>4, <1>5 DEF b, o, text, more

LEMMA TakeItemReply ==
  ASSUME Typed, Typed', Placed, NEW t \in Turns, Fine(t), TakeItem PROVE Fine(t)'
<1> DEFINE e == Head(ingestion.runtime)
           i == [ingestion EXCEPT !.runtime = Tail(@)]
<1>1. e \in GoodEvent /\ Tail(ingestion.runtime) \in Seq(GoodEvent) /\ e.type = "item.completed"
  BY NextEvent DEF TakeItem
<1>2. e.turn \in Turns /\ e.piece \in 0 .. MaxPieces
  BY <1>1 DEF GoodEvent, RuntimeEvent
<1>3. /\ i \in IngestionType /\ i.buffer = ingestion.buffer /\ i.open = ingestion.open
      /\ i.mode = ingestion.mode /\ i.runtime = Tail(ingestion.runtime) /\ i.reading = ingestion.reading
  <2>1. ingestion \in IngestionType
    BY DEF Typed
  <2> QED
    BY <1>1, <2>1 DEF IngestionType
<1>4. Complete(i, e.turn, e.piece) /\ Calm /\ ingestion.runtime # <<>>
      /\ UNCHANGED <<owner, commands, provider, output, past>>
  BY DEF TakeItem
<1> HIDE DEF i
<1>5. /\ ingestion'.runtime = Tail(ingestion.runtime) /\ ingestion'.reading = <<>>
      /\ ingestion'.mode = ingestion.mode
      /\ ingestion'.open = ingestion.open \ {e.turn}
      /\ ingestion'.buffer[e.turn] = <<>>
      /\ reply'[e.turn].complete
      /\ reply'[e.turn].text =
            reply[e.turn].text \o (IF ingestion.buffer[e.turn] # <<>> THEN ingestion.buffer[e.turn]
                                   ELSE IF reply[e.turn].text = <<>> THEN Whole(e.piece) ELSE <<>>)
      /\ \A x \in Turns : x # e.turn => reply'[x] = reply[x] /\ ingestion'.buffer[x] = ingestion.buffer[x]
  BY <1>2, <1>3, <1>4, CompleteSays DEF Calm
<1>6. Stream # <<>> /\ Stream' = Tail(Stream) /\ Stream[1] = e
  BY <1>4, <1>5, WorkedOff
<1>7. Stays(t) /\ past' = past
  BY <1>4, IngestionStays
<1> HIDE DEF e
<1>8. CASE t = e.turn
  <2>1. IsItem(Stream[1], t) /\ e.piece = Stream[1].piece
    BY <1>1, <1>6, <1>8 DEF IsItem
  <2> QED
    BY <1>2, <1>5, <1>6, <1>7, <1>8, <2>1, CompletedReply
<1>9. CASE t # e.turn
  <2>1. ~Speaks(Stream[1], t) /\ ~IsEnd(Stream[1], t)
    BY <1>6, <1>9 DEF Speaks, IsDelta, IsItem, IsEnd
  <2> QED
    BY <1>5, <1>6, <1>7, <1>9, <2>1, PassedReply
<1> QED
  BY <1>8, <1>9

LEMMA TakeDeltaReply ==
  ASSUME Typed, Typed', Placed, NEW t \in Turns, Fine(t), TakeDelta PROVE Fine(t)'
<1> DEFINE e == Head(ingestion.runtime)
           x == e.turn
           p == e.piece
           taken == [ingestion EXCEPT !.runtime = Tail(@), !.open = @ \cup {x}]
           text == Append(ingestion.buffer[x], p)
<1>1. e \in GoodEvent /\ Tail(ingestion.runtime) \in Seq(GoodEvent) /\ e.type = "content.delta"
  BY NextEvent DEF TakeDelta
<1>2. x \in Turns /\ p \in 1 .. MaxPieces
  BY <1>1 DEF GoodEvent
<1>3. /\ reply \in [Turns -> [text : Text, complete : BOOLEAN]] /\ DOMAIN ingestion.buffer = Turns
      /\ ingestion \in IngestionType
  BY DEF Typed, ReplyType, IngestionType
<1>4. /\ Calm /\ ingestion.runtime # <<>> /\ UNCHANGED <<owner, commands, provider, output, past>>
  BY DEF TakeDelta
<1>5. \/ /\ ingestion.mode = "streaming"
         /\ reply' = [reply EXCEPT ![x] = [text |-> Append(@.text, p), complete |-> FALSE]]
         /\ ingestion' = taken
      \/ /\ ingestion.mode = "buffered"
         /\ ingestion' = [taken EXCEPT !.buffer = [@ EXCEPT ![x] = text]]
         /\ reply' = reply
      \/ /\ ingestion.mode = "buffered"
         /\ reply' = [reply EXCEPT ![x] = [text |-> @.text \o text, complete |-> FALSE]]
         /\ ingestion' = [taken EXCEPT !.buffer = [@ EXCEPT ![x] = <<>>]]
  BY DEF TakeDelta
<1>6. /\ taken.runtime = Tail(ingestion.runtime) /\ taken.reading = ingestion.reading
      /\ taken.mode = ingestion.mode /\ taken.open = ingestion.open \cup {x}
      /\ taken.buffer = ingestion.buffer /\ taken \in IngestionType
  <2> HIDE DEF x
  <2> QED
    BY <1>1, <1>2, <1>3 DEF IngestionType
<1>7. Append(ingestion.buffer[x], p) = text
  OBVIOUS
<1> HIDE DEF e, x, p, taken, text
<1>8. /\ ingestion'.runtime = Tail(ingestion.runtime) /\ ingestion'.reading = <<>>
      /\ ingestion'.mode = ingestion.mode /\ ingestion'.open = ingestion.open \cup {x}
      /\ \A y \in Turns : y # x => reply'[y] = reply[y] /\ ingestion'.buffer[y] = ingestion.buffer[y]
      /\ \/ /\ reply'[x].text = Append(reply[x].text, p) /\ ~reply'[x].complete
            /\ ingestion'.buffer[x] = ingestion.buffer[x] /\ ingestion.mode = "streaming"
         \/ /\ reply'[x] = reply[x]
            /\ ingestion'.buffer[x] = text /\ ingestion.mode = "buffered"
         \/ /\ reply'[x].text = reply[x].text \o text /\ ~reply'[x].complete
            /\ ingestion'.buffer[x] = <<>> /\ ingestion.mode = "buffered"
  <2>1. CASE /\ ingestion.mode = "streaming"
             /\ reply' = [reply EXCEPT ![x] = [text |-> Append(@.text, p), complete |-> FALSE]]
             /\ ingestion' = taken
    <3>1. /\ reply'[x].text = Append(reply[x].text, p) /\ ~reply'[x].complete
          /\ \A y \in Turns : y # x => reply'[y] = reply[y]
      BY <1>2, <1>3, <2>1
    <3> QED
      BY <1>4, <1>6, <2>1, <3>1 DEF Calm
  <2>2. CASE /\ ingestion.mode = "buffered"
             /\ ingestion' = [taken EXCEPT !.buffer = [@ EXCEPT ![x] = text]]
             /\ reply' = reply
    <3> DEFINE b == [ingestion.buffer EXCEPT ![x] = text]
    <3>1. b[x] = text /\ \A y \in Turns : y # x => b[y] = ingestion.buffer[y]
      BY <1>2, <1>3
    <3>2. ingestion' = [taken EXCEPT !.buffer = b]
      BY <1>6, <2>2
    <3> HIDE DEF b
    <3>3. /\ ingestion'.runtime = taken.runtime /\ ingestion'.reading = taken.reading
          /\ ingestion'.mode = taken.mode /\ ingestion'.open = taken.open /\ ingestion'.buffer = b
      BY <1>6, <3>2 DEF IngestionType
    <3> QED
      BY <1>4, <1>6, <2>2, <3>1, <3>3 DEF Calm
  <2>3. CASE /\ ingestion.mode = "buffered"
             /\ reply' = [reply EXCEPT ![x] = [text |-> @.text \o text, complete |-> FALSE]]
             /\ ingestion' = [taken EXCEPT !.buffer = [@ EXCEPT ![x] = <<>>]]
    <3> DEFINE b == [ingestion.buffer EXCEPT ![x] = <<>>]
    <3>1. b[x] = <<>> /\ \A y \in Turns : y # x => b[y] = ingestion.buffer[y]
      BY <1>2, <1>3
    <3>2. ingestion' = [taken EXCEPT !.buffer = b]
      BY <1>6, <2>3
    <3> HIDE DEF b
    <3>3. /\ ingestion'.runtime = taken.runtime /\ ingestion'.reading = taken.reading
          /\ ingestion'.mode = taken.mode /\ ingestion'.open = taken.open /\ ingestion'.buffer = b
      BY <1>6, <3>2 DEF IngestionType
    <3>4. /\ reply'[x].text = reply[x].text \o text /\ ~reply'[x].complete
          /\ \A y \in Turns : y # x => reply'[y] = reply[y]
      BY <1>2, <1>3, <2>3
    <3> QED
      BY <1>4, <1>6, <2>3, <3>1, <3>3, <3>4 DEF Calm
  <2> QED
    BY <1>5, <2>1, <2>2, <2>3
<1>9. Stream # <<>> /\ Stream' = Tail(Stream) /\ Stream[1] = e
  BY <1>4, <1>8, WorkedOff DEF e
<1>10. Stays(t) /\ past' = past
  BY <1>4, IngestionStays
<1>11. CASE t = x
  <2>1. IsDelta(Stream[1], t) /\ p = Stream[1].piece
    BY <1>1, <1>9, <1>11 DEF IsDelta, x, p
  <2> QED
    BY <1>2, <1>7, <1>8, <1>9, <1>10, <1>11, <2>1, DeltaReply
<1>12. CASE t # x
  <2>1. ~Speaks(Stream[1], t) /\ ~IsEnd(Stream[1], t)
    BY <1>9, <1>12 DEF Speaks, IsDelta, IsItem, IsEnd, x
  <2> QED
    BY <1>8, <1>9, <1>10, <1>12, <2>1, PassedReply
<1> QED
  BY <1>11, <1>12

LEMMA ApplyLifecycleReply ==
  ASSUME Typed, Typed', Placed, NEW t \in Turns, Fine(t), ApplyLifecycle PROVE Fine(t)'
<1> DEFINE e == ingestion.reading[1]
           active == ingestion.reading[2]
           done == [ingestion EXCEPT !.reading = <<>>]
<1>1. ~Calm /\ UNCHANGED <<owner, commands, provider, output, past>>
  BY DEF ApplyLifecycle
<1>2. e.type \in Lifecycle /\ e.turn \in 0 .. MaxTurns /\ e.thread \in Threads
  BY <1>1, ReadingOf
<1>3. /\ done \in IngestionType /\ done.buffer = ingestion.buffer /\ done.open = ingestion.open
      /\ done.mode = ingestion.mode /\ done.runtime = ingestion.runtime /\ done.reading = <<>>
  BY DEF Typed, IngestionType
<1>4. \/ Closes(e, active) /\ Complete(done, e.turn, 0)
      \/ ~Closes(e, active) /\ e.type = "session.exited" /\ ingestion' = Cleared(done, e.thread) /\ reply' = reply
      \/ ~Closes(e, active) /\ e.type # "session.exited" /\ ingestion' = done /\ reply' = reply
  BY DEF ApplyLifecycle
<1>5. Stays(t) /\ past' = past
  BY <1>1, IngestionStays
<1> HIDE DEF e, active, done
<1>6. ASSUME ingestion'.runtime = ingestion.runtime, ingestion'.reading = <<>>
      PROVE  Stream # <<>> /\ Stream' = Tail(Stream) /\ Stream[1] = e /\ ~Speaks(Stream[1], t)
  <2>1. Stream # <<>> /\ Stream' = Tail(Stream) /\ Stream[1] = e
    BY <1>1, <1>6, WorkedOff DEF e
  <2> QED
    BY <1>2, <2>1 DEF Speaks, IsDelta, IsItem, Lifecycle
<1>7. CASE Closes(e, active) /\ Complete(done, e.turn, 0)
  <2>1. e.turn \in Turns /\ e.type = "turn.completed" /\ e.turn \in ingestion.open
    BY <1>7 DEF Closes, Typed, IngestionType
  <2>2. /\ ingestion'.runtime = ingestion.runtime /\ ingestion'.reading = <<>>
        /\ ingestion'.mode = ingestion.mode
        /\ ingestion'.open = ingestion.open \ {e.turn}
        /\ ingestion'.buffer[e.turn] = <<>>
        /\ reply'[e.turn].complete
        /\ reply'[e.turn].text =
              reply[e.turn].text \o (IF ingestion.buffer[e.turn] # <<>> THEN ingestion.buffer[e.turn]
                                     ELSE IF reply[e.turn].text = <<>> THEN Whole(0) ELSE <<>>)
        /\ \A x \in Turns : x # e.turn => reply'[x] = reply[x] /\ ingestion'.buffer[x] = ingestion.buffer[x]
    BY <1>3, <1>7, <2>1, CompleteSays
  <2>3. Stream # <<>> /\ Stream' = Tail(Stream) /\ Stream[1] = e /\ ~Speaks(Stream[1], t)
    BY <1>6, <2>2
  <2>4. CASE t = e.turn
    <3>1. IsEnd(Stream[1], t) /\ t \in ingestion.open /\ 0 \in 0 .. MaxPieces
      BY <2>1, <2>3, <2>4, TurnAssumption DEF IsEnd
    <3> QED
      BY <1>5, <2>2, <2>3, <2>4, <3>1, CompletedReply
  <2>5. CASE t # e.turn
    <3>1. ~IsEnd(Stream[1], t)
      BY <2>3, <2>5 DEF IsEnd
    <3> QED
      BY <1>5, <2>2, <2>3, <2>5, <3>1, PassedReply
  <2> QED
    BY <2>4, <2>5
<1>8. CASE /\ ~Closes(e, active) /\ e.type = "session.exited"
           /\ ingestion' = Cleared(done, e.thread) /\ reply' = reply
  <2> DEFINE b == [x \in Turns |-> IF x \in done.open \cap Of(e.thread) THEN <<>> ELSE done.buffer[x]]
             o == done.open \ Of(e.thread)
  <2>1. ingestion' = [done EXCEPT !.open = o, !.buffer = b]
    BY <1>8 DEF Cleared
  <2>2. /\ t \in ingestion.open /\ owner[t] = e.thread => t \notin o
        /\ ~(t \in ingestion.open /\ owner[t] = e.thread) =>
              (t \in o <=> t \in ingestion.open) /\ b[t] = ingestion.buffer[t]
    BY <1>3 DEF Of
  <2> HIDE DEF b, o
  <2>3. /\ ingestion'.runtime = ingestion.runtime /\ ingestion'.reading = <<>>
        /\ ingestion'.mode = ingestion.mode /\ ingestion'.open = o /\ ingestion'.buffer = b
    BY <1>3, <2>1 DEF IngestionType
  <2>4. Stream # <<>> /\ Stream' = Tail(Stream) /\ Stream[1] = e /\ ~Speaks(Stream[1], t)
    BY <1>6, <2>3
  <2>5. CASE t \in ingestion.open /\ owner[t] = e.thread
    <3>1. IsExit(Stream[1], owner[t]) /\ t \notin ingestion'.open
      BY <1>8, <2>2, <2>3, <2>4, <2>5 DEF IsExit
    <3> QED
      BY <1>5, <1>8, <2>4, <2>5, <3>1, ClearedReply
  <2>6. CASE ~(t \in ingestion.open /\ owner[t] = e.thread)
    <3>1. ~IsEnd(Stream[1], t)
      BY <1>8, <2>4 DEF IsEnd
    <3> QED
      BY <1>5, <1>8, <2>2, <2>3, <2>4, <2>6, <3>1, PassedReply
  <2> QED
    BY <2>5, <2>6
<1>9. CASE ~Closes(e, active) /\ e.type # "session.exited" /\ ingestion' = done /\ reply' = reply
  <2>1. Stream # <<>> /\ Stream' = Tail(Stream) /\ Stream[1] = e /\ ~Speaks(Stream[1], t)
    BY <1>3, <1>6, <1>9
  <2>2. IsEnd(Stream[1], t) => t \notin ingestion.open
    BY <1>9, <2>1 DEF IsEnd, Closes
  <2> QED
    BY <1>3, <1>5, <1>9, <2>1, <2>2, PassedReply
<1> QED
  BY <1>4, <1>7, <1>8, <1>9

---------------------------------------------------------------------------
(* The provider speaks; the process dies.                                  *)

\* A turn that runs waits nowhere.
LEMMA RunningWaitsNot ==
  ASSUME Typed, Placed, NEW k \in Threads, provider[k].turn # 0
  PROVE  LET t == provider[k].turn IN
         t \in Turns /\ Given(t) /\ ~Gone(t) /\ ~Waits(t) /\ owner[t] = k
<1> DEFINE t == provider[k].turn
<1>1. t \in Turns /\ t \in Unfinished(k) /\ Given(t)
  BY SessionOf DEF Unfinished, Given
<1>2. owner[t] = k /\ owner[t] # 0 /\ t \notin Requested
  BY <1>1, GivenWhere
<1>3. ~Queued(t)
  <2> SUFFICES ASSUME NEW o \in Threads, NEW i \in 1 .. Len(provider[o].queue), provider[o].queue[i] = t
               PROVE  FALSE
    BY DEF Queued
  <2>1. owner[t] = o /\ t # provider[o].turn
    BY DEF Placed, SessionPlaced
  <2> QED
    BY <1>2, <2>1
<1> QED
  BY <1>1, <1>2, <1>3 DEF Gone, Waits

\* The reply of a running turn grows by e.
LEMMA SpokenReply ==
  ASSUME Typed, Typed', Placed, NEW t \in Turns, Fine(t), Flows(t), Given(t), ~Waits(t),
         UNCHANGED <<owner, reply, commands, provider, past>>, ~output[t].ended,
         NEW e \in GoodEvent, Tell(<<e>>), e.type # "session.exited",
         \/ /\ IsDelta(e, t) /\ e.piece = output[t].pieces + 1
            /\ output'[t].pieces = output[t].pieces + 1 /\ output'[t].ended = FALSE
         \/ /\ IsItem(e, t) /\ e.piece = output'[t].pieces /\ output'[t].ended = TRUE
            /\ output'[t].pieces = output[t].pieces \/ output[t].pieces = 0
  PROVE  Fine(t)'
<1> DEFINE s == Stream
           r == Stream'
           k == owner[t]
           c == Taken(t)
           n == output[t].pieces
           m == output'[t].pieces
           ended == output'[t].ended
           opened == t \in ingestion.open
<1>1. s \in Seq(GoodEvent) /\ c \in Nat /\ n \in Nat /\ output[t].ended = FALSE
  BY StreamIsSeq, ReplyParts
<1>2. m \in Nat
  <2>1. output'[t] \in [pieces : 0 .. MaxPieces, ended : BOOLEAN] /\ MaxPieces \in Nat
    BY TurnAssumption DEF Typed, OutputType
  <2> QED
    BY <2>1
<1>3. /\ r = s \o <<e>> /\ ingestion'.buffer = ingestion.buffer /\ ingestion'.open = ingestion.open
      /\ ingestion'.mode = ingestion.mode
  BY OneIsSeq, StreamTold
<1>4. /\ Given(t)' /\ ~Waits(t)' /\ ~Gone(t) /\ ~Gone(t)'
  BY DEF Given, Waits, Gone, Unfinished, Queued, Requested
<1>5. /\ Script(s, t, k, c, n, FALSE, opened, FALSE)
      /\ Elements(reply[t].text) \cup Elements(ingestion.buffer[t]) = 1 .. c
      /\ t \notin past.switched => Ordered(t)
      /\ ~reply[t].complete
  <2>1. Flows(t) /\ Gone(t) = FALSE
    BY <1>4 DEF Gone
  <2> QED
    BY <1>1, <2>1 DEF Flows
<1>6. Script(r, t, k, c, m, ended, opened, FALSE)
  <2>1. CASE IsDelta(e, t) /\ e.piece = n + 1 /\ m = n + 1 /\ ended = FALSE
    <3> HIDE DEF s, k, c, n, m, ended, opened, r
    <3>1. Script(s \o <<e>>, t, k, c, n + 1, FALSE, opened, FALSE)
      BY <1>1, <1>5, <2>1, ScriptGrows
    <3> QED
      BY <1>3, <2>1, <3>1
  <2>2. CASE IsItem(e, t) /\ e.piece = m /\ ended = TRUE /\ (m = n \/ n = 0)
    <3> HIDE DEF s, k, c, n, m, ended, opened, r
    <3>1. Script(s \o <<e>>, t, k, c, m, TRUE, opened, FALSE)
      BY <1>1, <1>2, <1>5, <2>2, ScriptCloses
    <3> QED
      BY <1>3, <2>2, <3>1
  <2> QED
    BY <2>1, <2>2
<1>7. r \in Seq(GoodEvent) /\ ~Silent(r, t)
  <2>1. Speaks(e, t)
    BY DEF Speaks
  <2> HIDE DEF s, r
  <2>2. /\ s \o <<e>> \in Seq(GoodEvent) /\ Len(s) + 1 \in 1 .. Len(s \o <<e>>)
        /\ (s \o <<e>>)[Len(s) + 1] = e
    BY <1>1, SpeaksLast
  <2> QED
    BY <1>3, <2>1, <2>2 DEF Silent
<1>8. Flows(t)'
  <2>1. Taken(t)' = c
    BY <1>3 DEF Taken
  <2>2. Script(Stream', t, owner'[t], Taken(t)', output'[t].pieces, output'[t].ended,
               t \in ingestion'.open, Gone(t)')
    <3>1. owner'[t] = k /\ (t \in ingestion'.open) = opened /\ Gone(t)' = FALSE
      BY <1>3, <1>4 DEF Gone
    <3> HIDE DEF k, c, opened
    <3> QED
      BY <1>6, <2>1, <3>1
  <2>3. (Elements(reply[t].text) \cup Elements(ingestion.buffer[t]) = 1 .. Taken(t))'
    BY <1>3, <1>5, <2>1 DEF Elements
  <2>4. t \notin past'.switched => Ordered(t)'
    BY <1>3, <1>5 DEF Ordered
  <2>5. ~reply'[t].complete
    BY <1>5
  <2> QED
    BY <2>2, <2>3, <2>4, <2>5 DEF Flows
<1>9. Closing(t)'
  <2> DEFINE given == Given(t)'
  <2>1. \A i \in 1 .. Len(r) : IsExit(r[i], k) => ~Heard(r, i, t, opened)
    <3> HIDE DEF k, c, m, ended, opened, r
    <3> QED
      BY <1>1, <1>2, <1>6, <1>7, NotEnded
  <2>2. Due(r, t, k, opened, given)
    BY <1>4, <1>7, <2>1 DEF Due
  <2>3. owner'[t] = k /\ (t \in ingestion'.open) = opened
    BY <1>3
  <2>4. Due(Stream, t, owner[t], t \in ingestion.open, Given(t))'
    <3> HIDE DEF k, opened, given
    <3> QED
      BY <2>2, <2>3 DEF given
  <2> QED
    BY <2>4 DEF Closing
<1> QED
  BY <1>4, <1>8, <1>9 DEF Fine

LEMMA SpeakReply ==
  ASSUME Typed, Typed', Placed, NEW t \in Turns, Fine(t), NEW k \in Threads, Speak(k) PROVE Fine(t)'
<1> DEFINE x == provider[k].turn
           n == output[x].pieces
<1>1. x # 0 /\ ~output[x].ended /\ UNCHANGED <<owner, reply, commands, provider, past>>
  BY DEF Speak
<1>2. x \in Turns /\ Given(x) /\ ~Gone(x) /\ ~Waits(x) /\ owner[x] = k
  BY <1>1, RunningWaitsNot
<1>3. n \in 0 .. MaxPieces /\ MaxPieces \in Nat /\ output \in OutputType
  BY <1>2, TurnAssumption DEF Typed, OutputType
<1>4. \/ /\ n < MaxPieces
         /\ output' = [output EXCEPT ![x].pieces = @ + 1]
         /\ Tell(<<Event("content.delta", k, x, n + 1)>>)
      \/ /\ n = 0
         /\ output' = [output EXCEPT ![x] = [pieces |-> MaxPieces, ended |-> TRUE]]
         /\ Tell(<<Event("item.completed", k, x, MaxPieces)>>)
      \/ /\ n > 0
         /\ output' = [output EXCEPT ![x].ended = TRUE]
         /\ Tell(<<Event("item.completed", k, x, n)>>)
  BY DEF Speak
<1>5. PICK e \in GoodEvent :
         /\ Tell(<<e>>) /\ e.type # "session.exited"
         /\ \A y \in Turns : y # x => output'[y] = output[y]
         /\ \/ /\ IsDelta(e, x) /\ e.piece = n + 1
               /\ output'[x].pieces = n + 1 /\ output'[x].ended = FALSE
            \/ /\ IsItem(e, x) /\ e.piece = output'[x].pieces /\ output'[x].ended = TRUE
               /\ output'[x].pieces = n \/ n = 0
  <2>1. CASE /\ n < MaxPieces
             /\ output' = [output EXCEPT ![x].pieces = @ + 1]
             /\ Tell(<<Event("content.delta", k, x, n + 1)>>)
    <3> DEFINE e == Event("content.delta", k, x, n + 1)
    <3>1. n + 1 \in 1 .. MaxPieces
      BY <1>3, <2>1
    <3>2. e \in GoodEvent
      BY <1>2, <3>1, TextEventIsGood
    <3>3. e.type = "content.delta" /\ e.turn = x /\ e.piece = n + 1
      BY DEF Event
    <3>4. output'[x].pieces = n + 1 /\ output'[x].ended = output[x].ended
          /\ \A y \in Turns : y # x => output'[y] = output[y]
      BY <1>2, <1>3, <2>1 DEF OutputType
    <3>5. output[x].ended = FALSE
      BY <1>1, <1>2, ReplyParts
    <3> HIDE DEF e, x, n
    <3>6. Tell(<<e>>)
      BY <2>1 DEF e
    <3> QED
      BY <3>2, <3>3, <3>4, <3>5, <3>6 DEF IsDelta
  <2>2. CASE /\ n = 0
             /\ output' = [output EXCEPT ![x] = [pieces |-> MaxPieces, ended |-> TRUE]]
             /\ Tell(<<Event("item.completed", k, x, MaxPieces)>>)
    <3> DEFINE e == Event("item.completed", k, x, MaxPieces)
    <3>1. e \in GoodEvent
      <4>1. MaxPieces \in 0 .. MaxPieces /\ x \in 0 .. MaxTurns
        BY <1>2, <1>3, TurnAssumption DEF Turns
      <4> QED
        BY <1>2, <4>1 DEF Event, GoodEvent, RuntimeEvent
    <3>2. e.type = "item.completed" /\ e.turn = x /\ e.piece = MaxPieces
      BY DEF Event
    <3>3. output'[x].pieces = MaxPieces /\ output'[x].ended = TRUE
          /\ \A y \in Turns : y # x => output'[y] = output[y]
      BY <1>2, <1>3, <2>2 DEF OutputType
    <3> HIDE DEF e, x, n
    <3>4. Tell(<<e>>)
      BY <2>2 DEF e
    <3> QED
      BY <2>2, <3>1, <3>2, <3>3, <3>4 DEF IsItem
  <2>3. CASE /\ n > 0
             /\ output' = [output EXCEPT ![x].ended = TRUE]
             /\ Tell(<<Event("item.completed", k, x, n)>>)
    <3> DEFINE e == Event("item.completed", k, x, n)
    <3>1. e \in GoodEvent
      <4>1. n \in 1 .. MaxPieces
        BY <1>3, <2>3
      <4> QED
        BY <1>2, <4>1, TextEventIsGood
    <3>2. e.type = "item.completed" /\ e.turn = x /\ e.piece = n
      BY DEF Event
    <3>3. output'[x].pieces = n /\ output'[x].ended = TRUE
          /\ \A y \in Turns : y # x => output'[y] = output[y]
      BY <1>2, <1>3, <2>3 DEF OutputType
    <3> HIDE DEF e, x, n
    <3>4. Tell(<<e>>)
      BY <2>3 DEF e
    <3> QED
      BY <3>1, <3>2, <3>3, <3>4 DEF IsItem
  <2> QED
    BY <1>4, <2>1, <2>2, <2>3
<1> HIDE DEF x
<1>6. CASE t = x
  <2>1. Flows(t)
    BY <1>2, <1>6 DEF Fine, Over
  <2> QED
    BY <1>1, <1>2, <1>5, <1>6, <2>1, SpokenReply
<1>7. CASE t # x
  <2> DEFINE es == <<e>>
  <2>1. es \in Seq(GoodEvent) /\ Len(es) = 1 /\ es[1] = e
    BY OneIsSeq
  <2>2. Tell(es)
    BY <1>5
  <2> HIDE DEF es
  <2>3. \A i \in 1 .. Len(es) : es[i] = e
    <3>1. \A i \in 1 .. Len(es) : i = 1
      BY <2>1
    <3> QED
      BY <2>1, <3>1
  <2>4. ~Speaks(e, t) /\ ~IsEnd(e, t) /\ e.type # "session.exited"
    BY <1>5, <1>7 DEF Speaks, IsDelta, IsItem, IsEnd
  <2>5. Silent(es, t) /\ \A i \in 1 .. Len(es) : ~IsEnd(es[i], t) /\ ~IsExit(es[i], owner[t])
    BY <2>3, <2>4 DEF Silent, IsExit
  <2>6. /\ Stream' = Stream \o es /\ ingestion'.buffer[t] = ingestion.buffer[t]
        /\ ingestion'.open = ingestion.open /\ ingestion'.mode = ingestion.mode
    BY <2>1, <2>2, StreamTold
  <2>7. /\ (Gone(t) => Gone(t)') /\ (Waits(t)' => Waits(t)) /\ (Given(t) => Given(t)')
        /\ owner'[t] = owner[t] /\ reply'[t] = reply[t] /\ past' = past
    BY <1>1 DEF Given, Waits, Gone, Unfinished, Queued, Requested
  <2>8. output'[t] = output[t]
    BY <1>5, <1>7
  <2> QED
    BY <2>1, <2>5, <2>6, <2>7, <2>8, ToldReply
<1> QED
  BY <1>6, <1>7

LEMMA CrashReply ==
  ASSUME Typed, Typed', Placed, NEW t \in Turns, Fine(t), Crash PROVE Fine(t)'
<1>1. owner' = owner /\ Requested' = {} /\ ~Given(t)' /\ ~Queued(t)'
  BY CrashPlaced
<1>2. UNCHANGED <<reply, output>>
  BY DEF Crash
<1>3. /\ ingestion'.runtime = <<>> /\ ingestion'.reading = <<>> /\ ingestion'.open = {}
      /\ ingestion'.buffer[t] = <<>>
  BY DEF Crash
<1>4. Stream' = <<>>
  BY <1>3, StreamNext DEF StreamFacts, Calm
<1>5. Silent(Stream, t)' /\ \A i \in 1 .. Len(Stream') : FALSE
  BY <1>4 DEF Silent
<1>6. past'.switched = past.switched /\ (output[t].pieces > 0 => t \in past'.cut)
  <2> DEFINE cut == {x \in Turns : output[x].pieces > 0}
             stale == {k \in Threads : ~LooksStopped(k)}
  <2>1. /\ past \in PastType
        /\ past' = [past EXCEPT !.lost = @ \cup Requested, !.cut = @ \cup cut, !.stale = @ \cup stale]
    BY DEF Typed, Crash
  <2>2. output[t].pieces > 0 => t \in cut
    OBVIOUS
  <2> HIDE DEF cut, stale
  <2> QED
    BY <2>1, <2>2 DEF PastType
<1>7. CASE Untouched(t)
  <2>1. Untouched(t)'
    BY <1>2, <1>3, <1>5, <1>7 DEF Untouched
  <2>2. Flows(t)' /\ Closing(t)'
    BY <2>1, FreshNext DEF FreshIsFine
  <2> QED
    BY <2>1, <2>2 DEF Fine
<1>8. CASE ~Untouched(t)
  <2>1. ~Waits(t)
    BY <1>8 DEF Fine
  <2>2. Gone(t)' /\ ~Waits(t)'
    BY <1>1, <2>1 DEF Gone, Waits
  <2>3. t \notin past.switched => \A i \in 1 .. Len(reply[t].text) : reply[t].text[i] = i
    BY DEF Fine, Flows, Over, Ordered
  <2>4. reply[t].complete => Elements(reply[t].text) = 1 .. output[t].pieces
    <3>1. CASE Over(t)
      BY <3>1 DEF Over
    <3>2. CASE Flows(t)
      <4> SUFFICES ASSUME reply[t].complete PROVE Elements(reply[t].text) = 1 .. output[t].pieces
        OBVIOUS
      <4>1. /\ Elements(reply[t].text) \cup Elements(ingestion.buffer[t]) = 1 .. Taken(t)
            /\ ingestion.buffer[t] = <<>> /\ Taken(t) = output[t].pieces
        BY <3>2 DEF Flows
      <4>2. Len(ingestion.buffer[t]) = 0 /\ 1 .. 0 = {}
        BY <4>1
      <4>3. Elements(ingestion.buffer[t]) = {}
        BY <4>2 DEF Elements
      <4> QED
        BY <4>1, <4>3
    <3> QED
      BY <3>1, <3>2 DEF Fine
  <2>5. Over(t)'
    <3>1. t \notin past'.switched => \A i \in 1 .. Len(reply'[t].text) : reply'[t].text[i] = i
      BY <1>2, <1>6, <2>3
    <3>2. reply'[t].complete => (Elements(reply[t].text) = 1 .. output[t].pieces)'
      BY <1>2, <2>4 DEF Elements
    <3> QED
      BY <1>3, <1>5, <2>2, <3>1, <3>2 DEF Over
  <2>6. Closing(t)'
    BY <1>2, <1>6 DEF Closing
  <2> QED
    BY <2>2, <2>5, <2>6 DEF Fine
<1> QED
  BY <1>7, <1>8

---------------------------------------------------------------------------
(* Replies are faithful, and arrive.                                       *)

LEMMA NextPlaced == ASSUME Typed, Placed, Next PROVE Placed'
<1>1. CASE RequestTurn \/ RequestStop
  BY <1>1, RequestTurnPlaced, RequestStopPlaced
<1>2. ASSUME NEW k \in Threads, Speak(k) \/ EndTurn(k) \/ Exit(k) \/ Remark(k) PROVE Placed'
  <2>1. CASE Speak(k) \/ Remark(k)
    BY <2>1, StaysPlaced DEF Speak, Remark
  <2> QED
    BY <1>2, <2>1, EndTurnPlaced, ExitPlaced
<1>3. CASE TakeStart \/ TakeRestart \/ StartSession \/ Bind \/ Send
  BY <1>3, TakeStartPlaced, TakeRestartPlaced, StartSessionPlaced, BindPlaced, SendPlaced
<1>4. CASE TakeInterrupt \/ TakeStop \/ SetStopped
  BY <1>4, TakeInterruptPlaced, TakeStopPlaced, SetStoppedPlaced
<1>5. CASE TakeMode \/ ReadLifecycle \/ ApplyLifecycle \/ TakeDelta \/ TakeItem
  <2>1. UNCHANGED <<owner, commands, provider>>
    BY <1>5 DEF TakeMode, ReadLifecycle, ApplyLifecycle, TakeDelta, TakeItem
  <2> QED
    BY <2>1, StaysPlaced
<1>6. CASE Crash
  BY <1>6, CrashPlaced
<1> QED
  BY <1>1, <1>2, <1>3, <1>4, <1>5, <1>6 DEF Next

LEMMA NextFine ==
  ASSUME Typed, Typed', Placed, NEW t \in Turns, Fine(t), Next PROVE Fine(t)'
<1>1. CASE RequestTurn
  BY <1>1, RequestTurnReply
<1>2. CASE RequestStop \/ TakeStart \/ TakeRestart \/ Bind \/ SetStopped
  BY <1>2, QuietSteps
<1>3. ASSUME NEW k \in Threads, Speak(k) \/ EndTurn(k) \/ Exit(k) \/ Remark(k) PROVE Fine(t)'
  BY <1>3, SpeakReply, EndTurnReply, ExitReply, RemarkReply
<1>4. CASE StartSession \/ Send \/ TakeInterrupt \/ TakeStop
  BY <1>4, StartSessionReply, SendReply, TakeInterruptReply, TakeStopReply
<1>5. CASE TakeMode \/ ReadLifecycle \/ ApplyLifecycle
  BY <1>5, TakeModeReply, ReadLifecycleReply, ApplyLifecycleReply
<1>6. CASE TakeDelta \/ TakeItem \/ Crash
  BY <1>6, TakeDeltaReply, TakeItemReply, CrashReply
<1> QED
  BY <1>1, <1>2, <1>3, <1>4, <1>5, <1>6 DEF Next

LEMMA NextReply == ASSUME Typed, Typed', ReplyInv, [Next]_vars PROVE ReplyInv'
<1>1. Placed /\ \A t \in Turns : Fine(t)
  BY DEF ReplyInv, Fine
<1>2. CASE Next
  <2>1. Placed' /\ \A t \in Turns : Fine(t)'
    BY <1>1, <1>2, NextPlaced, NextFine
  <2> QED
    BY <2>1 DEF ReplyInv, Fine
<1>3. CASE UNCHANGED vars
  <2>1. UNCHANGED <<owner, reply, commands, provider, output, ingestion, past>>
    BY <1>3 DEF vars
  <2>2. Fewer /\ Placed'
    BY <1>1, <2>1, StaysPlaced
  <2>3. Stream' = Stream
    BY <2>1 DEF Stream, Calm
  <2>4. \A t \in Turns : Fine(t)'
    BY <1>1, <2>1, <2>2, <2>3, QuietReply
  <2> QED
    BY <2>2, <2>4 DEF ReplyInv, Fine
<1> QED
  BY <1>2, <1>3

LEMMA InitReply == ASSUME Typed, Init PROVE ReplyInv
<1>1. /\ commands.queue = <<>> /\ commands.work = Idle
      /\ \A k \in Threads : provider[k] = NoSession
      /\ ingestion.runtime = <<>> /\ ingestion.reading = <<>> /\ ingestion.open = {}
  BY DEF Init
<1>2. Len(<<>>) = 0 /\ 1 .. 0 = {}
  OBVIOUS
<1>3. Requested = {} /\ RequestsPlaced
  BY <1>1, <1>2 DEF Requested, RequestsPlaced
<1>4. Placed
  <2>1. \A k \in Threads : SessionPlaced(provider[k], k)
    BY <1>1, NoSessionPlaced
  <2> QED
    BY <1>3, <2>1 DEF Placed
<1>5. Stream = <<>>
  BY <1>1, StreamIsSeq DEF Calm
<1>6. ASSUME NEW t \in Turns PROVE Untouched(t)
  <2>1. Silent(Stream, t) /\ \A i \in 1 .. Len(Stream) : FALSE
    BY <1>2, <1>5 DEF Silent
  <2>2. /\ output[t] = [pieces |-> 0, ended |-> FALSE]
        /\ reply[t] = [text |-> <<>>, complete |-> FALSE]
        /\ ingestion.buffer[t] = <<>>
    BY DEF Init
  <2> QED
    BY <1>1, <2>1, <2>2 DEF Untouched
<1> QED
  BY <1>4, <1>6, FreshFlows DEF ReplyInv

\* The inductive invariant of the two: what the ingestion has taken of a reply, and
\* what is on its way to it, make up what the provider has said.
THEOREM RepliesFlow == Spec => []ReplyInv
<1>1. Init => ReplyInv
  BY InitTyped, InitReply
<1>2. Typed /\ Typed' /\ ReplyInv /\ [Next]_vars => ReplyInv'
  BY NextReply
<1> QED
  BY <1>1, <1>2, TypedHolds, PTL DEF Spec

LEMMA FlowIsFaithful == ASSUME Typed, ReplyInv PROVE RepliesAreFaithful
<1> SUFFICES ASSUME NEW t \in Turns
             PROVE  /\ t \notin past.switched => reply[t].text = Whole(Len(reply[t].text))
                    /\ reply[t].complete => Elements(reply[t].text) = 1 .. output[t].pieces
  BY DEF RepliesAreFaithful, Elements
<1> DEFINE a == reply[t].text
<1>1. Flows(t) \/ Over(t)
  BY DEF ReplyInv
<1>2. a \in Text /\ Len(a) \in Nat
  BY ReplyParts
<1>3. ASSUME t \notin past.switched PROVE a = Whole(Len(a))
  <2>1. \A i \in 1 .. Len(a) : a[i] = i
    BY <1>1, <1>3 DEF Flows, Over, Ordered
  <2> HIDE DEF a
  <2>2. a = [i \in 1 .. Len(a) |-> a[i]]
    BY <1>2 DEF Text
  <2>3. [i \in 1 .. Len(a) |-> a[i]] = [i \in 1 .. Len(a) |-> i]
    BY <2>1
  <2> QED
    BY <2>2, <2>3 DEF Whole
<1>4. ASSUME reply[t].complete PROVE Elements(a) = 1 .. output[t].pieces
  <2>1. CASE Over(t)
    BY <1>4, <2>1 DEF Over
  <2>2. CASE Flows(t)
    <3>1. /\ Elements(a) \cup Elements(ingestion.buffer[t]) = 1 .. Taken(t)
          /\ ingestion.buffer[t] = <<>> /\ Taken(t) = output[t].pieces
      BY <1>4, <2>2 DEF Flows
    <3>2. Len(ingestion.buffer[t]) = 0 /\ 1 .. 0 = {}
      BY <3>1
    <3>3. Elements(ingestion.buffer[t]) = {}
      BY <3>2 DEF Elements
    <3> QED
      BY <3>1, <3>3
  <2> QED
    BY <1>1, <2>1, <2>2
<1> QED
  BY <1>3, <1>4

LEMMA FlowArrives == ASSUME Typed, ReplyInv PROVE RepliesArrive
<1> SUFFICES ASSUME Drained, NEW t \in past.sent \ past.cut,
                    \A k \in Threads : t \notin Unfinished(k), output[t].pieces > 0
             PROVE  reply[t].complete
  BY DEF RepliesArrive
<1>1. t \in Turns
  BY DEF Typed, PastType
<1>2. Stream = <<>> /\ Len(<<>>) = 0
  BY StreamIsSeq DEF Drained
<1>3. ~Given(t)
  BY DEF Given
<1>4. ~Due(Stream, t, owner[t], t \in ingestion.open, Given(t))
  BY <1>2, <1>3 DEF Due
<1>5. Closing(t)
  BY <1>1 DEF ReplyInv
<1> QED
  BY <1>4, <1>5 DEF Closing

\* The text of a reply is what the provider said, in its order, and one shown as
\* complete lacks nothing, for any number of turns, pieces, stops and troubles.
THEOREM FaithfulReplies == Spec => []RepliesAreFaithful
  BY RepliesFlow, TypedHolds, FlowIsFaithful, PTL

\* The reply of a turn that ended arrives and is closed once the workers are through.
THEOREM ArrivingReplies == Spec => []RepliesArrive
  BY RepliesFlow, TypedHolds, FlowArrives, PTL

---------------------------------------------------------------------------
(* What a thread shows.  The session and turn events of a thread tell a    *)
(* story that fits together: each takes the session from where the one     *)
(* before it left it, and the last leaves it where it is.  So the shown    *)
(* session is right once they are all read, and until then the active turn *)
(* is one that the next of them does not make the ingestion ignore.        *)

Position(p) == [alive |-> p.alive, turn |-> p.turn]

\* The events that set the turn of a thread's session, and those that only remark on
\* it: a state, a start of the thread, an error that names no turn.
Moves(e, k) ==
    /\ e.thread = k
    /\ \/ e.type \in {"session.started", "session.exited", "turn.started", "turn.completed"}
       \/ e.type = "runtime.error" /\ e.turn # 0

Remarks(e, k) == e.thread = k /\ e.type \in Noted /\ ~Moves(e, k)

Still(s, k) == \A i \in 1 .. Len(s) : ~Moves(s[i], k)

StillBetween(s, i, j, k) == \A m \in 1 .. Len(s) : i < m /\ m < j => ~Moves(s[m], k)

\* Where an event leaves the session, and where it can find it.
After(e) ==
    [alive |-> e.type # "session.exited",
     turn |-> IF e.type \in {"turn.started", "runtime.error"} THEN e.turn ELSE 0]

Fits(p, e) ==
    /\ e.type = "session.started" <=> ~p.alive
    /\ e.type \in {"session.started", "turn.started"} => p.turn = 0
    /\ e.type = "turn.started" => e.turn # 0
    /\ e.type \in {"turn.completed", "runtime.error"} => p.turn = e.turn

\* The active turns with which the ingestion shows the event as it should.
Shows(e, active) ==
    /\ e.type \in {"session.started", "turn.started"} => active = 0
    /\ e.type = "turn.started" => e.turn # 0
    /\ e.type \in {"turn.completed", "runtime.error"} => active \in {0, e.turn}

First(s, i, k) == Moves(s[i], k) /\ \A m \in 1 .. Len(s) : m < i => ~Moves(s[m], k)

Last(s, i, k) == Moves(s[i], k) /\ \A m \in 1 .. Len(s) : i < m => ~Moves(s[m], k)

Chained(s, k) ==
    \A i, j \in 1 .. Len(s) :
        i < j /\ Moves(s[i], k) /\ Moves(s[j], k) /\ StillBetween(s, i, j, k)
        => Fits(After(s[i]), s[j])

EndsAt(s, k, q) == \A i \in 1 .. Len(s) : Last(s, i, k) => After(s[i]) = q

StartsAt(s, k, p) == \A i \in 1 .. Len(s) : First(s, i, k) => Fits(p, s[i])

StartShows(s, k, active) == \A i \in 1 .. Len(s) : First(s, i, k) => Shows(s[i], active)

\* Events that take the session of k from p to q, and such without a remark.
Runs(s, k, p, q) ==
    Chained(s, k) /\ StartsAt(s, k, p) /\ EndsAt(s, k, q) /\ (Still(s, k) => p = q)

Leads(s, k, p, q) ==
    Runs(s, k, p, q) /\ \A i \in 1 .. Len(s) : ~Remarks(s[i], k)

\* Threads a turn or the reactor's next step sets straight.
Settled ==
    bound \cup (IF commands.work.op = "stopped" THEN {commands.work.thread} ELSE {})

\* An active turn that is the one of a session at q, or none where an error that
\* named no turn was told of that one (disowned); with it, what is still to be read
\* of the thread is shown as it should.
Near(a, q, disowned) == a = q.turn \/ (a = 0 /\ q.turn \in disowned)

Ready(s, k, a, q, disowned) ==
    StartShows(s, k, a) /\ (Still(s, k) => Near(a, q, disowned))

\* A remark is one of a session that is there; an error of one whose turn is disowned.
Remarked(s, k, q, disowned, claimed) ==
    \A i \in 1 .. Len(s) : Remarks(s[i], k) =>
        /\ s[i].type = "session.state.changed" => k \in claimed
        /\ (\A m \in 1 .. Len(s) : i < m => ~Moves(s[m], k)) =>
              q.alive /\ (s[i].type = "runtime.error" => Near(0, q, disowned))

\* What is being read was read with an active turn that serves.
Held(reading, s, k, q, disowned) ==
    reading # <<>> /\ reading[1].thread = k =>
        /\ Moves(reading[1], k) => Shows(reading[1], reading[2])
        /\ Remarks(reading[1], k) /\ reading[1].type # "runtime.error" =>
              Ready(s, k, reading[2], q, disowned)

\* The status that goes with an active turn, and with none.
Worded(session, k, claimed) ==
    /\ session.active # 0 => session.status \in {"running", "error"}
    /\ session.status = "running" => session.active # 0 \/ k \in claimed

Tracked(s, k, q, session, reading, disowned, claimed) ==
    /\ Chained(s, k) /\ EndsAt(s, k, q)
    /\ Ready(s, k, session.active, q, disowned)
    /\ Remarked(s, k, q, disowned, claimed)
    /\ Held(reading, s, k, q, disowned)
    /\ Worded(session, k, claimed)

Found(k) == ~provider[k].alive => LooksStopped(k) \/ k \in Settled

Tracks(k) ==
    /\ Tracked(Stream, k, Position(provider[k]), shown[k], ingestion.reading,
               past.disowned, past.claimed)
    /\ Still(Stream, k) => Found(k)

\* A session at hand runs nothing yet; a session that looks stopped has no turn.
AtHand ==
    commands.work.op = "bind" =>
        LET k == commands.work.thread IN
        provider[k].turn = 0 /\ provider[k].queue = <<>> /\ k \in bound

StoppedHasNone == \A k \in Threads : LooksStopped(k) => shown[k].active = 0

ShownInv ==
    /\ AtHand
    /\ StoppedHasNone
    /\ \A k \in Threads \ (past.stale \cup past.ignored) : Tracks(k)

---------------------------------------------------------------------------
(* Stories, joined and shortened.                                          *)

\* A first event of two joined stories is one of the first, or that is still.
LEMMA FirstOfJoined ==
  ASSUME NEW s \in Seq(GoodEvent), NEW es \in Seq(GoodEvent), NEW k,
         NEW i \in 1 .. Len(s \o es), First(s \o es, i, k)
  PROVE  \/ i \in 1 .. Len(s) /\ (s \o es)[i] = s[i] /\ First(s, i, k)
         \/ /\ Still(s, k) /\ i - Len(s) \in 1 .. Len(es)
            /\ (s \o es)[i] = es[i - Len(s)] /\ First(es, i - Len(s), k)
<1> DEFINE r == s \o es
<1>1. /\ Len(s) \in Nat /\ Len(es) \in Nat /\ Len(r) = Len(s) + Len(es)
      /\ \A m \in 1 .. Len(s) : m \in 1 .. Len(r) /\ r[m] = s[m]
      /\ \A m \in 1 .. Len(es) : r[Len(s) + m] = es[m]
      /\ \A m \in 1 .. Len(r) :
            \/ m \in 1 .. Len(s) /\ r[m] = s[m]
            \/ m > Len(s) /\ m - Len(s) \in 1 .. Len(es) /\ r[m] = es[m - Len(s)]
  BY Joined, ConcatIsSeq
<1>2. i \in 1 .. Len(r) /\ Moves(r[i], k) /\ \A m \in 1 .. Len(r) : m < i => ~Moves(r[m], k)
  BY DEF First
<1> HIDE DEF r
<1>3. CASE i \in 1 .. Len(s) /\ r[i] = s[i]
  <2>1. \A m \in 1 .. Len(s) : m < i => ~Moves(s[m], k)
    BY <1>1, <1>2
  <2> QED
    BY <1>2, <1>3, <2>1 DEF First, r
<1>4. CASE i > Len(s) /\ i - Len(s) \in 1 .. Len(es) /\ r[i] = es[i - Len(s)]
  <2>1. Still(s, k)
    <3> SUFFICES ASSUME NEW m \in 1 .. Len(s) PROVE ~Moves(s[m], k)
      BY DEF Still
    <3>1. m < i /\ m \in 1 .. Len(r) /\ r[m] = s[m]
      BY <1>1, <1>4
    <3> QED
      BY <1>2, <3>1
  <2>2. \A m \in 1 .. Len(es) : m < i - Len(s) => ~Moves(es[m], k)
    <3> SUFFICES ASSUME NEW m \in 1 .. Len(es), m < i - Len(s) PROVE ~Moves(es[m], k)
      OBVIOUS
    <3>1. Len(s) + m \in 1 .. Len(r) /\ Len(s) + m < i /\ r[Len(s) + m] = es[m]
      BY <1>1, <1>2
    <3> QED
      BY <1>2, <3>1
  <2> QED
    BY <1>2, <1>4, <2>1, <2>2 DEF First, r
<1> QED
  BY <1>1, <1>2, <1>3, <1>4

LEMMA StillJoined ==
  ASSUME NEW s \in Seq(GoodEvent), NEW es \in Seq(GoodEvent), NEW k
  PROVE  Still(s \o es, k) <=> Still(s, k) /\ Still(es, k)
<1> DEFINE r == s \o es
<1>1. /\ Len(s) \in Nat /\ Len(es) \in Nat /\ Len(r) = Len(s) + Len(es)
      /\ \A m \in 1 .. Len(s) : m \in 1 .. Len(r) /\ r[m] = s[m]
      /\ \A m \in 1 .. Len(es) : r[Len(s) + m] = es[m]
      /\ \A m \in 1 .. Len(r) :
            \/ m \in 1 .. Len(s) /\ r[m] = s[m]
            \/ m > Len(s) /\ m - Len(s) \in 1 .. Len(es) /\ r[m] = es[m - Len(s)]
  BY Joined, ConcatIsSeq
<1> HIDE DEF r
<1>2. \A m \in 1 .. Len(es) : Len(s) + m \in 1 .. Len(r)
  BY <1>1
<1>3. Still(r, k) => Still(s, k) /\ Still(es, k)
  BY <1>1, <1>2 DEF Still
<1>4. Still(s, k) /\ Still(es, k) => Still(r, k)
  BY <1>1 DEF Still
<1> QED
  BY <1>3, <1>4 DEF r

\* A story goes on from where it ended.
LEMMA ChainJoins ==
  ASSUME NEW s \in Seq(GoodEvent), NEW es \in Seq(GoodEvent), NEW k, NEW q, NEW w,
         Chained(s, k), EndsAt(s, k, q), Runs(es, k, q, w)
  PROVE  Chained(s \o es, k) /\ EndsAt(s \o es, k, w)
<1> DEFINE r == s \o es
<1>1. /\ Len(s) \in Nat /\ Len(es) \in Nat /\ Len(r) = Len(s) + Len(es)
      /\ \A m \in 1 .. Len(s) : m \in 1 .. Len(r) /\ r[m] = s[m]
      /\ \A m \in 1 .. Len(es) : r[Len(s) + m] = es[m]
      /\ \A m \in 1 .. Len(r) :
            \/ m \in 1 .. Len(s) /\ r[m] = s[m]
            \/ m > Len(s) /\ m - Len(s) \in 1 .. Len(es) /\ r[m] = es[m - Len(s)]
  BY Joined, ConcatIsSeq
<1>2. Chained(es, k) /\ StartsAt(es, k, q) /\ EndsAt(es, k, w) /\ (Still(es, k) => q = w)
  BY DEF Runs
<1> HIDE DEF r
<1>3. \A m \in 1 .. Len(es) : Len(s) + m \in 1 .. Len(r)
  BY <1>1
<1>4. ASSUME NEW i \in 1 .. Len(r), NEW j \in 1 .. Len(r), i < j,
             Moves(r[i], k), Moves(r[j], k), StillBetween(r, i, j, k)
      PROVE  Fits(After(r[i]), r[j])
  <2>1. CASE j \in 1 .. Len(s)
    <3>1. i \in 1 .. Len(s) /\ r[i] = s[i] /\ r[j] = s[j]
      BY <1>1, <1>4, <2>1
    <3>2. StillBetween(s, i, j, k)
      BY <1>1, <1>4 DEF StillBetween
    <3> QED
      BY <1>4, <2>1, <3>1, <3>2 DEF Chained
  <2>2. CASE i \in 1 .. Len(s) /\ j > Len(s)
    <3>1. r[i] = s[i] /\ j - Len(s) \in 1 .. Len(es) /\ r[j] = es[j - Len(s)]
      BY <1>1, <2>2
    <3>2. Last(s, i, k)
      <4>1. \A m \in 1 .. Len(s) : i < m => m < j /\ m \in 1 .. Len(r) /\ r[m] = s[m]
        BY <1>1, <2>2
      <4> QED
        BY <1>4, <3>1, <4>1 DEF Last, StillBetween
    <3>3. First(es, j - Len(s), k)
      <4>1. \A m \in 1 .. Len(es) : m < j - Len(s) =>
              /\ i < Len(s) + m /\ Len(s) + m < j /\ Len(s) + m \in 1 .. Len(r)
              /\ r[Len(s) + m] = es[m]
        BY <1>1, <1>3, <2>2
      <4> QED
        BY <1>4, <3>1, <4>1 DEF First, StillBetween
    <3> QED
      BY <1>2, <2>2, <3>1, <3>2, <3>3 DEF EndsAt, StartsAt
  <2>3. CASE i > Len(s)
    <3>1. /\ i - Len(s) \in 1 .. Len(es) /\ j - Len(s) \in 1 .. Len(es)
          /\ r[i] = es[i - Len(s)] /\ r[j] = es[j - Len(s)] /\ i - Len(s) < j - Len(s)
      BY <1>1, <1>4, <2>3
    <3>2. StillBetween(es, i - Len(s), j - Len(s), k)
      <4>1. \A m \in 1 .. Len(es) : i - Len(s) < m /\ m < j - Len(s) =>
              /\ i < Len(s) + m /\ Len(s) + m < j /\ Len(s) + m \in 1 .. Len(r)
              /\ r[Len(s) + m] = es[m]
        BY <1>1, <1>3
      <4> QED
        BY <1>4, <4>1 DEF StillBetween
    <3> QED
      BY <1>2, <1>4, <3>1, <3>2 DEF Chained
  <2> QED
    BY <1>1, <1>4, <2>1, <2>2, <2>3
<1>5. ASSUME NEW i \in 1 .. Len(r), Last(r, i, k) PROVE After(r[i]) = w
  <2>1. CASE i \in 1 .. Len(s)
    <3>1. r[i] = s[i] /\ \A m \in 1 .. Len(s) : m \in 1 .. Len(r) /\ r[m] = s[m]
      BY <1>1, <2>1
    <3>2. Last(s, i, k)
      BY <1>5, <3>1 DEF Last
    <3>3. \A m \in 1 .. Len(es) :
            i < Len(s) + m /\ Len(s) + m \in 1 .. Len(r) /\ r[Len(s) + m] = es[m]
      BY <1>1, <1>3, <2>1
    <3>4. Still(es, k)
      BY <1>5, <3>3 DEF Last, Still
    <3> QED
      BY <1>2, <2>1, <3>1, <3>2, <3>4 DEF EndsAt
  <2>2. CASE i > Len(s)
    <3>1. i - Len(s) \in 1 .. Len(es) /\ r[i] = es[i - Len(s)]
      BY <1>1, <2>2
    <3>2. \A m \in 1 .. Len(es) : i - Len(s) < m =>
            i < Len(s) + m /\ Len(s) + m \in 1 .. Len(r) /\ r[Len(s) + m] = es[m]
      BY <1>1, <1>3
    <3>3. Last(es, i - Len(s), k)
      BY <1>5, <3>1, <3>2 DEF Last
    <3> QED
      BY <1>2, <3>1, <3>3 DEF EndsAt
  <2> QED
    BY <1>1, <2>1, <2>2
<1> QED
  BY <1>4, <1>5 DEF Chained, EndsAt, r

LEMMA LeadsJoin ==
  ASSUME NEW s \in Seq(GoodEvent), NEW es \in Seq(GoodEvent), NEW k, NEW p, NEW q, NEW w,
         Leads(s, k, p, q), Leads(es, k, q, w)
  PROVE  Leads(s \o es, k, p, w)
<1>1. Runs(s, k, p, q) /\ Runs(es, k, q, w)
  BY DEF Leads
<1>2. Chained(s \o es, k) /\ EndsAt(s \o es, k, w)
  BY <1>1, ChainJoins DEF Runs
<1>3. Still(s \o es, k) => p = w
  BY <1>1, StillJoined DEF Runs
<1>4. StartsAt(s \o es, k, p)
  BY <1>1, FirstOfJoined DEF StartsAt, Runs
<1>5. \A i \in 1 .. Len(s \o es) : ~Remarks((s \o es)[i], k)
  BY Joined DEF Leads
<1> QED
  BY <1>2, <1>3, <1>4, <1>5 DEF Leads, Runs

\* Events that do not move the session, and the one that does.
LEMMA StillRuns ==
  ASSUME NEW s, NEW k, Still(s, k), NEW p
  PROVE  Runs(s, k, p, p)
  BY DEF Still, Runs, Chained, StartsAt, EndsAt, First, Last

LEMMA StillLeads ==
  ASSUME NEW s, NEW k, NEW p, \A i \in 1 .. Len(s) : ~Moves(s[i], k) /\ ~Remarks(s[i], k)
  PROVE  Leads(s, k, p, p)
  BY StillRuns DEF Still, Leads

LEMMA OneLeads ==
  ASSUME NEW e, NEW k, Moves(e, k), NEW p, Fits(p, e)
  PROVE  Leads(<<e>>, k, p, After(e))
<1> DEFINE s == <<e>>
<1>1. Len(s) = 1 /\ s[1] = e
  OBVIOUS
<1> HIDE DEF s
<1>2. \A i \in 1 .. Len(s) : i = 1
  BY <1>1
<1>3. Chained(s, k) /\ StartsAt(s, k, p) /\ EndsAt(s, k, After(e))
  BY <1>1, <1>2 DEF Chained, StartsAt, EndsAt
<1>4. ~Still(s, k)
  BY <1>1 DEF Still
<1>5. \A i \in 1 .. Len(s) : ~Remarks(s[i], k)
  BY <1>1, <1>2 DEF Remarks
<1> QED
  BY <1>3, <1>4, <1>5 DEF Leads, Runs, s

\* The first event of a story is worked off.
LEMMA StoryPasses ==
  ASSUME NEW s \in Seq(GoodEvent), s # <<>>, NEW k, NEW q, Chained(s, k), EndsAt(s, k, q)
  PROVE  /\ Chained(Tail(s), k) /\ EndsAt(Tail(s), k, q)
         /\ Moves(s[1], k) => /\ First(s, 1, k)
                              /\ \A i \in 1 .. Len(Tail(s)) :
                                    First(Tail(s), i, k) => Fits(After(s[1]), Tail(s)[i])
                              /\ Still(Tail(s), k) => After(s[1]) = q
         /\ ~Moves(s[1], k) => /\ Still(Tail(s), k) <=> Still(s, k)
                               /\ \A a : StartShows(s, k, a) => StartShows(Tail(s), k, a)
<1> DEFINE r == Tail(s)
<1>1. /\ Len(s) \in Nat /\ Len(s) > 0 /\ Len(r) \in Nat /\ Len(r) = Len(s) - 1
      /\ \A i \in 1 .. Len(r) : i + 1 \in 1 .. Len(s) /\ r[i] = s[i + 1]
      /\ \A i \in 1 .. Len(s) : i # 1 => i - 1 \in 1 .. Len(r) /\ r[i - 1] = s[i]
  BY Shifted
<1> HIDE DEF r
<1>2. 1 \in 1 .. Len(s)
  BY <1>1
<1>3. ASSUME NEW i \in 1 .. Len(r), NEW j \in 1 .. Len(r), i < j,
             Moves(r[i], k), Moves(r[j], k), StillBetween(r, i, j, k)
      PROVE  Fits(After(r[i]), r[j])
  <2>1. \A m \in 1 .. Len(s) : i + 1 < m /\ m < j + 1 =>
          m - 1 \in 1 .. Len(r) /\ r[m - 1] = s[m] /\ i < m - 1 /\ m - 1 < j
    BY <1>1
  <2>2. StillBetween(s, i + 1, j + 1, k)
    BY <1>3, <2>1 DEF StillBetween
  <2>3. /\ i + 1 \in 1 .. Len(s) /\ j + 1 \in 1 .. Len(s) /\ i + 1 < j + 1
        /\ r[i] = s[i + 1] /\ r[j] = s[j + 1]
    BY <1>1, <1>3
  <2> QED
    BY <1>3, <2>2, <2>3 DEF Chained
<1>4. ASSUME NEW i \in 1 .. Len(r), Last(r, i, k) PROVE After(r[i]) = q
  <2>1. \A m \in 1 .. Len(s) : i + 1 < m =>
          m - 1 \in 1 .. Len(r) /\ r[m - 1] = s[m] /\ i < m - 1
    BY <1>1
  <2>2. i + 1 \in 1 .. Len(s) /\ r[i] = s[i + 1]
    BY <1>1
  <2>3. Last(s, i + 1, k)
    BY <1>4, <2>1, <2>2 DEF Last
  <2> QED
    BY <2>2, <2>3 DEF EndsAt
<1>5. ASSUME Moves(s[1], k)
      PROVE  /\ First(s, 1, k)
             /\ \A i \in 1 .. Len(r) : First(r, i, k) => Fits(After(s[1]), r[i])
             /\ Still(r, k) => After(s[1]) = q
  <2>1. First(s, 1, k)
    <3>1. \A m \in 1 .. Len(s) : ~(m < 1)
      OBVIOUS
    <3> QED
      BY <1>5, <3>1 DEF First
  <2>2. ASSUME NEW i \in 1 .. Len(r), First(r, i, k) PROVE Fits(After(s[1]), r[i])
    <3>1. \A m \in 1 .. Len(s) : 1 < m /\ m < i + 1 =>
            m - 1 \in 1 .. Len(r) /\ r[m - 1] = s[m] /\ m - 1 < i
      BY <1>1
    <3>2. i + 1 \in 1 .. Len(s) /\ r[i] = s[i + 1] /\ 1 < i + 1
      BY <1>1
    <3>3. StillBetween(s, 1, i + 1, k) /\ Moves(s[i + 1], k)
      BY <2>2, <3>1, <3>2 DEF StillBetween, First
    <3> QED
      BY <1>2, <1>5, <3>2, <3>3 DEF Chained
  <2>3. ASSUME Still(r, k) PROVE After(s[1]) = q
    <3>1. \A m \in 1 .. Len(s) : 1 < m => ~Moves(s[m], k)
      BY <1>1, <2>3 DEF Still
    <3> QED
      BY <1>2, <1>5, <3>1 DEF EndsAt, Last
  <2> QED
    BY <2>1, <2>2, <2>3
<1>6. ASSUME ~Moves(s[1], k)
      PROVE  /\ Still(r, k) <=> Still(s, k)
             /\ \A a : StartShows(s, k, a) => StartShows(r, k, a)
  <2>1. Still(r, k) <=> Still(s, k)
    BY <1>1, <1>6 DEF Still
  <2>2. ASSUME NEW i \in 1 .. Len(r), First(r, i, k)
        PROVE  First(s, i + 1, k) /\ i + 1 \in 1 .. Len(s) /\ r[i] = s[i + 1]
    <3>1. i + 1 \in 1 .. Len(s) /\ r[i] = s[i + 1]
      BY <1>1
    <3>2. ASSUME NEW m \in 1 .. Len(s), m < i + 1 PROVE ~Moves(s[m], k)
      <4>1. CASE m = 1
        BY <1>6, <4>1
      <4>2. CASE m # 1
        <5>1. m - 1 \in 1 .. Len(r) /\ r[m - 1] = s[m] /\ m - 1 < i
          BY <1>1, <3>2, <4>2
        <5> QED
          BY <2>2, <5>1 DEF First
      <4> QED
        BY <4>1, <4>2
    <3> QED
      BY <2>2, <3>1, <3>2 DEF First
  <2>3. \A a : StartShows(s, k, a) => StartShows(r, k, a)
    BY <2>2 DEF StartShows
  <2> QED
    BY <2>1, <2>3
<1> QED
  BY <1>3, <1>4, <1>5, <1>6 DEF Chained, EndsAt, r

---------------------------------------------------------------------------
(* What a thread shows, when its session's story goes on.                  *)

\* An event that fits is shown right where the active turn is the running one, or none.
LEMMA FitsShows ==
  ASSUME NEW p, NEW e
  PROVE  /\ Fits(p, e) => Shows(e, p.turn) /\ Shows(e, 0)
         /\ \A a : Shows(e, a) => Shows(e, 0)
  BY DEF Fits, Shows

LEMMA ShownRight ==
  ASSUME NEW e, NEW k, Moves(e, k), NEW a, Shows(e, a)
  PROVE  /\ Applies(e, a)
         /\ \A x \in ShownAfter(e, a) :
               /\ x.active = After(e).turn
               /\ ~After(e).alive => x.status = "stopped"
               /\ Worded(x, k, {})
<1>1. CASE e.type = "session.started"
  <2>1. a = 0 /\ Applies(e, a) /\ After(e).turn = 0 /\ After(e).alive
    BY <1>1 DEF Shows, Applies, After
  <2>2. ShownAfter(e, a) = {[status |-> "ready", active |-> 0]}
    BY <1>1, <2>1 DEF ShownAfter
  <2> QED
    BY <2>1, <2>2 DEF Worded
<1>2. CASE e.type = "session.exited"
  BY <1>2 DEF Shows, Applies, ShownAfter, After, Worded
<1>3. CASE e.type = "turn.started"
  <2>1. a = 0 /\ e.turn # 0 /\ Applies(e, a) /\ After(e).turn = e.turn /\ After(e).alive
    BY <1>3 DEF Shows, Applies, After
  <2>2. ShownAfter(e, a) = {[status |-> "running", active |-> e.turn]}
    BY <1>3 DEF ShownAfter
  <2> QED
    BY <2>1, <2>2 DEF Worded
<1>4. CASE e.type = "turn.completed"
  <2>1. Applies(e, a) /\ After(e).turn = 0 /\ After(e).alive
    BY <1>4 DEF Shows, Applies, After
  <2>2. ShownAfter(e, a) = [status : {"ready", "error"}, active : {0}]
    BY <1>4 DEF ShownAfter
  <2>3. \A x \in ShownAfter(e, a) : x.active = 0 /\ x.status # "running"
    BY <2>2
  <2> QED
    BY <2>1, <2>3 DEF Worded
<1>5. CASE e.type = "runtime.error"
  <2>1. Applies(e, a) /\ After(e).turn = e.turn /\ After(e).alive
    BY <1>5 DEF Shows, Applies, After
  <2>2. ShownAfter(e, a) = {[status |-> "error", active |-> e.turn]}
    BY <1>5 DEF ShownAfter
  <2> QED
    BY <2>1, <2>2 DEF Worded
<1> QED
  BY <1>1, <1>2, <1>3, <1>4, <1>5 DEF Moves

\* What the ingestion shows of a remark: no error that names no turn keeps the active
\* turn, and only a state that was told shows a running one without a turn.
LEMMA ShownRemark ==
  ASSUME NEW e, NEW k, Remarks(e, k), NEW a, NEW claimed,
         e.type = "session.state.changed" => k \in claimed
  PROVE  /\ Applies(e, a)
         /\ \A x \in ShownAfter(e, a) :
               /\ x.active = IF e.type = "runtime.error" THEN 0 ELSE a
               /\ Worded(x, k, claimed)
<1>1. CASE e.type = "session.state.changed"
  <2>1. Applies(e, a) /\ k \in claimed
    BY <1>1 DEF Applies
  <2>2. ShownAfter(e, a) =
          [status : {"running", "error"} \cup (IF a = 0 THEN {"starting", "ready"} ELSE {}),
           active : {a}]
    BY <1>1 DEF ShownAfter
  <2>3. \A x \in ShownAfter(e, a) : x.active = a /\ (a # 0 => x.status \in {"running", "error"})
    BY <2>2
  <2> QED
    BY <1>1, <2>1, <2>3 DEF Worded
<1>2. CASE e.type = "thread.started"
  BY <1>2 DEF Applies, ShownAfter, Worded
<1>3. CASE e.type = "runtime.error" /\ e.turn = 0
  BY <1>3 DEF Applies, ShownAfter, Worded
<1> QED
  BY <1>1, <1>2, <1>3 DEF Remarks, Noted, Moves

LEMMA PositionOf ==
  ASSUME NEW p, NEW q
  PROVE  /\ Position(p).alive = p.alive /\ Position(p).turn = p.turn
         /\ Position(p) = Position(q) <=> p.alive = q.alive /\ p.turn = q.turn
  BY DEF Position

\* Tracks, in the next state, of a stream given.
TracksIf ==
    \A k \in Threads : \A s, q, session, reading, disowned, claimed :
        /\ Stream = s /\ Position(provider[k]) = q /\ shown[k] = session
        /\ ingestion.reading = reading /\ past.disowned = disowned /\ past.claimed = claimed
        /\ Tracked(s, k, q, session, reading, disowned, claimed)
        /\ Still(s, k) => Found(k)
        => Tracks(k)

LEMMA TracksNow == TracksIf
  BY DEF TracksIf, Tracks

LEMMA TracksNext == TracksIf'
  BY TracksNow, PTL

\* More is told: an active turn that served serves still.
LEMMA ReadyTold ==
  ASSUME NEW s \in Seq(GoodEvent), NEW es \in Seq(GoodEvent), NEW k, NEW p, NEW q, NEW a,
         NEW d, NEW d2, d \subseteq d2, Ready(s, k, a, p, d), Runs(es, k, p, q)
  PROVE  Ready(s \o es, k, a, q, d2)
<1>1. StartShows(s \o es, k, a)
  <2> SUFFICES ASSUME NEW i \in 1 .. Len(s \o es), First(s \o es, i, k)
               PROVE  Shows((s \o es)[i], a)
    BY DEF StartShows
  <2>1. CASE i \in 1 .. Len(s) /\ (s \o es)[i] = s[i] /\ First(s, i, k)
    BY <2>1 DEF StartShows, Ready
  <2>2. CASE /\ Still(s, k) /\ i - Len(s) \in 1 .. Len(es)
             /\ (s \o es)[i] = es[i - Len(s)] /\ First(es, i - Len(s), k)
    <3>1. Fits(p, (s \o es)[i])
      BY <2>2 DEF Runs, StartsAt
    <3>2. a = p.turn \/ a = 0
      BY <2>2 DEF Ready, Near
    <3> QED
      BY <3>1, <3>2, FitsShows
  <2> QED
    BY <2>1, <2>2, FirstOfJoined
<1>2. Still(s \o es, k) => Near(a, q, d2)
  <2> SUFFICES ASSUME Still(s \o es, k) PROVE Near(a, q, d2)
    OBVIOUS
  <2>1. Still(s, k) /\ Still(es, k)
    BY StillJoined
  <2>2. p = q /\ Near(a, p, d)
    BY <2>1 DEF Ready, Runs
  <2> QED
    BY <2>2 DEF Near
<1> QED
  BY <1>1, <1>2 DEF Ready

\* A remark that is told is one of the session that is there.
Fair(es, k, q, disowned, claimed) ==
    \A i \in 1 .. Len(es) : Remarks(es[i], k) =>
        /\ es[i].type = "session.state.changed" => k \in claimed
        /\ q.alive /\ (es[i].type = "runtime.error" => Near(0, q, disowned))

LEMMA RemarkedTold ==
  ASSUME NEW s \in Seq(GoodEvent), NEW es \in Seq(GoodEvent), NEW k, NEW p, NEW q,
         NEW d, NEW d2, d \subseteq d2, NEW c, NEW c2, c \subseteq c2,
         Remarked(s, k, p, d, c), Runs(es, k, p, q), Fair(es, k, q, d2, c2)
  PROVE  Remarked(s \o es, k, q, d2, c2)
<1> DEFINE r == s \o es
<1>1. /\ Len(s) \in Nat /\ Len(es) \in Nat /\ Len(r) = Len(s) + Len(es)
      /\ \A m \in 1 .. Len(s) : m \in 1 .. Len(r) /\ r[m] = s[m]
      /\ \A m \in 1 .. Len(es) : r[Len(s) + m] = es[m]
      /\ \A m \in 1 .. Len(r) :
            \/ m \in 1 .. Len(s) /\ r[m] = s[m]
            \/ m > Len(s) /\ m - Len(s) \in 1 .. Len(es) /\ r[m] = es[m - Len(s)]
  BY Joined, ConcatIsSeq
<1> HIDE DEF r
<1>2. ASSUME NEW i \in 1 .. Len(r), Remarks(r[i], k)
      PROVE  /\ r[i].type = "session.state.changed" => k \in c2
             /\ (\A m \in 1 .. Len(r) : i < m => ~Moves(r[m], k)) =>
                  q.alive /\ (r[i].type = "runtime.error" => Near(0, q, d2))
  <2>1. CASE i \in 1 .. Len(s) /\ r[i] = s[i]
    <3>1. r[i].type = "session.state.changed" => k \in c2
      BY <1>2, <2>1 DEF Remarked
    <3>2. ASSUME \A m \in 1 .. Len(r) : i < m => ~Moves(r[m], k)
          PROVE  q.alive /\ (r[i].type = "runtime.error" => Near(0, q, d2))
      <4>1. \A m \in 1 .. Len(s) : i < m => ~Moves(s[m], k)
        BY <1>1, <3>2
      <4>2. \A m \in 1 .. Len(es) : i < Len(s) + m /\ Len(s) + m \in 1 .. Len(r)
        BY <1>1, <2>1
      <4>3. Still(es, k)
        BY <1>1, <3>2, <4>2 DEF Still
      <4>4. p = q
        BY <4>3 DEF Runs
      <4>5. q.alive /\ (r[i].type = "runtime.error" => Near(0, q, d))
        BY <1>2, <2>1, <4>1, <4>4 DEF Remarked
      <4> QED
        BY <4>5 DEF Near
    <3> QED
      BY <3>1, <3>2
  <2>2. CASE i > Len(s) /\ i - Len(s) \in 1 .. Len(es) /\ r[i] = es[i - Len(s)]
    BY <1>2, <2>2 DEF Fair
  <2> QED
    BY <1>1, <2>1, <2>2
<1> QED
  BY <1>2 DEF Remarked, r

LEMMA ToldTracked ==
  ASSUME NEW s \in Seq(GoodEvent), NEW es \in Seq(GoodEvent), NEW k, NEW p, NEW q, NEW session,
         NEW reading, NEW d, NEW d2, d \subseteq d2, NEW c, NEW c2, c \subseteq c2,
         Tracked(s, k, p, session, reading, d, c), Runs(es, k, p, q), Fair(es, k, q, d2, c2)
  PROVE  Tracked(s \o es, k, q, session, reading, d2, c2)
<1>1. Chained(s \o es, k) /\ EndsAt(s \o es, k, q)
  BY ChainJoins DEF Tracked
<1>2. Ready(s \o es, k, session.active, q, d2)
  BY ReadyTold DEF Tracked
<1>3. Remarked(s \o es, k, q, d2, c2)
  BY RemarkedTold DEF Tracked
<1>4. Held(reading, s \o es, k, q, d2)
  BY ReadyTold DEF Tracked, Held
<1>5. Worded(session, k, c2)
  BY DEF Tracked, Worded
<1> QED
  BY <1>1, <1>2, <1>3, <1>4, <1>5 DEF Tracked

\* More is told, or nothing: the session shown stays.
LEMMA ToldTracks ==
  ASSUME Typed, NEW k \in Threads, Tracks(k), NEW es \in Seq(GoodEvent),
         Stream' = Stream \o es, ingestion'.reading = ingestion.reading,
         Runs(es, k, Position(provider[k]), Position(provider'[k])),
         Fair(es, k, Position(provider'[k]), past'.disowned, past'.claimed),
         shown'[k] = shown[k], k \in Settled => k \in Settled',
         past.disowned \subseteq past'.disowned, past.claimed \subseteq past'.claimed
  PROVE  Tracks(k)'
<1> DEFINE s == Stream
           p == Position(provider[k])
           q == Position(provider'[k])
<1>1. /\ s \in Seq(GoodEvent)
      /\ Tracked(s, k, p, shown[k], ingestion.reading, past.disowned, past.claimed)
      /\ Still(s, k) => Found(k)
  BY StreamIsSeq DEF Tracks
<1>2. Runs(es, k, p, q) /\ Fair(es, k, q, past'.disowned, past'.claimed)
  OBVIOUS
<1>3. Stream' = s \o es
  OBVIOUS
<1>4. p = q => provider'[k].alive = provider[k].alive
  BY PositionOf
<1>5. q = Position(provider[k])'
  BY DEF Position
<1> HIDE DEF s, p, q
<1>6. Tracked(s \o es, k, q, shown[k], ingestion.reading, past'.disowned, past'.claimed)
  BY <1>1, <1>2, ToldTracked
<1>7. Still(s \o es, k) => Found(k)'
  <2> SUFFICES ASSUME Still(s \o es, k) PROVE Found(k)'
    OBVIOUS
  <2>1. Still(s, k) /\ Still(es, k)
    BY <1>1, StillJoined
  <2>2. provider'[k].alive = provider[k].alive
    BY <1>2, <1>4, <2>1 DEF Runs
  <2> QED
    BY <1>1, <2>1, <2>2 DEF Found, LooksStopped
<1> QED
  BY <1>3, <1>5, <1>6, <1>7, TracksNext DEF TracksIf

\* Nothing is told of k.
LEMMA ToldNothing ==
  ASSUME Typed, NEW k \in Threads, Tracks(k), Stream' = Stream \o <<>>,
         ingestion'.reading = ingestion.reading, provider'[k] = provider[k],
         shown'[k] = shown[k], k \in Settled => k \in Settled',
         past.disowned \subseteq past'.disowned, past.claimed \subseteq past'.claimed
  PROVE  Tracks(k)'
<1> DEFINE none == <<>>
<1>1. none \in Seq(GoodEvent) /\ Stream' = Stream \o none /\ \A i \in 1 .. Len(none) : FALSE
  BY TellsNone, EmptyIsSeq
<1> HIDE DEF none
<1>2. Runs(none, k, Position(provider[k]), Position(provider'[k]))
  BY <1>1, StillRuns DEF Still
<1>3. Fair(none, k, Position(provider'[k]), past'.disowned, past'.claimed)
  BY <1>1 DEF Fair
<1> QED
  BY <1>1, <1>2, <1>3, ToldTracks

\* The reactor shows a session without a turn.
LEMMA ShownTracks ==
  ASSUME Typed, NEW k \in Threads, Tracks(k), UNCHANGED <<provider, ingestion, past>>,
         NEW status \in {"ready", "stopped"},
         shown'[k] = [status |-> status, active |-> 0], provider[k].turn = 0,
         ~provider[k].alive => status = "stopped" \/ k \in bound'
  PROVE  Tracks(k)'
<1> DEFINE s == Stream
           q == Position(provider[k])
           none == [status |-> status, active |-> 0]
<1>1. /\ Tracked(s, k, q, shown[k], ingestion.reading, past.disowned, past.claimed)
      /\ Stream' = s /\ q = Position(provider[k])' /\ q.turn = 0 /\ shown'[k] = none
  BY PositionOf DEF Tracks, Stream, Calm
<1>2. none.active = 0 /\ none.status # "running"
  OBVIOUS
<1>3. Found(k)'
  BY DEF Found, LooksStopped, Settled
<1> HIDE DEF s, q, none
<1>4. Ready(s, k, none.active, q, past.disowned)
  <2>1. StartShows(s, k, 0)
    BY <1>1, FitsShows DEF Tracked, Ready, StartShows
  <2> QED
    BY <1>1, <1>2, <2>1 DEF Ready, Near
<1>5. Worded(none, k, past.claimed)
  BY <1>2 DEF Worded
<1>6. Tracked(s, k, q, none, ingestion.reading, past.disowned, past.claimed)
  BY <1>1, <1>4, <1>5 DEF Tracked
<1> QED
  BY <1>1, <1>3, <1>6, TracksNext DEF TracksIf

\* Threads excepted stay excepted, and what is known of turns and sessions stays known.
Kept(k) ==
    /\ k \notin past'.stale \cup past'.ignored => k \notin past.stale \cup past.ignored
    /\ past.disowned \subseteq past'.disowned /\ past.claimed \subseteq past'.claimed

\* The session of o is replaced by s, and es told of it; shown sessions stay.
LEMMA MovedTracks ==
  ASSUME Typed, ShownInv, NEW o \in Threads, NEW s \in GoodSession,
         provider' = [provider EXCEPT ![o] = s], NEW es, Tells(es, o), Tell(es),
         o \in past'.stale \/ Leads(es, o, Position(provider[o]), Position(s)), UNCHANGED shown,
         \A k \in Threads : Kept(k), Settled \subseteq Settled'
  PROVE  \A k \in Threads \ (past'.stale \cup past'.ignored) : Tracks(k)'
<1> SUFFICES ASSUME NEW k \in Threads \ (past'.stale \cup past'.ignored) PROVE Tracks(k)'
  OBVIOUS
<1>1. Tracks(k) /\ past.disowned \subseteq past'.disowned /\ past.claimed \subseteq past'.claimed
  BY DEF ShownInv, Kept
<1>2. es \in Seq(GoodEvent) /\ \A i \in 1 .. Len(es) : es[i].thread = o
  BY DEF Tells
<1>3. Stream' = Stream \o es /\ ingestion'.reading = ingestion.reading
  BY <1>2, StreamTold, TellFields
<1>4. provider'[k] = IF k = o THEN s ELSE provider[k]
  BY DEF Typed, ProviderType
<1>5. Leads(es, k, Position(provider[k]), Position(provider'[k]))
  <2>1. CASE k = o
    BY <1>4, <2>1
  <2>2. CASE k # o
    <3>1. \A i \in 1 .. Len(es) : ~Moves(es[i], k) /\ ~Remarks(es[i], k)
      BY <1>2, <2>2 DEF Moves, Remarks
    <3> QED
      BY <1>4, <2>2, <3>1, StillLeads
  <2> QED
    BY <2>1, <2>2
<1>6. /\ Runs(es, k, Position(provider[k]), Position(provider'[k]))
      /\ Fair(es, k, Position(provider'[k]), past'.disowned, past'.claimed)
  BY <1>5 DEF Leads, Fair
<1> QED
  BY <1>1, <1>2, <1>3, <1>6, ToldTracks

\* Nothing is told.
LEMMA QuietTracks ==
  ASSUME Typed, ShownInv, UNCHANGED <<provider, shown>>,
         ingestion'.runtime = ingestion.runtime, ingestion'.reading = ingestion.reading,
         \A k \in Threads : Kept(k), Settled \subseteq Settled'
  PROVE  \A k \in Threads \ (past'.stale \cup past'.ignored) : Tracks(k)'
<1> SUFFICES ASSUME NEW k \in Threads \ (past'.stale \cup past'.ignored) PROVE Tracks(k)'
  OBVIOUS
<1>1. Tracks(k) /\ past.disowned \subseteq past'.disowned /\ past.claimed \subseteq past'.claimed
  BY DEF ShownInv, Kept
<1>2. Stream' = Stream \o <<>>
  BY StreamSame
<1> QED
  BY <1>1, <1>2, ToldNothing

\* The first event of the stream is worked off, and y is shown.
LEMMA WorkedTracked ==
  ASSUME NEW s \in Seq(GoodEvent), s # <<>>, NEW k, NEW q, NEW session, NEW reading, NEW d, NEW c,
         Tracked(s, k, q, session, reading, d, c), NEW y,
         \/ ~Moves(s[1], k) /\ Ready(s, k, y.active, q, d) /\ Worded(y, k, c)
         \/ Moves(s[1], k) /\ \E a : Shows(s[1], a) /\ y \in ShownAfter(s[1], a)
  PROVE  /\ Tracked(Tail(s), k, q, y, <<>>, d, c)
         /\ Moves(s[1], k) /\ Still(Tail(s), k) /\ ~q.alive => y.status = "stopped"
         /\ ~Moves(s[1], k) => (Still(Tail(s), k) <=> Still(s, k))
<1> DEFINE r == Tail(s)
           e == s[1]
<1>1. Chained(s, k) /\ EndsAt(s, k, q) /\ Remarked(s, k, q, d, c)
  BY DEF Tracked
<1>2. Chained(r, k) /\ EndsAt(r, k, q)
  BY <1>1, StoryPasses
<1>3. Remarked(r, k, q, d, c)
  <2> HIDE DEF r
  <2>1. /\ Len(s) \in Nat /\ Len(s) > 0 /\ Len(r) \in Nat /\ Len(r) = Len(s) - 1
        /\ \A i \in 1 .. Len(r) : i + 1 \in 1 .. Len(s) /\ r[i] = s[i + 1]
        /\ \A i \in 1 .. Len(s) : i # 1 => i - 1 \in 1 .. Len(r) /\ r[i - 1] = s[i]
    BY Shifted DEF r
  <2> SUFFICES ASSUME NEW i \in 1 .. Len(r), Remarks(r[i], k)
               PROVE  /\ r[i].type = "session.state.changed" => k \in c
                      /\ (\A m \in 1 .. Len(r) : i < m => ~Moves(r[m], k)) =>
                           q.alive /\ (r[i].type = "runtime.error" => Near(0, q, d))
    BY DEF Remarked
  <2>2. i + 1 \in 1 .. Len(s) /\ r[i] = s[i + 1]
    BY <2>1
  <2>3. (\A m \in 1 .. Len(r) : i < m => ~Moves(r[m], k)) =>
          \A m \in 1 .. Len(s) : i + 1 < m => ~Moves(s[m], k)
    <3>1. \A m \in 1 .. Len(s) : i + 1 < m =>
            m - 1 \in 1 .. Len(r) /\ r[m - 1] = s[m] /\ i < m - 1
      BY <2>1
    <3> QED
      BY <3>1
  <2> QED
    BY <1>1, <2>2, <2>3 DEF Remarked
<1>4. Held(<<>>, r, k, q, d)
  BY DEF Held
<1>5. CASE ~Moves(e, k) /\ Ready(s, k, y.active, q, d) /\ Worded(y, k, c)
  <2>1. /\ Still(r, k) <=> Still(s, k)
        /\ \A a : StartShows(s, k, a) => StartShows(r, k, a)
    BY <1>1, <1>5, StoryPasses
  <2>2. Ready(r, k, y.active, q, d)
    BY <1>5, <2>1 DEF Ready
  <2> QED
    BY <1>2, <1>3, <1>4, <1>5, <2>1, <2>2 DEF Tracked
<1>6. CASE Moves(e, k) /\ \E a : Shows(e, a) /\ y \in ShownAfter(e, a)
  <2>1. /\ y.active = After(e).turn /\ (~After(e).alive => y.status = "stopped")
        /\ Worded(y, k, {})
    BY <1>6, ShownRight
  <2>2. /\ \A i \in 1 .. Len(r) : First(r, i, k) => Fits(After(e), r[i])
        /\ Still(r, k) => After(e) = q
    BY <1>1, <1>6, StoryPasses
  <2> HIDE DEF r, e
  <2>3. StartShows(r, k, y.active)
    BY <2>1, <2>2, FitsShows DEF StartShows
  <2>4. Still(r, k) => Near(y.active, q, d)
    BY <2>1, <2>2 DEF Near
  <2>5. Worded(y, k, c)
    BY <2>1 DEF Worded
  <2>6. Tracked(r, k, q, y, <<>>, d, c)
    BY <1>2, <1>3, <1>4, <2>3, <2>4, <2>5 DEF Tracked, Ready
  <2> QED
    BY <1>6, <2>1, <2>2, <2>6 DEF r, e
<1> QED
  BY <1>5, <1>6

LEMMA WorkedTracks ==
  ASSUME Typed, NEW k \in Threads, Tracks(k), Stream # <<>>, Stream' = Tail(Stream),
         ingestion'.reading = <<>>, UNCHANGED <<provider, commands, bound, past>>,
         \/ /\ ~Moves(Stream[1], k)
            /\ Ready(Stream, k, shown'[k].active, Position(provider[k]), past.disowned)
            /\ Worded(shown'[k], k, past.claimed)
            /\ Still(Stream, k) => Found(k)'
         \/ /\ Moves(Stream[1], k)
            /\ \E a : Shows(Stream[1], a) /\ shown'[k] \in ShownAfter(Stream[1], a)
  PROVE  Tracks(k)'
<1> DEFINE s == Stream
           q == Position(provider[k])
           y == shown'[k]
<1>1. /\ s \in Seq(GoodEvent) /\ s # <<>> /\ Stream' = Tail(s)
      /\ Tracked(s, k, q, shown[k], ingestion.reading, past.disowned, past.claimed)
  BY StreamIsSeq DEF Tracks
<1>2. q.alive = provider[k].alive /\ q = Position(provider[k])'
  BY PositionOf DEF Position
<1>3. \/ /\ ~Moves(s[1], k) /\ Ready(s, k, y.active, q, past.disowned)
         /\ Worded(y, k, past.claimed) /\ (Still(s, k) => Found(k)')
      \/ Moves(s[1], k) /\ \E a : Shows(s[1], a) /\ y \in ShownAfter(s[1], a)
  OBVIOUS
<1>4. y = shown'[k]
  OBVIOUS
<1> HIDE DEF s, q, y
<1>5. /\ Tracked(Tail(s), k, q, y, <<>>, past.disowned, past.claimed)
      /\ Moves(s[1], k) /\ Still(Tail(s), k) /\ ~q.alive => y.status = "stopped"
      /\ ~Moves(s[1], k) => (Still(Tail(s), k) <=> Still(s, k))
  BY <1>1, <1>3, WorkedTracked
<1>6. Still(Tail(s), k) => Found(k)'
  <2>1. CASE Moves(s[1], k)
    BY <1>2, <1>4, <1>5, <2>1 DEF Found, LooksStopped
  <2>2. CASE ~Moves(s[1], k)
    BY <1>3, <1>5, <2>2
  <2> QED
    BY <2>1, <2>2
<1> QED
  BY <1>1, <1>2, <1>4, <1>5, <1>6, TracksNext DEF TracksIf

---------------------------------------------------------------------------
(* What is told, as a story.                                               *)

\* A session that is there, or is not, and runs nothing.
Rest(alive) == [alive |-> alive, turn |-> 0]

LEMMA EventLeads ==
  ASSUME NEW k, NEW t, NEW p,
         NEW type \in {"session.started", "session.exited", "turn.started", "turn.completed"},
         Fits(p, Event(type, k, t, 0))
  PROVE  LET e == Event(type, k, t, 0) IN
         /\ Leads(<<e>>, k, p, After(e))
         /\ After(e) = [alive |-> type # "session.exited",
                        turn |-> IF type = "turn.started" THEN t ELSE 0]
<1> DEFINE e == Event(type, k, t, 0)
<1>1. e.type = type /\ e.thread = k /\ e.turn = t /\ Fits(p, e)
  BY DEF Event
<1> HIDE DEF e
<1>2. Moves(e, k)
  BY <1>1 DEF Moves
<1>3. Leads(<<e>>, k, p, After(e))
  BY <1>1, <1>2, OneLeads
<1>4. After(e) = [alive |-> type # "session.exited",
                  turn |-> IF type = "turn.started" THEN t ELSE 0]
  <2>1. e.type \in {"turn.started", "runtime.error"} <=> type = "turn.started"
    BY <1>1
  <2> QED
    BY <1>1, <2>1 DEF After
<1> QED
  BY <1>3, <1>4 DEF e

LEMMA StartedLeads ==
  ASSUME NEW k
  PROVE  Leads(<<Event("session.started", k, 0, 0)>>, k, Rest(FALSE), Rest(TRUE))
<1>1. Fits(Rest(FALSE), Event("session.started", k, 0, 0))
  BY DEF Fits, Rest, Event
<1>2. "session.started" # "session.exited" /\ "session.started" # "turn.started"
  OBVIOUS
<1> QED
  BY <1>1, <1>2, EventLeads DEF Rest

LEMMA BeganLeads ==
  ASSUME NEW k, NEW t, t # 0
  PROVE  Leads(<<Event("turn.started", k, t, 0)>>, k, Rest(TRUE), [alive |-> TRUE, turn |-> t])
<1>1. Fits(Rest(TRUE), Event("turn.started", k, t, 0))
  BY DEF Fits, Rest, Event
<1>2. "turn.started" # "session.exited"
  OBVIOUS
<1> QED
  BY <1>1, <1>2, EventLeads

LEMMA EndedLeads ==
  ASSUME NEW k, NEW t
  PROVE  Leads(<<Event("turn.completed", k, t, 0)>>, k, [alive |-> TRUE, turn |-> t], Rest(TRUE))
<1> DEFINE p == [alive |-> TRUE, turn |-> t]
<1>1. Fits(p, Event("turn.completed", k, t, 0))
  BY DEF Fits, Event
<1>2. "turn.completed" # "session.exited" /\ "turn.completed" # "turn.started"
  OBVIOUS
<1> HIDE DEF p
<1>3. Leads(<<Event("turn.completed", k, t, 0)>>, k, p, Rest(TRUE))
  BY <1>1, <1>2, EventLeads DEF Rest
<1> QED
  BY <1>3 DEF p

LEMMA ExitedLeads ==
  ASSUME NEW k, NEW t
  PROVE  Leads(<<Event("session.exited", k, 0, 0)>>, k, [alive |-> TRUE, turn |-> t], Rest(FALSE))
<1> DEFINE p == [alive |-> TRUE, turn |-> t]
<1>1. Fits(p, Event("session.exited", k, 0, 0))
  BY DEF Fits, Event
<1>2. "session.exited" # "turn.started"
  OBVIOUS
<1> HIDE DEF p
<1>3. Leads(<<Event("session.exited", k, 0, 0)>>, k, p, Rest(FALSE))
  BY <1>1, <1>2, EventLeads DEF Rest
<1> QED
  BY <1>3 DEF p

LEMMA NothingLeads == ASSUME NEW k, NEW p PROVE Leads(<<>>, k, p, p)
<1> DEFINE none == <<>>
<1>1. \A i \in 1 .. Len(none) : FALSE
  BY TellsNone
<1> HIDE DEF none
<1>2. Leads(none, k, p, p)
  BY <1>1, StillLeads
<1> QED
  BY <1>2 DEF none

\* The position of a session that is there, or not.
LEMMA PositionIs ==
  ASSUME Typed, NEW k \in Threads
  PROVE  /\ Position(NoSession) = Rest(FALSE)
         /\ Position([NoSession EXCEPT !.alive = TRUE]) = Rest(TRUE)
         /\ ~provider[k].alive => Position(provider[k]) = Rest(FALSE)
         /\ provider[k].alive => Position(provider[k]) = [alive |-> TRUE, turn |-> provider[k].turn]
<1>1. provider[k] \in GoodSession
  BY SessionOf
<1>2. Position(NoSession) = Rest(FALSE)
  BY DEF Position, NoSession, Rest
<1>3. Position([NoSession EXCEPT !.alive = TRUE]) = Rest(TRUE)
  BY DEF Position, NoSession, Rest
<1>4. ~provider[k].alive => provider[k] = NoSession
  BY <1>1 DEF GoodSession
<1>5. provider[k].alive => provider[k].alive = TRUE
  BY <1>1 DEF GoodSession
<1> QED
  BY <1>2, <1>3, <1>4, <1>5 DEF Position

LEMMA FarewellLeads ==
  ASSUME Typed, NEW k \in Threads, NEW told \in Farewell(k)
  PROVE  Leads(told, k, Position(provider[k]), Rest(FALSE))
<1> DEFINE t == provider[k].turn
           exited == Event("session.exited", k, 0, 0)
           ended == Event("turn.completed", k, t, 0)
           p == [alive |-> TRUE, turn |-> t]
<1>1. CASE ~provider[k].alive
  <2>1. told = <<>> /\ Position(provider[k]) = Rest(FALSE)
    BY <1>1, PositionIs DEF Farewell
  <2> QED
    BY <2>1, NothingLeads
<1>2. CASE provider[k].alive
  <2>1. told = <<exited>> \/ told = <<ended, exited>>
    BY <1>2 DEF Farewell
  <2>2. Position(provider[k]) = p
    BY <1>2, PositionIs
  <2>3. /\ Leads(<<exited>>, k, p, Rest(FALSE)) /\ Leads(<<ended>>, k, p, Rest(TRUE))
        /\ Leads(<<exited>>, k, Rest(TRUE), Rest(FALSE))
    BY ExitedLeads, EndedLeads DEF Rest
  <2>4. exited \in GoodEvent /\ ended \in GoodEvent
    BY SessionOf, EventIsGood, TurnAssumption DEF Lifecycle
  <2> HIDE DEF exited, ended, p
  <2>5. <<exited>> \in Seq(GoodEvent) /\ <<ended>> \in Seq(GoodEvent)
    BY <2>4, OneIsSeq
  <2>6. Leads(<<ended>> \o <<exited>>, k, p, Rest(FALSE))
    BY <2>3, <2>5, LeadsJoin
  <2>7. <<ended, exited>> = <<ended>> \o <<exited>>
    OBVIOUS
  <2> QED
    BY <2>1, <2>2, <2>3, <2>6, <2>7
<1> QED
  BY <1>1, <1>2

\* A turn that ends, and the next that begins.
LEMMA TurnEndsLeads ==
  ASSUME Typed, NEW k \in Threads, provider[k].turn # 0, TurnEnds(k)
  PROVE  \E s \in GoodSession, es \in Seq(GoodEvent) :
            /\ provider' = [provider EXCEPT ![k] = s] /\ Tells(es, k) /\ Tell(es)
            /\ Leads(es, k, Position(provider[k]), Position(s))
<1> DEFINE t == provider[k].turn
           s == NextTurn(provider[k])
           ended == Event("turn.completed", k, t, 0)
           began == Event("turn.started", k, s.turn, 0)
           es == <<ended>> \o (IF s.turn # 0 THEN <<began>> ELSE <<>>)
<1>1. provider[k].alive /\ t \in 0 .. MaxTurns
  BY SessionOf
<1>2. provider' = [provider EXCEPT ![k] = s] /\ Tell(es)
  BY DEF TurnEnds
<1>3. s \in GoodSession /\ s.alive /\ s.turn \in 0 .. MaxTurns
  <2>1. \E x \in GoodSession : provider' = [provider EXCEPT ![k] = x] /\ x.alive
    BY TurnEndsTells
  <2> HIDE DEF s
  <2>2. s \in GoodSession /\ s.alive
    BY <1>2, <2>1 DEF Typed, ProviderType
  <2> QED
    BY <2>2 DEF GoodSession
<1>4. Position(provider[k]) = [alive |-> TRUE, turn |-> t]
  BY <1>1, PositionIs
<1>5. Position(s) = [alive |-> TRUE, turn |-> s.turn]
  <2>1. s.alive = TRUE
    BY <1>3 DEF GoodSession
  <2> QED
    BY <2>1 DEF Position
<1> HIDE DEF s
<1>6. /\ Tells(<<ended>>, k) /\ Leads(<<ended>>, k, Position(provider[k]), Rest(TRUE))
      /\ <<ended>> \in Seq(GoodEvent)
  <2>1. Tells(<<ended>>, k)
    BY <1>1, TellsOne DEF Lifecycle
  <2> QED
    BY <1>4, <2>1, EndedLeads DEF Tells
<1> DEFINE more == IF s.turn # 0 THEN <<began>> ELSE <<>>
<1>7. Tells(more, k) /\ Leads(more, k, Rest(TRUE), Position(s)) /\ more \in Seq(GoodEvent)
  <2>1. CASE s.turn = 0
    <3>1. more = <<>> /\ Position(s) = Rest(TRUE)
      BY <1>5, <2>1 DEF Rest
    <3> QED
      BY <3>1, TellsNone, NothingLeads DEF Tells
  <2>2. CASE s.turn # 0
    <3>1. more = <<began>>
      BY <2>2
    <3>2. Tells(<<began>>, k)
      BY <1>3, TellsOne DEF Lifecycle
    <3> QED
      BY <1>5, <2>2, <3>1, <3>2, BeganLeads DEF Tells
  <2> QED
    BY <2>1, <2>2
<1>8. es = <<ended>> \o more
  OBVIOUS
<1> HIDE DEF ended, more, es
<1>9. Tells(es, k) /\ Leads(es, k, Position(provider[k]), Position(s))
  BY <1>6, <1>7, <1>8, TellsJoined, LeadsJoin
<1>10. es \in Seq(GoodEvent)
  BY <1>9 DEF Tells
<1> QED
  BY <1>2, <1>3, <1>9, <1>10

\* A session is recovered, and given a turn.
LEMMA RoutedLeads ==
  ASSUME Typed, NEW k \in Threads
  PROVE  Leads(Recovery(k), k, Position(provider[k]), Position(Routed(k)))
<1>1. CASE provider[k].alive
  BY <1>1, NothingLeads DEF Recovery, Routed
<1>2. CASE ~provider[k].alive
  BY <1>2, PositionIs, StartedLeads DEF Recovery, Routed
<1> QED
  BY <1>1, <1>2

LEMMA WithTurnLeads ==
  ASSUME NEW p \in GoodSession, p.alive, NEW t \in Turns, NEW k
  PROVE  Leads(TurnStarted(p, k, t), k, Position(p), Position(WithTurn(p, t)))
<1>1. p \in [alive : BOOLEAN, turn : 0 .. MaxTurns, queue : Seq(Turns)] /\ p.alive = TRUE /\ t # 0
  BY TurnAssumption DEF GoodSession, Turns
<1>2. CASE p.turn = 0
  <2>1. Position(p) = Rest(TRUE) /\ Position(WithTurn(p, t)) = [alive |-> TRUE, turn |-> t]
    BY <1>1, <1>2 DEF Position, Rest, WithTurn
  <2> QED
    BY <1>1, <1>2, <2>1, BeganLeads DEF TurnStarted
<1>3. CASE p.turn # 0
  <2>1. Position(WithTurn(p, t)) = Position(p)
    BY <1>1, <1>3 DEF Position, WithTurn
  <2> QED
    BY <1>3, <2>1, NothingLeads DEF TurnStarted
<1> QED
  BY <1>2, <1>3

---------------------------------------------------------------------------
(* No action breaks it.                                                    *)

\* The parts of ShownInv that an action leaves alone.
LEMMA AtHandStays ==
  ASSUME Typed, AtHand, UNCHANGED <<commands.work, bound>>,
         \A k \in Threads : \/ provider'[k] = provider[k] \/ provider'[k] = NoSession
                            \/ provider[k].turn # 0
  PROVE  AtHand'
<1> SUFFICES ASSUME commands.work.op = "bind"
             PROVE  LET k == commands.work.thread IN
                    provider'[k].turn = 0 /\ provider'[k].queue = <<>> /\ k \in bound
  BY DEF AtHand
<1>1. commands.work.thread \in Threads
  BY WorkAtHand
<1>2. NoSession.turn = 0 /\ NoSession.queue = <<>>
  BY DEF NoSession
<1> QED
  BY <1>1, <1>2 DEF AtHand

LEMMA SettledStays ==
  ASSUME bound \subseteq bound',
         commands.work.op # "stopped" \/ commands'.work = commands.work
  PROVE  Settled \subseteq Settled'
  BY DEF Settled

LEMMA SettledIdle ==
  ASSUME commands.work = Idle
  PROVE  Settled = bound
  BY IdleIsWork DEF Settled

PastStays ==
    /\ past'.ignored = past.ignored /\ past'.stale = past.stale
    /\ past'.disowned = past.disowned /\ past'.claimed = past.claimed

LEMMA KeptAll == ASSUME PastStays, NEW k PROVE Kept(k)
  BY DEF Kept, PastStays

LEMMA StoppedStays ==
  ASSUME StoppedHasNone, UNCHANGED shown
  PROVE  StoppedHasNone'
  BY DEF StoppedHasNone, LooksStopped

LEMMA QuietShown ==
  ASSUME Typed, ShownInv, RequestTurn \/ RequestStop \/ TakeStart \/ TakeRestart \/ TakeMode
  PROVE  ShownInv'
<1>1. /\ UNCHANGED <<provider, shown, bound>>
      /\ PastStays
      /\ ingestion'.runtime = ingestion.runtime /\ ingestion'.reading = ingestion.reading
      /\ \/ commands'.work = commands.work
         \/ commands.work = Idle /\ commands'.work.op \notin {"bind", "stopped"}
  BY QuietParts DEF PastStays
<1>2. Settled \subseteq Settled'
  BY <1>1, IdleIsWork, SettledStays
<1>3. \A k \in Threads \ (past'.stale \cup past'.ignored) : Tracks(k)'
  BY <1>1, <1>2, KeptAll, QuietTracks
<1>4. AtHand'
  <2>1. CASE commands'.work = commands.work
    BY <1>1, <2>1, AtHandStays DEF ShownInv
  <2>2. CASE commands'.work.op # "bind"
    BY <2>2 DEF AtHand
  <2> QED
    BY <1>1, <2>1, <2>2
<1>5. StoppedHasNone'
  BY <1>1, StoppedStays DEF ShownInv
<1> QED
  BY <1>3, <1>4, <1>5 DEF ShownInv

LEMMA SpeakShown == ASSUME Typed, ShownInv, NEW o \in Threads, Speak(o) PROVE ShownInv'
<1>1. UNCHANGED <<provider, shown, past, commands, bound>>
  BY DEF Speak
<1>2. PICK e \in GoodEvent : Tell(<<e>>) /\ e.type \notin Lifecycle
  BY SpeakTells
<1> DEFINE es == <<e>>
<1>3. es \in Seq(GoodEvent) /\ Len(es) = 1 /\ es[1] = e
  BY OneIsSeq
<1>4. Stream' = Stream \o es /\ ingestion'.reading = ingestion.reading
  BY <1>2, <1>3, StreamTold, TellFields
<1> HIDE DEF es
<1>5. ASSUME NEW k \in Threads \ (past'.stale \cup past'.ignored) PROVE Tracks(k)'
  <2>1. \A i \in 1 .. Len(es) : ~Moves(es[i], k) /\ ~Remarks(es[i], k)
    BY <1>2, <1>3 DEF Moves, Remarks, Noted, Lifecycle
  <2>2. Runs(es, k, Position(provider[k]), Position(provider'[k]))
    BY <1>1, <2>1, StillRuns DEF Still
  <2>3. Fair(es, k, Position(provider'[k]), past'.disowned, past'.claimed)
    BY <2>1 DEF Fair
  <2>4. Tracks(k) /\ (k \in Settled => k \in Settled')
    BY <1>1 DEF ShownInv, Settled
  <2> QED
    BY <1>1, <1>3, <1>4, <2>2, <2>3, <2>4, ToldTracks
<1>6. AtHand' /\ StoppedHasNone'
  BY <1>1, AtHandStays, StoppedStays DEF ShownInv
<1> QED
  BY <1>5, <1>6 DEF ShownInv

\* A remark names the turn that runs, or none.
LEMMA RemarkShown == ASSUME Typed, ShownInv, NEW o \in Threads, Remark(o) PROVE ShownInv'
<1>1. UNCHANGED <<provider, shown, commands, bound>> /\ provider[o].alive
  BY DEF Remark
<1>2. /\ past'.ignored = past.ignored /\ past'.stale = past.stale
      /\ past.disowned \subseteq past'.disowned /\ past.claimed \subseteq past'.claimed
  BY RemarkTells
<1>3. PICK e \in GoodEvent :
        /\ Tell(<<e>>) /\ e.type \in Noted /\ e.thread = o
        /\ e.type = "runtime.error" => \/ e.turn = provider[o].turn
                                       \/ provider[o].turn \in {0} \cup past'.disowned
        /\ e.type = "runtime.error" => e.turn \in {0, provider[o].turn}
        /\ e.type = "session.state.changed" => o \in past'.claimed
  BY RemarkTells
<1> DEFINE es == <<e>>
<1>4. es \in Seq(GoodEvent) /\ Len(es) = 1 /\ es[1] = e /\ es = <<e>>
  BY OneIsSeq
<1>5. Stream' = Stream \o es /\ ingestion'.reading = ingestion.reading
  BY <1>3, <1>4, StreamTold, TellFields
<1> HIDE DEF es
<1>6. \A i \in 1 .. Len(es) : es[i] = e
  BY <1>4
<1>7. ASSUME NEW k \in Threads \ (past'.stale \cup past'.ignored) PROVE Tracks(k)'
  <2> DEFINE q == Position(provider[k])
  <2>1. q.alive = provider[k].alive /\ q.turn = provider[k].turn /\ q = Position(provider'[k])
    BY <1>1, PositionOf
  <2>2. Tracks(k) /\ (k \in Settled => k \in Settled')
    BY <1>1, <1>2 DEF ShownInv, Settled
  <2>3. Runs(es, k, q, q)
    <3>1. CASE Moves(e, k)
      <4>1. k = o /\ e.type = "runtime.error" /\ e.turn = provider[k].turn /\ e.turn # 0
        BY <1>3, <3>1 DEF Moves, Noted
      <4>2. provider[k].alive = TRUE
        BY <4>1, SessionOf DEF GoodSession
      <4>3. Fits(q, e)
        BY <2>1, <4>1, <4>2 DEF Fits
      <4>4. After(e) = q
        BY <4>1, <4>2 DEF After, Position
      <4> QED
        BY <1>4, <3>1, <4>3, <4>4, OneLeads DEF Leads
    <3>2. CASE ~Moves(e, k)
      BY <1>6, <3>2, StillRuns DEF Still
    <3> QED
      BY <3>1, <3>2
  <2>4. Fair(es, k, q, past'.disowned, past'.claimed)
    <3> SUFFICES ASSUME Remarks(e, k)
                 PROVE  /\ e.type = "session.state.changed" => k \in past'.claimed
                        /\ q.alive /\ (e.type = "runtime.error" => Near(0, q, past'.disowned))
      BY <1>6 DEF Fair
    <3>1. k = o /\ (e.type = "runtime.error" => e.turn = 0)
      BY <1>3 DEF Remarks, Moves
    <3>2. e.type = "runtime.error" => q.turn \in {0} \cup past'.disowned
      BY <1>3, <2>1, <3>1
    <3> QED
      BY <1>1, <1>3, <2>1, <3>1, <3>2 DEF Near
  <2> HIDE DEF q
  <2> QED
    BY <1>1, <1>2, <1>4, <1>5, <2>1, <2>2, <2>3, <2>4, ToldTracks DEF q
<1>8. AtHand' /\ StoppedHasNone'
  BY <1>1, AtHandStays, StoppedStays DEF ShownInv
<1> QED
  BY <1>7, <1>8 DEF ShownInv

\* A turn ends, by itself or interrupted.
LEMMA TurnEndsShown ==
  ASSUME Typed, ShownInv, NEW o \in Threads, provider[o].turn # 0, TurnEnds(o),
         UNCHANGED <<shown, past, bound>>,
         commands'.work = commands.work \/ (commands.work = Idle /\ commands'.work = Idle)
  PROVE  ShownInv'
<1>1. PICK s \in GoodSession, es \in Seq(GoodEvent) :
        /\ provider' = [provider EXCEPT ![o] = s] /\ Tells(es, o) /\ Tell(es)
        /\ Leads(es, o, Position(provider[o]), Position(s))
  BY TurnEndsLeads
<1>2. Settled \subseteq Settled' /\ \A k \in Threads : Kept(k)
  BY SettledStays, KeptAll DEF PastStays
<1>3. \A k \in Threads \ (past'.stale \cup past'.ignored) : Tracks(k)'
  BY <1>1, <1>2, MovedTracks
<1>4. \A k \in Threads : provider'[k] = provider[k] \/ provider[k].turn # 0
  BY <1>1 DEF Typed, ProviderType
<1>5. AtHand'
  BY <1>4, AtHandStays DEF ShownInv
<1> QED
  BY <1>3, <1>5, StoppedStays DEF ShownInv

LEMMA EndTurnShown == ASSUME Typed, ShownInv, NEW k \in Threads, EndTurn(k) PROVE ShownInv'
  BY TurnEndsShown DEF EndTurn

\* The session of o ends.
LEMMA EndsTracks ==
  ASSUME Typed, ShownInv, NEW o \in Threads, \E told \in Farewell(o) : Tell(told),
         provider' = [provider EXCEPT ![o] = NoSession], UNCHANGED shown,
         PastStays, Settled \subseteq Settled'
  PROVE  /\ \A k \in Threads \ (past'.stale \cup past'.ignored) : Tracks(k)'
         /\ \A k \in Threads : provider'[k] = provider[k] \/ provider'[k] = NoSession
<1>1. PICK told \in Farewell(o) : Tell(told)
  OBVIOUS
<1>2. Tells(told, o) /\ Leads(told, o, Position(provider[o]), Position(NoSession))
  BY FarewellTells, FarewellLeads, PositionIs
<1>3. \A k \in Threads \ (past'.stale \cup past'.ignored) : Tracks(k)'
  BY <1>1, <1>2, KeptAll, NoSessionIsGood, MovedTracks
<1>4. \A k \in Threads : provider'[k] = provider[k] \/ provider'[k] = NoSession
  BY DEF Typed, ProviderType
<1> QED
  BY <1>3, <1>4

LEMMA ExitShown == ASSUME Typed, ShownInv, NEW k \in Threads, Exit(k) PROVE ShownInv'
<1>1. PastStays
  BY IgnoredOf DEF Exit, PastStays
<1>2. UNCHANGED <<commands, bound, shown>> /\ Settled \subseteq Settled'
  BY SettledStays DEF Exit
<1>3. /\ \A o \in Threads \ (past'.stale \cup past'.ignored) : Tracks(o)'
      /\ \A o \in Threads : provider'[o] = provider[o] \/ provider'[o] = NoSession
  BY <1>1, <1>2, EndsTracks DEF Exit
<1>4. AtHand' /\ StoppedHasNone'
  BY <1>2, <1>3, AtHandStays, StoppedStays DEF ShownInv
<1> QED
  BY <1>3, <1>4 DEF ShownInv

LEMMA StartSessionShown == ASSUME Typed, ShownInv, StartSession PROVE ShownInv'
<1> DEFINE w == commands.work
           k == w.thread
           started == Event("session.started", k, 0, 0)
           fresh == [NoSession EXCEPT !.alive = TRUE]
<1>1. /\ k \in Threads /\ w.op = "session"
      /\ w \in [op : {"session", "bind", "send", "stopped"}, thread : Threads, turn : 0 .. MaxTurns]
  BY WorkAtHand DEF StartSession
<1>2. UNCHANGED shown
  BY DEF StartSession
<1>3. CASE /\ \E told \in Farewell(k) : Tell(told \o <<started>>)
           /\ provider' = [provider EXCEPT ![k] = fresh]
           /\ bound' = bound \cup {k}
           /\ past' = [past EXCEPT !.cut = @ \cup Unfinished(k)]
           /\ Then([w EXCEPT !.op = "bind"])
  <2>1. PICK told \in Farewell(k) : Tell(told \o <<started>>)
    BY <1>3
  <2> DEFINE es == told \o <<started>>
  <2>2. Tells(told, k) /\ Leads(told, k, Position(provider[k]), Rest(FALSE))
    BY <1>1, FarewellTells, FarewellLeads
  <2>3. Tells(<<started>>, k) /\ Leads(<<started>>, k, Rest(FALSE), Rest(TRUE))
    <3>1. 0 \in 0 .. MaxTurns /\ "session.started" \in Lifecycle
      BY TurnAssumption DEF Lifecycle
    <3>2. Tells(<<started>>, k)
      BY <1>1, <3>1, TellsOne
    <3> QED
      BY <3>2, StartedLeads
  <2>4. fresh \in GoodSession /\ Position(fresh) = Rest(TRUE)
    BY <1>1, FreshSessionIsGood, PositionIs
  <2>5. Tell(es)
    BY <2>1
  <2> DEFINE last == <<started>>
  <2>6. es = told \o last /\ Tells(last, k) /\ Leads(last, k, Rest(FALSE), Rest(TRUE))
    BY <2>3
  <2> HIDE DEF last, es
  <2>7. Tells(es, k) /\ Leads(es, k, Position(provider[k]), Rest(TRUE))
    <3>1. Tells(es, k)
      BY <2>2, <2>6, TellsJoined
    <3>2. told \in Seq(GoodEvent) /\ last \in Seq(GoodEvent)
      BY <2>2, <2>6 DEF Tells
    <3> QED
      BY <2>2, <2>6, <3>1, <3>2, LeadsJoin
  <2>8. PastStays
    BY <1>3, IgnoredOf DEF PastStays
  <2>9. Settled \subseteq Settled' /\ \A o \in Threads : Kept(o)
    BY <1>1, <1>3, <2>8, SettledStays, KeptAll
  <2> HIDE DEF fresh
  <2>10. \A o \in Threads \ (past'.stale \cup past'.ignored) : Tracks(o)'
    BY <1>1, <1>2, <1>3, <2>4, <2>5, <2>7, <2>9, MovedTracks
  <2>11. AtHand'
    <3>1. commands'.work = [w EXCEPT !.op = "bind"]
      BY <1>3, ThenFields
    <3>2. commands'.work.thread = k
      BY <1>1, <3>1
    <3>3. provider'[k] = fresh
      BY <1>1, <1>3 DEF Typed, ProviderType
    <3>4. provider'[k].turn = 0 /\ provider'[k].queue = <<>> /\ k \in bound'
      BY <1>3, <3>3 DEF NoSession, fresh
    <3> QED
      BY <3>2, <3>4 DEF AtHand
  <2> QED
    BY <1>2, <2>10, <2>11, StoppedStays DEF ShownInv
<1>4. CASE /\ Then(Idle)
           /\ \E told \in Farewell(k) : Tell(told)
           /\ provider' = [provider EXCEPT ![k] = NoSession]
           /\ past' = [past EXCEPT !.told = @ \cup ({w.turn} \ {0}), !.cut = @ \cup Unfinished(k)]
           /\ UNCHANGED bound
  <2>1. PastStays
    BY <1>4, IgnoredOf DEF PastStays
  <2>2. Settled \subseteq Settled'
    BY <1>1, <1>4, SettledStays
  <2>3. \A o \in Threads \ (past'.stale \cup past'.ignored) : Tracks(o)'
    BY <1>1, <1>2, <1>4, <2>1, <2>2, EndsTracks
  <2>4. AtHand'
    BY <1>4, ThenFields, IdleIsWork DEF AtHand
  <2> QED
    BY <1>2, <2>3, <2>4, StoppedStays DEF ShownInv
<1> QED
  BY <1>3, <1>4 DEF StartSession

\* The reactor shows a session without a turn on o.
LEMMA SetShown ==
  ASSUME Typed, ShownInv, NEW o \in Threads, NEW status \in {"ready", "stopped"},
         Show(o, status, 0), UNCHANGED <<provider, ingestion, past, bound>>,
         provider[o].turn = 0 \/ o \in past.ignored,
         ~provider[o].alive => status = "stopped" \/ o \in bound,
         \A k \in Threads : k # o /\ k \in Settled => k \in Settled'
  PROVE  /\ \A k \in Threads \ (past'.stale \cup past'.ignored) : Tracks(k)'
         /\ StoppedHasNone'
<1>1. \A k \in Threads :
        shown'[k] = IF k = o THEN [status |-> status, active |-> 0] ELSE shown[k]
  BY DEF Typed, Show, ShownType
<1>2. StoppedHasNone'
  BY <1>1 DEF StoppedHasNone, LooksStopped, ShownInv
<1>3. ASSUME NEW k \in Threads \ (past'.stale \cup past'.ignored) PROVE Tracks(k)'
  <2>1. Tracks(k)
    BY DEF ShownInv
  <2>2. CASE k = o
    <3>1. shown'[o] = [status |-> status, active |-> 0] /\ provider[o].turn = 0 /\ Tracks(o)
      BY <1>1, <2>1, <2>2
    <3> QED
      BY <2>2, <3>1, ShownTracks
  <2>3. CASE k # o
    <3>1. Stream' = Stream \o <<>>
      BY StreamSame
    <3>2. shown'[k] = shown[k] /\ (k \in Settled => k \in Settled')
      BY <1>1, <2>3
    <3> QED
      BY <2>1, <3>1, <3>2, ToldNothing
  <2> QED
    BY <2>2, <2>3
<1> QED
  BY <1>2, <1>3

LEMMA BindShown == ASSUME Typed, ShownInv, Bind PROVE ShownInv'
<1> DEFINE w == commands.work
           k == w.thread
<1>1. /\ k \in Threads /\ w.op = "bind" /\ UNCHANGED <<provider, ingestion, bound>>
      /\ w \in [op : {"session", "bind", "send", "stopped"}, thread : Threads, turn : 0 .. MaxTurns]
  BY WorkAtHand DEF Bind
<1>2. Settled \subseteq Settled'
  BY <1>1, SettledStays
<1>3. AtHand'
  <2>1. commands'.work.op # "bind"
    <3>1. CASE Then(IF w.turn = 0 THEN Idle ELSE [w EXCEPT !.op = "send"])
      <4>1. commands'.work = IF w.turn = 0 THEN Idle ELSE [w EXCEPT !.op = "send"]
        BY <3>1, ThenFields
      <4> QED
        BY <1>1, <4>1, IdleIsWork
    <3>2. CASE Then(Idle)
      BY <3>2, ThenFields, IdleIsWork
    <3> QED
      BY <3>1, <3>2 DEF Bind, Fails
  <2> QED
    BY <2>1 DEF AtHand
<1>4. CASE Show(k, "ready", 0) /\ UNCHANGED past
  <2>1. provider[k].turn = 0 /\ k \in bound
    BY <1>1 DEF ShownInv, AtHand
  <2> QED
    BY <1>1, <1>2, <1>3, <1>4, <2>1, SetShown DEF ShownInv
<1>5. CASE Fails(w) /\ UNCHANGED shown
  <2>1. PastStays
    BY <1>5, IgnoredOf DEF Fails, PastStays
  <2>2. \A o \in Threads \ (past'.stale \cup past'.ignored) : Tracks(o)'
    BY <1>1, <1>2, <1>5, <2>1, KeptAll, QuietTracks
  <2> QED
    BY <1>3, <1>5, <2>2, StoppedStays DEF ShownInv
<1> QED
  BY <1>4, <1>5 DEF Bind

LEMMA SendShown == ASSUME Typed, ShownInv, Send PROVE ShownInv'
<1> DEFINE w == commands.work
           k == w.thread
           r == Routed(k)
           s == WithTurn(r, w.turn)
           back == Recovery(k)
           more == TurnStarted(r, k, w.turn)
           es == back \o more
<1>1. k \in Threads /\ w.turn \in Turns /\ w.op = "send" /\ UNCHANGED <<shown, bound>>
  BY WorkAtHand DEF Send
<1>2. (\A o \in Threads : Kept(o)) /\ commands'.work.op # "bind"
  <2>1. PastStays \/ GivesBack(k, w.turn)
    BY IgnoredOf DEF Send, Fails, PastStays
  <2>2. \A o \in Threads : Kept(o)
    BY <2>1, KeptAll, GivesBackOf DEF Kept
  <2>3. Then(Idle)
    BY DEF Send, Fails, GivesBack
  <2> QED
    BY <2>2, <2>3, ThenFields, IdleIsWork
<1>3. AtHand' /\ StoppedHasNone'
  BY <1>1, <1>2, StoppedStays DEF AtHand, ShownInv
<1>4. Settled \subseteq Settled' /\ \A o \in Threads : Kept(o)
  BY <1>1, <1>2, SettledStays
<1>5. CASE provider' = [provider EXCEPT ![k] = s] /\ Tell(es)
  <2>1. r \in GoodSession /\ r.alive
    BY <1>1, RoutedIsGood
  <2>2. s \in GoodSession /\ Leads(more, k, Position(r), Position(s))
    BY <1>1, <2>1, WithTurnIsGood, WithTurnLeads
  <2>3. Leads(back, k, Position(provider[k]), Position(r)) /\ Tells(back, k)
    BY <1>1, RoutedLeads, RecoveryTells
  <2>4. Tells(more, k)
    <3>1. w.turn \in 0 .. MaxTurns
      BY <1>1, TurnAssumption DEF Turns
    <3> QED
      BY <1>1, <3>1, StartedTells
  <2>5. es = back \o more
    OBVIOUS
  <2> HIDE DEF r, s, back, more, es
  <2>6. Tells(es, k) /\ Leads(es, k, Position(provider[k]), Position(s))
    BY <2>2, <2>3, <2>4, <2>5, TellsJoined, LeadsJoin DEF Tells
  <2>7. \A o \in Threads \ (past'.stale \cup past'.ignored) : Tracks(o)'
    BY <1>1, <1>4, <1>5, <2>2, <2>6, MovedTracks
  <2> QED
    BY <1>3, <2>7 DEF ShownInv
<1>6. CASE UNCHANGED <<provider, ingestion>>
  <2>1. \A o \in Threads \ (past'.stale \cup past'.ignored) : Tracks(o)'
    BY <1>1, <1>4, <1>6, QuietTracks
  <2> QED
    BY <1>3, <2>1 DEF ShownInv
<1>7. CASE r.turn = 0 /\ GivesBack(k, w.turn)
  <2>1. /\ provider' = [provider EXCEPT ![k] = r] /\ Tell(es)
    BY <1>7 DEF GivesBack, TurnStarted
  <2>2. k \in past'.stale /\ r \in GoodSession
    BY <1>1, <1>7, GivesBackOf, RoutedIsGood
  <2>3. Tells(back, k) /\ Tells(more, k)
    <3>1. w.turn \in 0 .. MaxTurns
      BY <1>1, TurnAssumption DEF Turns
    <3> QED
      BY <1>1, <3>1, RecoveryTells, StartedTells
  <2>4. es = back \o more
    OBVIOUS
  <2> HIDE DEF r, s, back, more, es
  <2>5. Tells(es, k)
    BY <2>3, <2>4, TellsJoined
  <2>6. \A o \in Threads \ (past'.stale \cup past'.ignored) : Tracks(o)'
    BY <1>1, <1>4, <2>1, <2>2, <2>5, MovedTracks
  <2> QED
    BY <1>3, <2>6 DEF ShownInv
<1> QED
  BY <1>5, <1>6, <1>7 DEF Send

LEMMA TakeInterruptShown == ASSUME Typed, ShownInv, TakeInterrupt PROVE ShownInv'
<1> DEFINE k == Asked.thread
<1>1. k \in Threads /\ commands.work = Idle
  BY AskedIsGood DEF TakeInterrupt
<1>2. UNCHANGED <<shown, past, bound>> /\ commands'.work = Idle
  BY DEF TakeInterrupt, Take
<1>3. AtHand' /\ StoppedHasNone'
  BY <1>2, IdleIsWork, StoppedStays DEF AtHand, ShownInv
<1>4. Settled \subseteq Settled' /\ \A o \in Threads : Kept(o)
  BY <1>1, <1>2, IdleIsWork, SettledStays, KeptAll DEF PastStays
<1>5. CASE UNCHANGED <<provider, ingestion>>
  <2>1. \A o \in Threads \ (past'.stale \cup past'.ignored) : Tracks(o)'
    BY <1>2, <1>4, <1>5, QuietTracks
  <2> QED
    BY <1>3, <2>1 DEF ShownInv
<1>6. CASE provider[k].turn # 0 /\ TurnEnds(k)
  BY <1>1, <1>2, <1>6, TurnEndsShown
<1>7. CASE provider' = [provider EXCEPT ![k] = Routed(k)] /\ Tell(Recovery(k))
  <2>1. /\ Routed(k) \in GoodSession /\ Tells(Recovery(k), k)
        /\ Leads(Recovery(k), k, Position(provider[k]), Position(Routed(k)))
    BY <1>1, RoutedIsGood, RecoveryTells, RoutedLeads
  <2>2. \A o \in Threads \ (past'.stale \cup past'.ignored) : Tracks(o)'
    BY <1>1, <1>2, <1>4, <1>7, <2>1, MovedTracks
  <2> QED
    BY <1>3, <2>2 DEF ShownInv
<1> QED
  BY <1>5, <1>6, <1>7 DEF TakeInterrupt

LEMMA TakeStopShown == ASSUME Typed, ShownInv, TakeStop PROVE ShownInv'
<1> DEFINE k == Asked.thread
<1>1. k \in Threads /\ commands.work = Idle
  BY AskedIsGood DEF TakeStop
<1>2. UNCHANGED shown /\ past \in PastType
  BY DEF TakeStop, Typed
<1>3. Settled = bound
  BY <1>1, SettledIdle
<1>4. CASE /\ Take(Works("stopped", k, 0))
           /\ past' = [past EXCEPT !.ignored = IF provider[k].alive THEN @ \cup {k} ELSE @]
           /\ UNCHANGED <<provider, ingestion, bound>>
  <2>1. /\ past.ignored \subseteq past'.ignored /\ past'.stale = past.stale
        /\ past'.disowned = past.disowned /\ past'.claimed = past.claimed
    BY <1>2, <1>4 DEF PastType
  <2>2. commands'.work.op = "stopped"
    BY <1>4 DEF Take, Works
  <2>3. Settled \subseteq Settled' /\ \A o \in Threads : Kept(o)
    BY <1>3, <1>4, <2>1 DEF Settled, Kept
  <2>4. \A o \in Threads \ (past'.stale \cup past'.ignored) : Tracks(o)'
    BY <1>2, <1>4, <2>3, QuietTracks
  <2> QED
    BY <1>2, <2>2, <2>4, StoppedStays DEF ShownInv, AtHand
<1>5. CASE StopSession(k) /\ Take(Works("stopped", k, 0))
  <2>1. PastStays
    BY <1>5, IgnoredOf DEF StopSession, PastStays
  <2>2. commands'.work.op = "stopped" /\ commands'.work.thread = k
    BY <1>5 DEF Take, Works
  <2>3. Settled \subseteq Settled'
    BY <1>3, <1>5, <2>2 DEF Settled, StopSession
  <2>4. \A o \in Threads \ (past'.stale \cup past'.ignored) : Tracks(o)'
    BY <1>1, <1>2, <1>5, <2>1, <2>3, EndsTracks DEF StopSession
  <2> QED
    BY <1>2, <2>2, <2>4, StoppedStays DEF ShownInv, AtHand
<1>6. CASE Take(Idle) /\ UNCHANGED <<provider, ingestion, past, bound>>
  <2>1. commands'.work = Idle
    BY <1>6 DEF Take
  <2>2. Settled \subseteq Settled' /\ \A o \in Threads : Kept(o)
    BY <1>3, <1>6 DEF Settled, Kept
  <2>3. \A o \in Threads \ (past'.stale \cup past'.ignored) : Tracks(o)'
    BY <1>2, <1>6, <2>2, QuietTracks
  <2> QED
    BY <1>2, <2>1, <2>3, IdleIsWork, StoppedStays DEF ShownInv, AtHand
<1> QED
  BY <1>4, <1>5, <1>6 DEF TakeStop

LEMMA SetStoppedShown == ASSUME Typed, ShownInv, LagInv, SetStopped PROVE ShownInv'
<1> DEFINE w == commands.work
           k == w.thread
<1>1. /\ k \in Threads /\ w.op = "stopped" /\ Show(k, "stopped", 0)
      /\ UNCHANGED <<provider, ingestion, past, bound>>
  BY WorkAtHand DEF SetStopped
<1>2. commands'.work.op # "bind"
  BY ThenFields, IdleIsWork DEF SetStopped
<1>3. ~provider[k].alive \/ k \in past.ignored
  BY <1>1 DEF LagInv, StopIsDone
<1>4. provider[k].turn = 0 \/ k \in past.ignored
  BY <1>1, <1>3, SessionOf
<1>5. \A o \in Threads : o # k /\ o \in Settled => o \in Settled'
  BY <1>1 DEF Settled
<1>6. /\ \A o \in Threads \ (past'.stale \cup past'.ignored) : Tracks(o)'
      /\ StoppedHasNone'
  BY <1>1, <1>4, <1>5, SetShown
<1> QED
  BY <1>2, <1>6 DEF ShownInv, AtHand

---------------------------------------------------------------------------
(* The ingestion's steps, and a crash.                                     *)

LEMMA ReadLifecycleShown == ASSUME Typed, Typed', ShownInv, ReadLifecycle PROVE ShownInv'
<1> DEFINE e == Head(ingestion.runtime)
           a == shown[e.thread].active
<1>1. /\ Stream' = Stream /\ Stream # <<>> /\ Stream[1] = e
      /\ ingestion'.reading[1] = e /\ ingestion'.reading[2] = a
  BY ReadParts
<1>2. e.type \in Lifecycle /\ UNCHANGED <<provider, shown, past, commands, bound>>
  BY DEF ReadLifecycle
<1>3. ASSUME NEW k \in Threads \ (past'.stale \cup past'.ignored) PROVE Tracks(k)'
  <2> DEFINE s == Stream
             q == Position(provider[k])
             x == shown[k]
             d == past.disowned
             c == past.claimed
             r == ingestion'.reading
  <2>1. /\ s \in Seq(GoodEvent) /\ s # <<>> /\ Stream' = s /\ s[1] = e
        /\ Tracked(s, k, q, x, ingestion.reading, d, c) /\ (Still(s, k) => Found(k))
    BY <1>1, <1>2, StreamIsSeq DEF ShownInv, Tracks
  <2>2. q = Position(provider[k])' /\ x = shown'[k] /\ d = past'.disowned /\ c = past'.claimed
    BY <1>2 DEF Position
  <2>3. Found(k) => Found(k)'
    BY <1>2 DEF Found, LooksStopped, Settled
  <2>4. r[1] = e /\ r[2] = a /\ r = ingestion'.reading /\ (e.thread = k => a = x.active)
    BY <1>1
  <2> HIDE DEF s, q, x, d, c, r, e, a
  <2>5. Moves(e, k) => Shows(e, x.active)
    <3> SUFFICES ASSUME Moves(e, k) PROVE Shows(e, x.active)
      OBVIOUS
    <3>1. First(s, 1, k)
      BY <2>1, StoryPasses DEF Tracked
    <3>2. 1 \in 1 .. Len(s)
      BY <2>1
    <3> QED
      BY <2>1, <3>1, <3>2 DEF StartShows, Tracked, Ready
  <2>6. Held(r, s, k, q, d)
    BY <2>1, <2>4, <2>5 DEF Held, Tracked
  <2>7. Tracked(s, k, q, x, r, d, c)
    BY <2>1, <2>6 DEF Tracked
  <2> QED
    BY <2>1, <2>2, <2>3, <2>4, <2>7, TracksNext DEF TracksIf
<1>4. AtHand' /\ StoppedHasNone'
  BY <1>2, AtHandStays, StoppedStays DEF ShownInv
<1> QED
  BY <1>3, <1>4 DEF ShownInv

\* An event that is not of k is worked off.
LEMMA PassedTracks ==
  ASSUME Typed, NEW k \in Threads, Tracks(k), Stream # <<>>, Stream' = Tail(Stream),
         ingestion'.reading = <<>>, UNCHANGED <<provider, commands, bound, past>>,
         ~Moves(Stream[1], k), shown'[k] = shown[k]
  PROVE  Tracks(k)'
<1>1. /\ Ready(Stream, k, shown'[k].active, Position(provider[k]), past.disowned)
      /\ Worded(shown'[k], k, past.claimed)
  BY DEF Tracks, Tracked
<1>2. Still(Stream, k) => Found(k)'
  <2>1. Found(k) => Found(k)'
    BY DEF Found, LooksStopped, Settled
  <2> QED
    BY <2>1 DEF Tracks
<1> QED
  BY <1>1, <1>2, WorkedTracks

LEMMA ApplyLifecycleShown == ASSUME Typed, Typed', ShownInv, ApplyLifecycle PROVE ShownInv'
<1> DEFINE e == ingestion.reading[1]
           active == ingestion.reading[2]
<1>1. /\ ~Calm /\ e.thread \in Threads /\ e.type \in Lifecycle
      /\ UNCHANGED <<provider, past, commands, bound>>
  BY ReadingOf DEF ApplyLifecycle
<1>2. ingestion'.runtime = ingestion.runtime /\ ingestion'.reading = <<>>
  BY AppliedParts
<1>3. Stream # <<>> /\ Stream' = Tail(Stream) /\ Stream[1] = e
  BY <1>1, <1>2, WorkedOff
<1>4. \/ /\ Applies(e, active) /\ shown'[e.thread] \in ShownAfter(e, active)
         /\ \A k \in Threads : k # e.thread => shown'[k] = shown[k]
      \/ ~Applies(e, active) /\ shown' = shown
  BY AppliedShown
<1>5. ingestion.reading # <<>>
  BY <1>1 DEF Calm
<1>6. ASSUME NEW k \in Threads \ (past'.stale \cup past'.ignored) PROVE Tracks(k)'
  <2> DEFINE s == Stream
             q == Position(provider[k])
             d == past.disowned
             c == past.claimed
  <2>1. Tracks(k)
    BY <1>1 DEF ShownInv
  <2>2. /\ s \in Seq(GoodEvent) /\ s # <<>> /\ s[1] = e
        /\ Ready(s, k, shown[k].active, q, d) /\ Remarked(s, k, q, d, c)
        /\ Held(ingestion.reading, s, k, q, d)
    BY <1>3, <2>1, StreamIsSeq DEF Tracks, Tracked
  <2>3. CASE Moves(e, k)
    <3>1. k = e.thread
      BY <2>3 DEF Moves
    <3>2. Shows(e, active)
      BY <1>5, <2>2, <2>3, <3>1 DEF Held
    <3>3. shown'[k] \in ShownAfter(e, active)
      BY <1>4, <2>3, <3>1, <3>2, ShownRight
    <3> HIDE DEF e, active
    <3> QED
      BY <1>1, <1>2, <1>3, <2>1, <2>3, <3>2, <3>3, WorkedTracks
  <2>4. CASE Remarks(e, k)
    <3>1. k = e.thread /\ ~Moves(e, k)
      BY <2>4 DEF Remarks
    <3>2. 1 \in 1 .. Len(s)
      BY <2>2
    <3>3. /\ e.type = "session.state.changed" => k \in c
          /\ (\A m \in 1 .. Len(s) : 1 < m => ~Moves(s[m], k)) =>
               q.alive /\ (e.type = "runtime.error" => Near(0, q, d))
      BY <2>2, <2>4, <3>2 DEF Remarked
    <3>4. Still(s, k) => q.alive /\ (e.type = "runtime.error" => Near(0, q, d))
      BY <3>3 DEF Still
    <3>5. /\ shown'[k].active = IF e.type = "runtime.error" THEN 0 ELSE active
          /\ Worded(shown'[k], k, c)
      <4> HIDE DEF e, active, c
      <4>1. /\ Applies(e, active)
            /\ \A x \in ShownAfter(e, active) :
                  /\ x.active = IF e.type = "runtime.error" THEN 0 ELSE active
                  /\ Worded(x, k, c)
        BY <2>4, <3>3, ShownRemark
      <4>2. shown'[k] \in ShownAfter(e, active)
        BY <1>4, <3>1, <4>1
      <4> QED
        BY <4>1, <4>2
    <3>6. Ready(s, k, shown'[k].active, q, d)
      <4>1. CASE e.type = "runtime.error"
        <5>1. StartShows(s, k, 0)
          BY <2>2, FitsShows DEF Ready, StartShows
        <5> QED
          BY <3>4, <3>5, <4>1, <5>1 DEF Ready
      <4>2. CASE e.type # "runtime.error"
        BY <1>5, <2>2, <2>4, <3>1, <3>5, <4>2 DEF Held
      <4> QED
        BY <4>1, <4>2
    <3>7. Still(s, k) => Found(k)'
      <4>1. q.alive = provider'[k].alive
        BY <1>1, PositionOf
      <4> QED
        BY <3>4, <4>1 DEF Found
    <3> HIDE DEF e, active
    <3> QED
      BY <1>1, <1>2, <1>3, <2>1, <3>1, <3>5, <3>6, <3>7, WorkedTracks
  <2>5. CASE e.thread # k
    <3>1. shown'[k] = shown[k] /\ ~Moves(e, k)
      BY <1>4, <2>5 DEF Moves
    <3> QED
      BY <1>1, <1>2, <1>3, <2>1, <3>1, PassedTracks
  <2>6. e.thread = k => Moves(e, k) \/ Remarks(e, k)
    BY <1>1 DEF Remarks, Noted, Moves, Lifecycle
  <2> QED
    BY <2>3, <2>4, <2>5, <2>6
<1>7. AtHand'
  BY <1>1, AtHandStays DEF ShownInv
<1>8. StoppedHasNone'
  <2>1. \A x \in ShownAfter(e, active) : x.status \in {"none", "stopped"} => x.active = 0
    BY <1>1 DEF ShownAfter, Lifecycle
  <2> HIDE DEF e, active
  <2>2. \A k \in Threads : shown'[k] = shown[k] \/ shown'[k] \in ShownAfter(e, active)
    BY <1>4
  <2> QED
    BY <2>1, <2>2 DEF StoppedHasNone, LooksStopped, ShownInv
<1> QED
  BY <1>6, <1>7, <1>8 DEF ShownInv

LEMMA TakeTextShown == ASSUME Typed, Typed', ShownInv, TakeDelta \/ TakeItem PROVE ShownInv'
<1>1. /\ Calm /\ ingestion.runtime # <<>> /\ Head(ingestion.runtime).type \notin Lifecycle
      /\ UNCHANGED <<provider, shown, past, commands, bound>>
      /\ ingestion'.runtime = Tail(ingestion.runtime) /\ ingestion'.reading = <<>>
  BY TextParts DEF Calm
<1>2. Stream # <<>> /\ Stream' = Tail(Stream) /\ Stream[1] = Head(ingestion.runtime)
  BY <1>1, WorkedOff
<1>3. ASSUME NEW k \in Threads \ (past'.stale \cup past'.ignored) PROVE Tracks(k)'
  <2>1. Tracks(k) /\ ~Moves(Stream[1], k)
    BY <1>1, <1>2 DEF ShownInv, Moves, Lifecycle
  <2> QED
    BY <1>1, <1>2, <2>1, PassedTracks
<1>4. AtHand' /\ StoppedHasNone'
  BY <1>1, AtHandStays, StoppedStays DEF ShownInv
<1> QED
  BY <1>3, <1>4 DEF ShownInv

\* Of a thread that shows no session nothing is left to be told.
EmptyIsTracked ==
  \A k \in Threads :
      /\ Stream = <<>> /\ Calm /\ provider[k] = NoSession
      /\ LooksStopped(k) /\ shown[k].active = 0
      => Tracks(k)

LEMMA EmptyNow == EmptyIsTracked
<1> SUFFICES ASSUME NEW k \in Threads, Stream = <<>>, Calm, provider[k] = NoSession,
                    LooksStopped(k), shown[k].active = 0
             PROVE  Tracks(k)
  BY DEF EmptyIsTracked
<1>1. \A i \in 1 .. Len(Stream) : FALSE
  OBVIOUS
<1>2. Found(k)
  BY DEF Found
<1>3. Position(provider[k]).turn = 0
  BY PositionOf DEF NoSession
<1>4. /\ Chained(Stream, k) /\ EndsAt(Stream, k, Position(provider[k]))
      /\ Ready(Stream, k, shown[k].active, Position(provider[k]), past.disowned)
      /\ Remarked(Stream, k, Position(provider[k]), past.disowned, past.claimed)
  BY <1>1, <1>3 DEF Chained, EndsAt, Ready, StartShows, Near, Remarked
<1>5. Held(ingestion.reading, Stream, k, Position(provider[k]), past.disowned)
  BY DEF Calm, Held
<1>6. Worded(shown[k], k, past.claimed)
  BY DEF Worded, LooksStopped
<1> QED
  BY <1>2, <1>4, <1>5, <1>6 DEF Tracks, Tracked

LEMMA EmptyNext == EmptyIsTracked'
  BY EmptyNow, PTL

LEMMA CrashShown == ASSUME Typed, Typed', ShownInv, Crash PROVE ShownInv'
<1>1. /\ provider' = [k \in Threads |-> NoSession] /\ UNCHANGED shown
      /\ commands'.work = Idle /\ ingestion'.runtime = <<>> /\ ingestion'.reading = <<>>
  BY DEF Crash
<1>2. Stream' = <<>> /\ Calm'
  BY <1>1, StreamNext DEF StreamFacts, Calm
<1>3. \A k \in Threads : k \notin past'.stale => LooksStopped(k)
  <2> DEFINE cut == {x \in Turns : output[x].pieces > 0}
             stale == {k \in Threads : ~LooksStopped(k)}
  <2>1. /\ past \in PastType
        /\ past' = [past EXCEPT !.lost = @ \cup Requested, !.cut = @ \cup cut, !.stale = @ \cup stale]
    BY DEF Typed, Crash
  <2> HIDE DEF cut, stale
  <2>2. stale \subseteq past'.stale
    BY <2>1 DEF PastType
  <2> QED
    BY <2>2 DEF stale
<1>4. ASSUME NEW k \in Threads \ (past'.stale \cup past'.ignored) PROVE Tracks(k)'
  <2>1. LooksStopped(k) /\ shown[k].active = 0
    BY <1>3 DEF ShownInv, StoppedHasNone
  <2>2. LooksStopped(k)' /\ shown'[k].active = 0 /\ provider'[k] = NoSession
    BY <1>1, <2>1 DEF LooksStopped
  <2> QED
    BY <1>2, <2>2, EmptyNext DEF EmptyIsTracked
<1>5. AtHand' /\ StoppedHasNone'
  BY <1>1, IdleIsWork, StoppedStays DEF AtHand, ShownInv
<1> QED
  BY <1>4, <1>5 DEF ShownInv

LEMMA InitShown == ASSUME Typed, Init PROVE ShownInv
<1>1. /\ provider = [k \in Threads |-> NoSession] /\ commands.work = Idle
      /\ shown = [k \in Threads |-> [status |-> "none", active |-> 0]]
      /\ ingestion.runtime = <<>> /\ ingestion.reading = <<>>
  BY DEF Init
<1>2. Stream = <<>> /\ Calm
  BY <1>1, StreamIsSeq DEF Calm
<1>3. \A k \in Threads : LooksStopped(k) /\ shown[k].active = 0 /\ provider[k] = NoSession
  BY <1>1 DEF LooksStopped
<1>4. \A k \in Threads : Tracks(k)
  BY <1>2, <1>3, EmptyNow DEF EmptyIsTracked
<1> QED
  BY <1>1, <1>3, <1>4, IdleIsWork DEF ShownInv, AtHand, StoppedHasNone

LEMMA NextShown == ASSUME Typed, Typed', LagInv, ShownInv, [Next]_vars PROVE ShownInv'
<1>1. CASE UNCHANGED vars
  <2>1. /\ UNCHANGED <<provider, shown, commands, bound, past>>
        /\ ingestion'.runtime = ingestion.runtime /\ ingestion'.reading = ingestion.reading
    BY <1>1 DEF vars
  <2>2. Settled \subseteq Settled' /\ \A k \in Threads : Kept(k)
    BY <2>1 DEF Settled, Kept
  <2>3. \A k \in Threads \ (past'.stale \cup past'.ignored) : Tracks(k)'
    BY <2>1, <2>2, QuietTracks
  <2> QED
    BY <2>1, <2>3, AtHandStays, StoppedStays DEF ShownInv
<1>2. CASE RequestTurn \/ RequestStop \/ TakeStart \/ TakeRestart \/ TakeMode
  BY <1>2, QuietShown
<1>3. CASE \E k \in Threads : Speak(k) \/ EndTurn(k) \/ Exit(k) \/ Remark(k)
  BY <1>3, SpeakShown, EndTurnShown, ExitShown, RemarkShown
<1>4. CASE StartSession \/ Bind \/ Send
  BY <1>4, StartSessionShown, BindShown, SendShown
<1>5. CASE TakeInterrupt \/ TakeStop \/ SetStopped
  BY <1>5, TakeInterruptShown, TakeStopShown, SetStoppedShown
<1>6. CASE ReadLifecycle \/ ApplyLifecycle \/ TakeDelta \/ TakeItem
  BY <1>6, ReadLifecycleShown, ApplyLifecycleShown, TakeTextShown
<1>7. CASE Crash
  BY <1>7, CrashShown
<1> QED
  BY <1>1, <1>2, <1>3, <1>4, <1>5, <1>6, <1>7 DEF Next

LEMMA ShownHolds == Spec => []ShownInv
<1>1. Typed /\ Init => ShownInv
  BY InitShown
<1>2. Typed /\ Typed' /\ LagInv /\ ShownInv /\ [Next]_vars => ShownInv'
  BY NextShown
<1> QED
  BY <1>1, <1>2, TypedHolds, LagHolds, PTL DEF Spec

LEMMA DrainedIsTrue == ASSUME Typed, LagInv, ShownInv PROVE ShownIsTrue
<1> SUFFICES ASSUME Drained, NEW k \in Threads \ (past.stale \cup past.ignored)
             PROVE  LET active == shown[k].active
                        status == shown[k].status
                        turn == provider[k].turn
                    IN
                    /\ active = turn \/ (active = 0 /\ turn \in past.disowned)
                    /\ active # 0 => status \in {"running", "error"}
                    /\ status = "running" => active # 0 \/ k \in past.claimed
                    /\ provider[k].alive => ~LooksStopped(k)
                    /\ ~provider[k].alive => LooksStopped(k) \/ k \in bound
  BY DEF ShownIsTrue
<1>1. Stream = <<>> /\ commands.work = Idle /\ ingestion.runtime = <<>> /\ Calm
  BY StreamIsSeq DEF Drained
<1>2. Still(Stream, k)
  BY <1>1, TellsNone DEF Still
<1>3. /\ Found(k) /\ Near(shown[k].active, Position(provider[k]), past.disowned)
      /\ Worded(shown[k], k, past.claimed)
  BY <1>2 DEF ShownInv, Tracks, Tracked, Ready
<1>4. Position(provider[k]).turn = provider[k].turn
  BY PositionOf
<1>5. Settled = bound
  BY <1>1, SettledIdle
<1>6. ~HasStart(ingestion.runtime, k) /\ ~InHand(k)
  BY <1>1 DEF HasStart, InHand
<1>7. provider[k].alive => ~LooksStopped(k)
  BY <1>6 DEF LagInv, Lag, StartToCome
<1> QED
  BY <1>3, <1>4, <1>5, <1>7 DEF Found, Near, Worded

\* Once both workers have caught up, a thread shows the turn its provider runs,
\* or none where an error without a turn was told in it, never a live session as
\* stopped, and one that is gone only where the next turn can recover it, for any
\* number of threads, turns, stops and troubles, states and errors told in
\* between: the events that the ingestion ignores are none it should have shown.
THEOREM ShownSettles == Spec => []ShownIsTrue
  BY ShownHolds, TypedHolds, LagHolds, DrainedIsTrue, PTL

=============================================================================
