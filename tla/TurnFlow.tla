------------------------------- MODULE TurnFlow -------------------------------
(***************************************************************************)
(* How a requested turn becomes a reply.  Between the engine and the       *)
(* providers stand two workers: the command reactor                        *)
(* (ProviderCommandReactor.ts), which starts and stops provider sessions   *)
(* and sends turns to them, and the ingestion                              *)
(* (ProviderRuntimeIngestion.ts), which turns what the providers tell into *)
(* the session and the reply shown on the thread.  Both write the shown    *)
(* session, neither waits for the other.                                   *)
(*                                                                         *)
(* A dispatch is one step: OrchestrationEngine implements that.  Two       *)
(* awaits of a worker are two steps.  A turn has one reply, of numbered    *)
(* pieces.  Models, modes of runtime, plans, approvals, titles, branches   *)
(* and error texts are left out.                                           *)
(***************************************************************************)
EXTENDS Naturals, Sequences

CONSTANTS
    Threads,
    MaxTurns,      \* bounds: turns requested,
    MaxPieces,     \* pieces of a reply,
    MaxStops,      \* interrupts and stops asked for,
    MaxTroubles,   \* provider exits, failures of a provider call or a dispatch, crashes,
                   \* states and errors told by a session
    MaxBacklog,    \* turn starts, and events of running turns, ahead of the ingestion
    BufferLimit    \* MAX_BUFFERED_ASSISTANT_CHARS, in pieces

ASSUME TurnAssumption ==
    /\ 0 \notin Threads
    /\ MaxTurns \in Nat
    /\ MaxPieces \in Nat
    /\ MaxStops \in Nat
    /\ MaxTroubles \in Nat
    /\ MaxBacklog \in Nat
    /\ BufferLimit \in Nat

VARIABLES
    owner,      \* the thread of each turn requested, or 0
    shown,      \* each thread's session in the read model: status and active turn
    reply,      \* each turn's assistant message: text, and whether it is complete
    commands,   \* the reactor's queue, and what its worker is doing
    bound,      \* threads with a binding in the session directory
    provider,   \* each thread's provider session: alive, running turn, turns waiting
    output,     \* what the provider has made of each turn's reply: pieces, message ended
    ingestion,  \* the two streams it reads, and its state
    past,       \* history, for the properties
    budget      \* what is left of the bounds

vars == <<owner, shown, reply, commands, bound, provider, output, ingestion, past, budget>>

---------------------------------------------------------------------------
Turns == 1 .. MaxTurns

Of(k) == {t \in Turns : owner[t] = k}

Modes == {"buffered", "streaming"}

\* The intents the reactor acts on; a restart is thread.runtime-mode-set.
Command ==
    [type : {"start", "restart", "interrupt", "stop"}, thread : Threads, turn : 0 .. MaxTurns]

Idle == [op |-> "idle"]

\* What the reactor's worker holds between two awaits; turn 0 when it only restarts.
Work ==
    {Idle} \cup
    [op : {"session", "bind", "send", "stopped"}, thread : Threads, turn : 0 .. MaxTurns]

RuntimeEvent ==
    [type : {"session.started", "session.exited", "turn.started", "turn.completed",
             "session.state.changed", "thread.started", "runtime.error",
             "content.delta", "item.completed"},
     thread : Threads, turn : 0 .. MaxTurns, piece : 0 .. MaxPieces]

Event(type, k, t, i) == [type |-> type, thread |-> k, turn |-> t, piece |-> i]

\* The events that set the session shown.
Lifecycle ==
    {"session.started", "session.exited", "turn.started", "turn.completed",
     "session.state.changed", "thread.started", "runtime.error"}

NoSession == [alive |-> FALSE, turn |-> 0, queue |-> <<>>]

Init ==
    /\ owner = [t \in Turns |-> 0]
    /\ shown = [k \in Threads |-> [status |-> "none", active |-> 0]]
    /\ reply = [t \in Turns |-> [text |-> <<>>, complete |-> FALSE]]
    /\ commands = [queue |-> <<>>, work |-> Idle]
    /\ bound = {}
    /\ provider = [k \in Threads |-> NoSession]
    /\ output = [t \in Turns |-> [pieces |-> 0, ended |-> FALSE]]
    /\ ingestion = [runtime |-> <<>>, modes |-> <<>>, reading |-> <<>>, mode |-> "buffered",
                    buffer |-> [t \in Turns |-> <<>>], open |-> {}]
    /\ past = [told |-> {}, sent |-> {}, lost |-> {}, switched |-> {}, cut |-> {},
               ignored |-> {}, stale |-> {}, disowned |-> {}, claimed |-> {}]
    /\ budget = [stops |-> MaxStops, troubles |-> MaxTroubles]

Trouble == budget.troubles > 0 /\ budget' = [budget EXCEPT !.troubles = @ - 1]

---------------------------------------------------------------------------
(* The user.                                                               *)

Ask(command) == commands' = [commands EXCEPT !.queue = Append(@, command)]

\* thread.turn.start; the reactor and the ingestion read its event.
RequestTurn ==
    \E t \in Turns, k \in Threads, mode \in Modes :
        /\ Len(ingestion.modes) < MaxBacklog
        /\ owner[t] = 0 /\ \A s \in 1 .. t - 1 : owner[s] # 0
        /\ owner' = [owner EXCEPT ![t] = k]
        /\ Ask([type |-> "start", thread |-> k, turn |-> t])
        /\ ingestion' = [ingestion EXCEPT !.modes = Append(@, mode)]
        /\ UNCHANGED <<shown, reply, bound, provider, output, past, budget>>

\* thread.turn.interrupt, thread.session.stop and thread.runtime-mode.set, of a
\* thread that was asked for a turn.
RequestStop ==
    /\ budget.stops > 0
    /\ budget' = [budget EXCEPT !.stops = @ - 1]
    /\ \E k \in Threads, type \in {"interrupt", "stop", "restart"} :
          Of(k) # {} /\ Ask([type |-> type, thread |-> k, turn |-> 0])
    /\ UNCHANGED <<owner, shown, reply, bound, provider, output, ingestion, past>>

---------------------------------------------------------------------------
(* The provider; what it tells reaches the ingestion in order.             *)

Tell(es) == ingestion' = [ingestion EXCEPT !.runtime = @ \o es]

\* The session of k, when it is given turn t: it waits for the one that runs.  An
\* adapter that ends that one instead (Claude) has EndTurn done before.
WithTurn(p, t) ==
    IF p.turn = 0 THEN [p EXCEPT !.turn = t] ELSE [p EXCEPT !.queue = Append(@, t)]

TurnStarted(p, k, t) == IF p.turn = 0 THEN <<Event("turn.started", k, t, 0)>> ELSE <<>>

\* The session of k goes on to the next turn it was given, if any.
NextTurn(p) ==
    IF p.queue = <<>> THEN [p EXCEPT !.turn = 0]
    ELSE [p EXCEPT !.turn = Head(p.queue), !.queue = Tail(@)]

\* The turn of k ends, with what is told of it.
TurnEnds(k) ==
    LET next == NextTurn(provider[k]) IN
    /\ provider' = [provider EXCEPT ![k] = next]
    /\ Tell(<<Event("turn.completed", k, provider[k].turn, 0)>> \o
            (IF next.turn # 0 THEN <<Event("turn.started", k, next.turn, 0)>> ELSE <<>>))

\* What is told when the session of k ends; some adapters end its turn first.
Farewell(k) ==
    LET exited == Event("session.exited", k, 0, 0) IN
    IF ~provider[k].alive THEN {<<>>}
    ELSE {<<exited>>} \cup
         (IF provider[k].turn = 0 THEN {}
          ELSE {<<Event("turn.completed", k, provider[k].turn, 0), exited>>})

\* Turns the session of k was given and has not ended.
Unfinished(k) ==
    ({provider[k].turn} \cup {provider[k].queue[i] : i \in 1 .. Len(provider[k].queue)}) \ {0}

MayTell == Len(ingestion.runtime) < MaxBacklog

\* The reply of the running turn grows, by a delta or in one whole item, or ends.
Speak(k) ==
    LET t == provider[k].turn IN
    /\ t # 0
    /\ MayTell
    /\ ~output[t].ended
    /\ \/ /\ output[t].pieces < MaxPieces
          /\ output' = [output EXCEPT ![t].pieces = @ + 1]
          /\ Tell(<<Event("content.delta", k, t, output[t].pieces + 1)>>)
       \/ /\ output[t].pieces = 0
          /\ output' = [output EXCEPT ![t] = [pieces |-> MaxPieces, ended |-> TRUE]]
          /\ Tell(<<Event("item.completed", k, t, MaxPieces)>>)
       \/ /\ output[t].pieces > 0
          /\ output' = [output EXCEPT ![t].ended = TRUE]
          /\ Tell(<<Event("item.completed", k, t, output[t].pieces)>>)
    /\ UNCHANGED <<owner, shown, reply, commands, bound, provider, past, budget>>

EndTurn(k) ==
    /\ provider[k].turn # 0
    /\ MayTell
    /\ TurnEnds(k)
    /\ UNCHANGED <<owner, shown, reply, commands, bound, output, past, budget>>

Exit(k) ==
    /\ provider[k].alive
    /\ Trouble
    /\ \E told \in Farewell(k) : Tell(told)
    /\ provider' = [provider EXCEPT ![k] = NoSession]
    /\ past' = [past EXCEPT !.cut = @ \cup Unfinished(k)]
    /\ UNCHANGED <<owner, shown, reply, commands, bound, output>>

\* The session of k tells its state, that its thread has started, or an error; an
\* error may carry no turn although one runs, as what Codex writes to stderr.
Remark(k) ==
    /\ provider[k].alive
    /\ MayTell
    /\ Trouble
    /\ \/ /\ Tell(<<Event("session.state.changed", k, 0, 0)>>)
          /\ past' = [past EXCEPT !.claimed = @ \cup {k}]
       \/ /\ Tell(<<Event("thread.started", k, 0, 0)>>)
          /\ UNCHANGED past
       \/ /\ Tell(<<Event("runtime.error", k, provider[k].turn, 0)>>)
          /\ UNCHANGED past
       \/ /\ Tell(<<Event("runtime.error", k, 0, 0)>>)
          /\ past' = [past EXCEPT !.disowned = @ \cup ({provider[k].turn} \ {0})]
    /\ UNCHANGED <<owner, shown, reply, commands, bound, provider, output>>

---------------------------------------------------------------------------
(* The command reactor.                                                    *)

\* The thread's session is not shown, or shown as stopped.
LooksStopped(k) == shown[k].status \in {"none", "stopped"}

Show(k, status, active) == shown' = [shown EXCEPT ![k] = [status |-> status, active |-> active]]

\* The next command, if it is of the type.
Takes(type) ==
    commands.work = Idle /\ commands.queue # <<>> /\ Head(commands.queue).type = type

Asked == Head(commands.queue)

Works(op, k, t) == [op |-> op, thread |-> k, turn |-> t]

Take(work) == commands' = [queue |-> Tail(commands.queue), work |-> work]

Then(work) == commands' = [commands EXCEPT !.work = work]

\* thread.turn-start-requested: a session is started unless one is shown, and also
\* when the turn wants another mode or model than that one has.
TakeStart ==
    /\ Takes("start")
    /\ \E op \in {"session", "send"} :
          /\ LooksStopped(Asked.thread) => op = "session"
          /\ Take(Works(op, Asked.thread, Asked.turn))
    /\ UNCHANGED <<owner, shown, reply, bound, provider, output, ingestion, past, budget>>

\* thread.runtime-mode-set: the session shown is started anew.
TakeRestart ==
    /\ Takes("restart")
    /\ LET k == Asked.thread IN
       Take(IF LooksStopped(k) THEN Idle ELSE Works("session", k, 0))
    /\ UNCHANGED <<owner, shown, reply, bound, provider, output, ingestion, past, budget>>

\* Mutant: a failed turn is only logged, as a failed restart is.
FailsSilently(w) == Then(Idle) /\ UNCHANGED past

\* The turn at hand has failed: an activity says so, a restart is only logged.
Fails(w) ==
    /\ past' = [past EXCEPT !.told = @ \cup ({w.turn} \ {0})]
    /\ Then(Idle)

\* providerService.startSession; a session the adapter has is ended first, also
\* when the new one then fails to start.
StartSession ==
    LET w == commands.work IN
    /\ w.op = "session"
    /\ \/ /\ \E told \in Farewell(w.thread) :
                Tell(told \o <<Event("session.started", w.thread, 0, 0)>>)
          /\ provider' = [provider EXCEPT ![w.thread] = [NoSession EXCEPT !.alive = TRUE]]
          /\ bound' = bound \cup {w.thread}
          /\ past' = [past EXCEPT !.cut = @ \cup Unfinished(w.thread)]
          /\ Then([w EXCEPT !.op = "bind"])
          /\ UNCHANGED budget
       \/ /\ Trouble
          /\ Then(Idle)
          /\ \E told \in Farewell(w.thread) : Tell(told)
          /\ provider' = [provider EXCEPT ![w.thread] = NoSession]
          /\ past' = [past EXCEPT !.told = @ \cup ({w.turn} \ {0}),
                                  !.cut = @ \cup Unfinished(w.thread)]
          /\ UNCHANGED bound
    /\ UNCHANGED <<owner, shown, reply, output>>

\* bindSessionToThread.
Bind ==
    LET w == commands.work IN
    /\ w.op = "bind"
    /\ \/ /\ Show(w.thread, "ready", 0)
          /\ Then(IF w.turn = 0 THEN Idle ELSE [w EXCEPT !.op = "send"])
          /\ UNCHANGED <<past, budget>>
       \/ /\ Trouble
          /\ Fails(w)
          /\ UNCHANGED shown
    /\ UNCHANGED <<owner, reply, bound, provider, output, ingestion>>

\* Mutant: the turn goes to a session that is gone.
RoutedAnyway(k) == provider[k]

\* resolveRoutableSession: a bound thread whose session is gone gets a new one.
Routed(k) == IF provider[k].alive THEN provider[k] ELSE [NoSession EXCEPT !.alive = TRUE]

\* Mutant: the recovered session does not tell that it started.
RecoveryUntold(k) == <<>>

Recovery(k) == IF provider[k].alive THEN <<>> ELSE <<Event("session.started", k, 0, 0)>>

\* A turn is told to have started, and then given back (OpenCode: turn.aborted,
\* which the ingestion does not handle): it stays shown.
GivesBack(k, t) ==
    /\ provider' = [provider EXCEPT ![k] = Routed(k)]
    /\ Tell(Recovery(k) \o <<Event("turn.started", k, t, 0)>>)
    /\ past' = [past EXCEPT !.told = @ \cup {t}, !.stale = @ \cup {k}]
    /\ Then(Idle)

\* providerService.sendTurn; a failure after the provider took the turn is
\* told as one before it.
Send ==
    LET w == commands.work
        k == w.thread
    IN
    /\ w.op = "send"
    /\ \/ /\ k \in bound
          /\ provider' = [provider EXCEPT ![k] = WithTurn(Routed(k), w.turn)]
          /\ Tell(Recovery(k) \o TurnStarted(Routed(k), k, w.turn))
          /\ \/ past' = [past EXCEPT !.sent = @ \cup {w.turn}] /\ Then(Idle) /\ UNCHANGED budget
             \/ Fails(w) /\ Trouble
       \/ /\ k \in bound => Trouble
          /\ k \notin bound => UNCHANGED budget
          /\ Fails(w)
          /\ UNCHANGED <<provider, ingestion>>
       \/ /\ k \in bound /\ Routed(k).turn = 0
          /\ Trouble
          /\ GivesBack(k, w.turn)
    /\ UNCHANGED <<owner, shown, reply, bound, output>>

\* thread.turn-interrupt-requested: by session, whatever turn it runs by now.
TakeInterrupt ==
    /\ Takes("interrupt")
    /\ Take(Idle)
    /\ LET k == Asked.thread IN
       IF LooksStopped(k) \/ k \notin bound THEN UNCHANGED <<provider, ingestion>>
       ELSE IF provider[k].turn # 0 THEN TurnEnds(k)
       ELSE provider' = [provider EXCEPT ![k] = Routed(k)] /\ Tell(Recovery(k))
    /\ UNCHANGED <<owner, shown, reply, bound, output, past, budget>>

\* providerService.stopSession.
StopSession(k) ==
    /\ \E told \in Farewell(k) : Tell(told)
    /\ provider' = [provider EXCEPT ![k] = NoSession]
    /\ bound' = bound \ {k}
    /\ past' = [past EXCEPT !.cut = @ \cup Unfinished(k)]

\* thread.session-stop-requested.
TakeStop ==
    /\ Takes("stop")
    /\ LET k == Asked.thread IN
       \/ /\ LooksStopped(k)
          /\ Take(Works("stopped", k, 0))
          /\ past' = [past EXCEPT !.ignored = IF provider[k].alive THEN @ \cup {k} ELSE @]
          /\ UNCHANGED <<provider, ingestion, bound, budget>>
       \/ /\ ~LooksStopped(k)
          /\ k \in bound
          /\ StopSession(k)
          /\ Take(Works("stopped", k, 0))
          /\ UNCHANGED budget
       \/ /\ ~LooksStopped(k)
          /\ k \in bound => Trouble
          /\ k \notin bound => UNCHANGED budget
          /\ Take(Idle)
          /\ UNCHANGED <<provider, ingestion, bound, past>>
    /\ UNCHANGED <<owner, shown, reply, output>>

SetStopped ==
    LET w == commands.work IN
    /\ w.op = "stopped"
    /\ Show(w.thread, "stopped", 0)
    /\ Then(Idle)
    /\ UNCHANGED <<owner, reply, bound, provider, output, ingestion, past, budget>>

---------------------------------------------------------------------------
(* The ingestion: one worker, fed by the engine and by the providers.      *)

Calm == ingestion.reading = <<>>

\* thread.turn-start-requested: its delivery mode is the mode of every thread.
TakeMode ==
    /\ Calm
    /\ ingestion.modes # <<>>
    /\ ingestion' = [ingestion EXCEPT !.modes = Tail(@), !.mode = Head(ingestion.modes)]
    /\ past' = [past EXCEPT !.switched =
                  @ \cup (IF Head(ingestion.modes) = "streaming"
                         THEN {t \in Turns : ingestion.buffer[t] # <<>>} ELSE {})]
    /\ UNCHANGED <<owner, shown, reply, commands, bound, provider, output, budget>>

\* Session and turn events, first half: the thread is read.
ReadLifecycle ==
    /\ Calm
    /\ ingestion.runtime # <<>>
    /\ LET e == Head(ingestion.runtime) IN
       /\ e.type \in Lifecycle
       /\ ingestion' = [ingestion EXCEPT !.runtime = Tail(@),
                                         !.reading = <<e, shown[e.thread].active>>]
    /\ UNCHANGED <<owner, shown, reply, commands, bound, provider, output, past, budget>>

\* shouldApplyThreadLifecycle, and shouldApplyRuntimeError.
Applies(e, active) ==
    \/ active \in {0, e.turn}
    \/ e.type \notin {"turn.started", "turn.completed", "runtime.error"}
    \/ e.type = "runtime.error" /\ e.turn = 0

\* Mutant: a turn that ended stays the active one.
ShownAfterUnheld(e, active) ==
    {[status |-> CASE e.type = "turn.started" -> "running"
                   [] e.type = "session.exited" -> "stopped"
                   [] OTHER -> "ready",
      active |-> IF e.type = "turn.completed" THEN active ELSE e.turn]}

\* The sessions the thread may show after the event: a turn may have failed, and
\* a state told is shown, but as running where a turn is.
ShownAfter(e, active) ==
    CASE e.type = "turn.started" -> {[status |-> "running", active |-> e.turn]}
      [] e.type = "turn.completed" -> [status : {"ready", "error"}, active : {0}]
      [] e.type = "session.exited" -> {[status |-> "stopped", active |-> 0]}
      [] e.type \in {"session.started", "thread.started"} ->
            {[status |-> IF active = 0 THEN "ready" ELSE "running", active |-> active]}
      [] e.type = "session.state.changed" ->
            [status : {"running", "error"} \cup (IF active = 0 THEN {"starting", "ready"} ELSE {}),
             active : {active}]
      [] e.type = "runtime.error" -> {[status |-> "error", active |-> e.turn]}

Whole(n) == [i \in 1 .. n |-> i]

\* Mutant: the text of the completion is added to what was delivered.
CompleteTwice(i, t, whole) ==
    /\ reply' = [reply EXCEPT ![t] =
                   [text |-> @.text \o (IF i.buffer[t] # <<>> THEN i.buffer[t] ELSE Whole(whole)),
                    complete |-> TRUE]]
    /\ ingestion' = [i EXCEPT !.open = @ \ {t}, !.buffer = [@ EXCEPT ![t] = <<>>]]

\* finalizeAssistantMessage: the buffer, or else the completion's own text when
\* the message has none.
Complete(i, t, whole) ==
    /\ reply' = [reply EXCEPT ![t] =
                   [text |-> @.text \o (IF i.buffer[t] # <<>> THEN i.buffer[t]
                                       ELSE IF @.text = <<>> THEN Whole(whole) ELSE <<>>),
                    complete |-> TRUE]]
    /\ ingestion' = [i EXCEPT !.open = @ \ {t}, !.buffer = [@ EXCEPT ![t] = <<>>]]

\* clearTurnStateForSession: text not delivered is gone.
Cleared(i, k) ==
    [i EXCEPT !.open = @ \ Of(k),
              !.buffer = [t \in Turns |-> IF t \in i.open \cap Of(k) THEN <<>> ELSE @[t]]]

\* Mutant: only the active turn may close its messages.
ClosesActive(e, active) ==
    e.type = "turn.completed" /\ e.turn \in ingestion.open /\ Applies(e, active)

\* A turn's completion closes a message still open, whatever turn is active.
Closes(e, active) == e.type = "turn.completed" /\ e.turn \in ingestion.open

\* Second half: the session is set, and the turn's or the session's messages closed.
ApplyLifecycle ==
    LET e == ingestion.reading[1]
        active == ingestion.reading[2]
        done == [ingestion EXCEPT !.reading = <<>>]
    IN
    /\ ~Calm
    /\ \/ /\ Applies(e, active)
          /\ \E session \in ShownAfter(e, active) : shown' = [shown EXCEPT ![e.thread] = session]
       \/ /\ ~Applies(e, active)
          /\ UNCHANGED shown
    /\ IF Closes(e, active) THEN Complete(done, e.turn, 0)
       ELSE /\ ingestion' = IF e.type = "session.exited" THEN Cleared(done, e.thread) ELSE done
            /\ UNCHANGED reply
    /\ UNCHANGED <<owner, commands, bound, provider, output, past, budget>>

\* content.delta: streamed, or buffered until the buffer is over its limit.
TakeDelta ==
    /\ Calm
    /\ ingestion.runtime # <<>>
    /\ LET e == Head(ingestion.runtime)
           t == e.turn
           taken == [ingestion EXCEPT !.runtime = Tail(@), !.open = @ \cup {t}]
           text == Append(ingestion.buffer[t], e.piece)
       IN
       /\ e.type = "content.delta"
       /\ \/ /\ ingestion.mode = "streaming"
             /\ reply' = [reply EXCEPT ![t] = [text |-> Append(@.text, e.piece), complete |-> FALSE]]
             /\ ingestion' = taken
          \/ /\ ingestion.mode = "buffered" /\ Len(text) <= BufferLimit
             /\ ingestion' = [taken EXCEPT !.buffer = [@ EXCEPT ![t] = text]]
             /\ UNCHANGED reply
          \/ /\ ingestion.mode = "buffered" /\ Len(text) > BufferLimit
             /\ reply' = [reply EXCEPT ![t] = [text |-> @.text \o text, complete |-> FALSE]]
             /\ ingestion' = [taken EXCEPT !.buffer = [@ EXCEPT ![t] = <<>>]]
    /\ UNCHANGED <<owner, shown, commands, bound, provider, output, past, budget>>

\* item.completed of the reply.
TakeItem ==
    /\ Calm
    /\ ingestion.runtime # <<>>
    /\ LET e == Head(ingestion.runtime) IN
       /\ e.type = "item.completed"
       /\ Complete([ingestion EXCEPT !.runtime = Tail(@)], e.turn, e.piece)
    /\ UNCHANGED <<owner, shown, commands, bound, provider, output, past, budget>>

---------------------------------------------------------------------------
(* A crash: the sessions end with the process, the queues, the caches and  *)
(* the delivery mode are gone; the thread and the bindings are on disk.    *)

\* Turns asked for that the worker has not sent yet.
Requested ==
    ({commands.queue[i].turn : i \in 1 .. Len(commands.queue)} \cup
     (IF commands.work = Idle THEN {} ELSE {commands.work.turn})) \ {0}

Crash ==
    /\ Trouble
    /\ provider' = [k \in Threads |-> NoSession]
    /\ commands' = [queue |-> <<>>, work |-> Idle]
    /\ ingestion' = [runtime |-> <<>>, modes |-> <<>>, reading |-> <<>>, mode |-> "buffered",
                     buffer |-> [t \in Turns |-> <<>>], open |-> {}]
    /\ past' = [past EXCEPT
                  !.lost = @ \cup Requested,
                  !.cut = @ \cup {t \in Turns : output[t].pieces > 0},
                  !.stale = @ \cup {k \in Threads : ~LooksStopped(k)}]
    /\ UNCHANGED <<owner, shown, reply, bound, output>>

Next ==
    \/ RequestTurn
    \/ RequestStop
    \/ \E k \in Threads : Speak(k) \/ EndTurn(k) \/ Exit(k) \/ Remark(k)
    \/ TakeStart \/ TakeRestart \/ StartSession \/ Bind \/ Send
    \/ TakeInterrupt \/ TakeStop \/ SetStopped
    \/ TakeMode \/ ReadLifecycle \/ ApplyLifecycle \/ TakeDelta \/ TakeItem
    \/ Crash

Spec == Init /\ [][Next]_vars

---------------------------------------------------------------------------
(* Properties.                                                             *)

\* Every variable has its type; a session that is gone runs nothing, no turn is
\* sent that nobody asked for, and no buffer exceeds its limit.
TypeOK ==
    /\ owner \in [Turns -> Threads \cup {0}]
    /\ shown \in [Threads -> [status : {"none", "starting", "ready", "running", "error", "stopped"},
                              active : 0 .. MaxTurns]]
    /\ reply \in [Turns -> [text : Seq(1 .. MaxPieces), complete : BOOLEAN]]
    /\ commands.queue \in Seq(Command) /\ commands.work \in Work
    /\ bound \subseteq Threads
    /\ DOMAIN provider = Threads
    /\ \A k \in Threads :
          /\ provider[k].alive \in BOOLEAN
          /\ provider[k].turn \in 0 .. MaxTurns
          /\ provider[k].queue \in Seq(Turns)
          /\ ~provider[k].alive => provider[k] = NoSession
    /\ output \in [Turns -> [pieces : 0 .. MaxPieces, ended : BOOLEAN]]
    /\ ingestion.runtime \in Seq(RuntimeEvent)
    /\ ingestion.modes \in Seq(Modes)
    /\ ingestion.mode \in Modes
    /\ ingestion.open \subseteq Turns
    /\ DOMAIN ingestion.buffer = Turns
    /\ \A t \in Turns : ingestion.buffer[t] \in Seq(1 .. MaxPieces)
                        /\ Len(ingestion.buffer[t]) <= BufferLimit
    /\ \A f \in {"told", "sent", "lost", "switched", "cut", "disowned"} : past[f] \subseteq Turns
    /\ \A f \in {"ignored", "stale", "claimed"} : past[f] \subseteq Threads
    /\ budget.stops \in 0 .. MaxStops /\ budget.troubles \in 0 .. MaxTroubles

\* Neither worker has anything left to do.
Drained ==
    /\ commands.queue = <<>> /\ commands.work = Idle
    /\ ingestion.runtime = <<>> /\ Calm

\* Once both workers have caught up, a thread shows the turn its provider runs,
\* never a live session as stopped, and one that is gone only where the next
\* turn can recover it, though both write it without waiting for each other
\* (ProviderCommandReactor.ts bindSessionToThread, ProviderRuntimeIngestion.ts
\* 903-1010).  Not so a thread that showed a session
\* when the process died: nothing sets that straight at the restart, and an
\* active turn left there makes the ingestion ignore every later turn.  Nor one
\* whose stop was taken for done too early (StoppedIsLag).
ShownIsTrue ==
    Drained => \A k \in Threads \ (past.stale \cup past.ignored) :
        LET active == shown[k].active
            status == shown[k].status
            turn == provider[k].turn
        IN
        /\ active = turn \/ (active = 0 /\ turn \in past.disowned)
        /\ active # 0 => status \in {"running", "error"}
        /\ status = "running" => active # 0 \/ k \in past.claimed
        /\ provider[k].alive => ~LooksStopped(k)
        /\ ~provider[k].alive => LooksStopped(k) \/ k \in bound

\* The text of a reply is what the provider said, in its order, whether pieces
\* were streamed, buffered, spilled from a full buffer or delivered at the end.
\* Not so a reply that had text in the buffer when any thread's turn start
\* switched the delivery to streaming: later pieces then overtake the buffer.
\* Either way a reply shown as complete lacks nothing of what the provider said.
RepliesAreFaithful ==
    \A t \in Turns :
        /\ t \notin past.switched => reply[t].text = Whole(Len(reply[t].text))
        /\ reply[t].complete =>
             {reply[t].text[i] : i \in 1 .. Len(reply[t].text)} = 1 .. output[t].pieces

\* The reply of a turn that ended arrives and is closed, also when its message
\* never was; only a session that ends with the turn takes the text with it
\* (clearTurnStateForSession).
RepliesArrive ==
    Drained => \A t \in past.sent \ past.cut :
        (\A k \in Threads : t \notin Unfinished(k)) /\ output[t].pieces > 0
        => reply[t].complete

\* Every turn asked for is sent to the provider or its failure told, unless the
\* process died while the request was only in the reactor's queue: the queue is
\* fed from the live stream of events and not from the store.
RequestsAreAnswered ==
    Drained => \A t \in Turns : owner[t] # 0 => t \in past.sent \cup past.told \cup past.lost

\* A thread looks stopped while the provider has its session only for as long
\* as the start of that session is still to be shown: the reactor is about to
\* bind it, or the ingestion has its session.started to read.  In that time a
\* stop is taken for done, and the next turn's request ends the running turn by
\* starting the session anew.  Not so where such a stop was ignored.
StoppedIsLag ==
    \A k \in Threads \ past.ignored :
        LooksStopped(k) /\ provider[k].alive =>
            \/ commands.work # Idle /\ commands.work.op = "bind" /\ commands.work.thread = k
            \/ \E e \in {ingestion.runtime[i] : i \in 1 .. Len(ingestion.runtime)}
                        \cup (IF Calm THEN {} ELSE {ingestion.reading[1]}) :
                  e.type = "session.started" /\ e.thread = k
=============================================================================
