----------------------------- MODULE QueuedSend -----------------------------
(***************************************************************************)
(* How a user's messages reach the provider: the TUI's composer and queue  *)
(* for one thread (ui.tsx, MessageQueue), the client transport             *)
(* (wsTransport.ts), and of the server what the client can tell apart:     *)
(* requests are handled, each in a fiber of its own, turn starts are       *)
(* recorded, turns run one after the other, and the thread's session says  *)
(* whether one is running.  Sockets close, answers are lost or late, the   *)
(* server dies and is restarted.                                           *)
(*                                                                         *)
(* Messages are numbered in the order in which the user writes them.       *)
(***************************************************************************)
EXTENDS MessageQueue

CONSTANTS
    NumMessages,
    Patient,        \* TRUE: the user sends a message directly only when the
                    \* earlier ones are done and the TUI shows it
    TurnsSucceed,   \* TRUE: every turn is started and leaves an assistant reply
    ShowsStarting,  \* TRUE: the provider reports that its session is starting,
                    \* as Codex does
    \* Bounds of the model, none of them in the code:
    MaxCalls, MaxLosses, MaxExpiries, MaxMoves, MaxSuspends, MaxExits, MaxCrashes

ASSUME QueuedSendAssumption ==
    /\ NumMessages \in Nat
    /\ {Patient, TurnsSucceed, ShowsStarting} \subseteq BOOLEAN
    /\ {MaxCalls, MaxLosses, MaxExpiries, MaxMoves, MaxSuspends, MaxExits, MaxCrashes}
         \subseteq Nat

Messages == 1 .. NumMessages

VARIABLES
    \* The TUI.
    written,    \* how many messages the user has written
    composer,   \* the message being sent directly, and how far it is
    queue,      \* queuedMessages
    backoff,    \* messages whose next retry is not due
    deferred,   \* history: messages that went through the queue
    cancelled,  \* history: messages the user took back out of it
    moved,      \* history: messages whose places the user exchanged
    view,       \* the thread in the snapshot the TUI shows
    \* The transport.
    state,      \* TransportState
    calls,      \* the turn-start requests made so far
    pending,    \* requests whose promise is not settled
    outbound,   \* outboundQueue
    snapshot,   \* the answer to getSnapshot on its way to the client
    \* Between and at the server.
    wire,       \* requests sent and not yet received
    inbox,      \* requests received and not yet handled
    answers,    \* answers on their way back
    turns,      \* recorded turn starts, and what became of each
    session,    \* the thread's session as recorded: stopped, starting or ready
    active,     \* the turn the session says is running, 0 for none
    alive,      \* whether the provider's process for the thread runs
    replies,    \* assistant replies so far
    budget      \* bounds

user      == <<written, composer, deferred, cancelled, moved>>
transport == <<state, calls, pending, outbound>>
network   == <<wire, answers, snapshot>>
server    == <<inbox, turns, session, active, alive, replies>>
vars      == <<user, queue, backoff, view, transport, network, server, budget>>

Call    == [msg : Messages, kind : {"queued", "direct"}]
Answer  == [call : Nat, ok : BOOLEAN]
Turn    == [msg : Messages, phase : {"requested", "running", "done", "lost"}]
Nobody  == [msg |-> 0, step |-> "idle"]
Sending == {Nobody} \cup [msg : Messages, step : {"settings", "turn"}]
NoView  == [persisted |-> {}, running |-> FALSE, replies |-> 0]

Persisted(ts) == {ts[i].msg : i \in 1 .. Len(ts)}

\* What getSnapshot answers for the thread.
ServerView ==
    [persisted |-> Persisted(turns),
     running   |-> session = "starting" \/ active # 0,
     replies   |-> replies]

Unfinished == {i \in 1 .. Len(turns) : turns[i].phase \in {"requested", "running"}}

Bounds == {"losses", "expiries", "moves", "suspends", "exits", "crashes"}

Spend(kind) ==
    /\ budget[kind] > 0
    /\ budget' = [budget EXCEPT ![kind] = @ - 1]

---------------------------------------------------------------------------
Init ==
    /\ written = 0 /\ composer = Nobody /\ deferred = {} /\ cancelled = {} /\ moved = {}
    /\ queue = <<>> /\ backoff = {} /\ view = NoView
    /\ state = "connecting" /\ calls = <<>> /\ pending = {} /\ outbound = <<>>
    /\ wire = <<>> /\ answers = {} /\ snapshot = <<>>
    /\ inbox = {} /\ turns = <<>> /\ session = "stopped" /\ active = 0 /\ alive = FALSE
    /\ replies = 0
    /\ budget = [losses |-> MaxLosses, expiries |-> MaxExpiries, moves |-> MaxMoves,
                 suspends |-> MaxSuspends, exits |-> MaxExits,
                 crashes |-> MaxCrashes]

---------------------------------------------------------------------------
(* The transport's part of a step.                                         *)

\* request: on the socket when it is open, else in the outbound queue.
Request(m, kind) ==
    LET c == Len(calls) + 1 IN
    /\ c <= MaxCalls
    /\ calls' = Append(calls, [msg |-> m, kind |-> kind])
    /\ pending' = pending \cup {c}
    /\ IF state = "open"
       THEN wire' = Append(wire, c) /\ UNCHANGED outbound
       ELSE outbound' = Append(outbound, c) /\ UNCHANGED wire

QueuedMessagesOf(cs) == {calls[c].msg : c \in {d \in cs : calls[d].kind = "queued"}}

\* The promises of cs fail: queued messages go back to waiting, with a delay
\* (the pump's catch); a direct send is over ("Send failed").
Reject(cs) ==
    /\ pending' = pending \ cs
    /\ queue' = Requeue(queue, QueuedMessagesOf(cs))
    /\ backoff' = backoff \cup QueuedMessagesOf(cs)
    /\ composer' = IF \E c \in cs : calls[c].kind = "direct" THEN Nobody ELSE composer

\* handleClose and stopReconnecting: nothing on this socket will arrive any
\* more, and no promise stays open.
Disconnect ==
    /\ Reject(pending)
    /\ outbound' = <<>>
    /\ wire' = <<>> /\ answers' = {} /\ snapshot' = <<>>

---------------------------------------------------------------------------
(* The user.                                                               *)

\* Submitting while a turn runs puts the message into the queue.
WriteQueued ==
    /\ written < NumMessages
    /\ composer = Nobody
    /\ view.running
    /\ written' = written + 1
    /\ queue' = Append(queue, NewEntry(written + 1))
    /\ deferred' = deferred \cup {written + 1}
    /\ UNCHANGED <<composer, cancelled, moved, backoff, view, transport, network, server, budget>>

\* Otherwise it is sent at once, queue or no queue; the thread's settings are
\* saved first.
WriteDirect ==
    /\ written < NumMessages
    /\ composer = Nobody
    /\ ~view.running
    /\ Patient => /\ queue = <<>> /\ pending = {} /\ Unfinished = {}
                  /\ view = ServerView /\ snapshot = <<>>
    /\ written' = written + 1
    /\ composer' = [msg |-> written + 1, step |-> "settings"]
    /\ UNCHANGED <<deferred, cancelled, moved, queue, backoff, view, transport, network, server,
                   budget>>

SendDirect ==
    /\ composer.step = "settings"
    /\ Request(composer.msg, "direct")
    /\ composer' = [composer EXCEPT !.step = "turn"]
    /\ UNCHANGED <<written, deferred, cancelled, moved, queue, backoff, view, state, answers,
                   snapshot, server, budget>>

SettingsFail ==
    /\ composer.step = "settings"
    /\ Spend("losses")
    /\ composer' = Nobody
    /\ UNCHANGED <<written, deferred, cancelled, moved, queue, backoff, view, transport,
                   network, server>>

CancelQueued ==
    /\ CanCancel(queue)
    /\ cancelled' = cancelled \cup {queue[Len(queue)].msg}
    /\ queue' = Cancel(queue)
    /\ UNCHANGED <<written, composer, deferred, moved, backoff, view, transport, network, server,
                   budget>>

MoveQueued(to) ==
    /\ CanMove(queue, to)
    /\ Spend("moves")
    /\ queue' = Move(queue, to)
    /\ moved' = moved \cup {queue[to].msg, queue[MoveTarget(queue)].msg}
    /\ UNCHANGED <<written, composer, deferred, cancelled, backoff, view, transport, network,
                   server>>

\* stopReconnecting and reconnect, from the connection panel.
Suspend ==
    /\ state # "suspended"
    /\ Spend("suspends")
    /\ state' = "suspended"
    /\ Disconnect
    /\ UNCHANGED <<written, deferred, cancelled, moved, view, calls, server>>

Resume ==
    /\ state = "suspended"
    /\ state' = "connecting"
    /\ UNCHANGED <<user, queue, backoff, view, calls, pending, outbound, network, server, budget>>

---------------------------------------------------------------------------
(* The TUI's own steps.                                                    *)

\* The queue pump.  Each attempt is a request with a new command id and the
\* message's own id, so the server takes every attempt for a command of its own.
Pump ==
    LET m == queue[FirstWaiting(queue)].msg IN
    /\ PumpDispatches(queue, view, backoff)
    /\ Request(m, "queued")
    /\ queue' = MarkDispatching(queue, m, replies)
    /\ UNCHANGED <<user, backoff, view, state, answers, snapshot, server, budget>>

BackoffOver(m) ==
    /\ m \in backoff
    /\ backoff' = backoff \ {m}
    /\ UNCHANGED <<user, queue, view, transport, network, server, budget>>

\* The valve: 120 s after its dispatch an entry without a sign of its turn goes
\* back to waiting.  The promise, whose own limit is 60 s, is settled by then.
Expire(i) ==
    /\ i \in DispatchingIn(queue)
    /\ PastRescue(queue[i], view)
    /\ queue[i].msg \notin QueuedMessagesOf(pending)
    /\ Spend("expiries")
    /\ queue' = Requeue(queue, {queue[i].msg})
    /\ UNCHANGED <<user, backoff, view, transport, network, server>>

\* A domain event, a welcome or a reconnect makes the TUI ask for a snapshot,
\* one request at a time; the server reads it ...
ReadSnapshot ==
    /\ state = "open"
    /\ snapshot = <<>>
    /\ ServerView # view
    /\ snapshot' = <<ServerView>>
    /\ UNCHANGED <<user, queue, backoff, view, transport, wire, answers, server, budget>>

\* ... and when it arrives the TUI reconciles the queue with it.
ShowSnapshot ==
    /\ snapshot # <<>>
    /\ view' = Head(snapshot)
    /\ snapshot' = <<>>
    /\ queue' = Reconciled(queue, Head(snapshot))
    /\ UNCHANGED <<user, backoff, transport, wire, answers, server, budget>>

---------------------------------------------------------------------------
(* The transport.                                                          *)

Open ==
    /\ state = "connecting"
    /\ state' = "open"
    /\ wire' = outbound
    /\ outbound' = <<>>
    /\ UNCHANGED <<user, queue, backoff, view, calls, pending, answers, snapshot, server, budget>>

Close ==
    /\ state \in {"connecting", "open"}
    /\ Spend("losses")
    /\ state' = "closed"
    /\ Disconnect
    /\ UNCHANGED <<written, deferred, cancelled, moved, view, calls, server>>

\* The reconnect timer.
Retry ==
    /\ state = "closed"
    /\ state' = "connecting"
    /\ UNCHANGED <<user, queue, backoff, view, calls, pending, outbound, network, server, budget>>

\* dropQueued.  A request is in the outbound queue once.
DropQueued(c) ==
    LET Of == {i \in 1 .. Len(outbound) : outbound[i] = c}
    IN  IF Of = {} THEN outbound ELSE RemoveAt(outbound, CHOOSE i \in Of : TRUE)

\* The request timer: a request still in the outbound queue is never sent, one
\* that was sent may still be handled, and its answer is ignored.
Timeout(c) ==
    /\ c \in pending
    /\ Spend("losses")
    /\ Reject({c})
    /\ outbound' = DropQueued(c)
    /\ answers' = {a \in answers : a.call # c}
    /\ UNCHANGED <<written, deferred, cancelled, moved, view, state, calls, wire, snapshot, server>>

\* An answer settles its promise, the first one if there are several.
Answered(a) ==
    /\ a \in answers
    /\ answers' = {b \in answers : b.call # a.call}
    /\ IF a.ok
       THEN /\ pending' = pending \ {a.call}
            /\ backoff' = backoff \ QueuedMessagesOf({a.call})
            /\ composer' = IF calls[a.call].kind = "direct" THEN Nobody ELSE composer
            /\ UNCHANGED queue
       ELSE Reject({a.call})
    /\ UNCHANGED <<written, deferred, cancelled, moved, view, state, calls, outbound, wire,
                   snapshot, server, budget>>

---------------------------------------------------------------------------
(* The server.                                                             *)

Receive ==
    /\ wire # <<>>
    /\ inbox' = inbox \cup {Head(wire)}
    /\ wire' = Tail(wire)
    /\ UNCHANGED <<user, queue, backoff, view, transport, answers, snapshot, turns, session,
                   active, alive, replies, budget>>

\* Mutant: an answer nobody waits for any more is kept.
AnswerToAnyone(c, ok) == answers' = answers \cup {[call |-> c, ok |-> ok]}

\* handleMessage and dispatch, to the answer; the answer of a request nobody
\* waits for any more is dropped on arrival.
AnswerTo(c, ok) ==
    answers' = IF c \in pending THEN answers \cup {[call |-> c, ok |-> ok]} ELSE answers

Handle(c) ==
    /\ c \in inbox
    /\ inbox' = inbox \ {c}
    /\ turns' = Append(turns, [msg |-> calls[c].msg, phase |-> "requested"])
    /\ AnswerTo(c, TRUE)
    /\ UNCHANGED <<user, queue, backoff, view, transport, wire, snapshot, session, active, alive,
                   replies, budget>>

HandleFails(c) ==
    /\ c \in inbox
    /\ Spend("losses")
    /\ inbox' = inbox \ {c}
    /\ AnswerTo(c, FALSE)
    /\ UNCHANGED <<user, queue, backoff, view, transport, wire, snapshot, turns, session, active,
                   alive, replies>>

\* The reactor takes the turn starts in order.
NextTurn(i) ==
    /\ i \in 1 .. Len(turns)
    /\ turns[i].phase = "requested"
    /\ \A j \in 1 .. i - 1 : turns[j].phase # "requested"

\* ensureSessionForThread, or the recovery in sendTurn after a restart of the
\* server.  While the session has an active turn, "starting" is recorded as
\* running; a session that is bound anew has none.
StartSession ==
    /\ ~alive
    /\ \E i \in 1 .. Len(turns) : NextTurn(i)
    /\ alive' = TRUE
    /\ session' = IF ShowsStarting /\ active = 0 THEN "starting" ELSE "ready"
    /\ active' \in {active, 0}
    /\ UNCHANGED <<user, queue, backoff, view, transport, network, inbox, turns, replies, budget>>

SessionReady ==
    /\ alive
    /\ session = "starting"
    /\ session' = "ready"
    /\ UNCHANGED <<user, queue, backoff, view, transport, network, inbox, turns, active, alive,
                   replies, budget>>

\* turn.started: ignored by the session while another turn is active.
StartTurn(i) ==
    /\ alive
    /\ session = "ready"
    /\ NextTurn(i)
    /\ turns' = [turns EXCEPT ![i].phase = "running"]
    /\ active' = IF active = 0 THEN i ELSE active
    /\ UNCHANGED <<user, queue, backoff, view, transport, network, inbox, session, alive, replies,
                   budget>>

\* The session cannot be started, or the provider refuses the turn; only an
\* activity on the thread tells of it.
FailTurn(i) ==
    /\ ~TurnsSucceed
    /\ alive => session = "ready"
    /\ NextTurn(i)
    /\ turns' = [turns EXCEPT ![i].phase = "done"]
    /\ UNCHANGED <<user, queue, backoff, view, transport, network, inbox, session, active, alive,
                   replies, budget>>

\* turn.completed: only the active turn may close the lifecycle state.
EndTurn(i) ==
    /\ i \in 1 .. Len(turns)
    /\ turns[i].phase = "running"
    /\ turns' = [turns EXCEPT ![i].phase = "done"]
    /\ active' = IF active = i THEN 0 ELSE active
    /\ replies' \in IF TurnsSucceed THEN {replies + 1} ELSE {replies, replies + 1}
    /\ UNCHANGED <<user, queue, backoff, view, transport, network, inbox, session, alive, budget>>

LoseTurns(phases) ==
    turns' = [i \in 1 .. Len(turns) |->
                IF turns[i].phase \in phases THEN [turns[i] EXCEPT !.phase = "lost"] ELSE turns[i]]

\* session.exited: the provider's process dies, with the turns it runs.
ProviderExits ==
    /\ alive
    /\ session = "ready"
    /\ Spend("exits")
    /\ alive' = FALSE
    /\ session' = "stopped"
    /\ active' = 0
    /\ LoseTurns({"running"})
    /\ UNCHANGED <<user, queue, backoff, view, transport, network, inbox, replies>>

\* The server dies and is started again.  The provider's processes die with it,
\* published events are not replayed to the reactor, and nothing resets the
\* session, which is read back from the log.
Crash ==
    /\ Spend("crashes")
    /\ Disconnect
    /\ state' = IF state = "suspended" THEN state ELSE "closed"
    /\ inbox' = {}
    /\ alive' = FALSE
    /\ LoseTurns({"requested", "running"})
    /\ UNCHANGED <<written, deferred, cancelled, moved, view, calls, session, active, replies>>

---------------------------------------------------------------------------
\* The effects of a render, the pump's among them, run before the next key press.
User == /\ ~PumpDispatches(queue, view, backoff)
        /\ \/ WriteQueued \/ WriteDirect \/ CancelQueued
           \/ \E to \in 1 .. Len(queue) : MoveQueued(to)
           \/ Suspend \/ Resume

Client == SendDirect \/ Pump \/ (\E m \in backoff : BackoffOver(m))
          \/ ReadSnapshot \/ ShowSnapshot \/ Open \/ Retry
          \/ (\E a \in answers : Answered(a))

Server == Receive \/ (\E c \in inbox : Handle(c))
          \/ StartSession \/ SessionReady
          \/ (\E i \in 1 .. Len(turns) : StartTurn(i) \/ EndTurn(i))

Trouble == SettingsFail \/ Close \/ ProviderExits \/ Crash
           \/ (\E i \in 1 .. Len(queue) : Expire(i)) \/ (\E c \in pending : Timeout(c))
           \/ (\E c \in inbox : HandleFails(c)) \/ (\E i \in 1 .. Len(turns) : FailTurn(i))

Next == User \/ Client \/ Server \/ Trouble

Spec == Init /\ [][Next]_vars

\* Timers fire, the valve's among them, sockets deliver or close, effects and
\* fibers run on, and a turn that runs ends; the user and the rest of the trouble
\* are under no obligation.
FairSpec ==
    /\ Spec
    /\ WF_vars(SendDirect) /\ WF_vars(Pump) /\ WF_vars(\E m \in backoff : BackoffOver(m))
    /\ WF_vars(\E i \in 1 .. Len(queue) : Expire(i))
    /\ WF_vars(ReadSnapshot) /\ WF_vars(ShowSnapshot) /\ WF_vars(Open \/ Retry)
    /\ WF_vars(\E a \in answers : Answered(a))
    /\ WF_vars(Receive) /\ WF_vars(\E c \in inbox : Handle(c))
    /\ WF_vars(StartSession) /\ WF_vars(SessionReady)
    /\ WF_vars(\E i \in 1 .. Len(turns) : StartTurn(i))
    /\ WF_vars(\E i \in 1 .. Len(turns) : EndTurn(i))
---------------------------------------------------------------------------
(* Properties.                                                             *)

TypeOK ==
    /\ written \in 0 .. NumMessages
    /\ composer \in Sending
    /\ queue \in Seq(Entry(Messages))
    /\ backoff \subseteq Messages /\ deferred \subseteq Messages /\ cancelled \subseteq Messages
    /\ moved \subseteq Messages
    /\ view \in View(Messages)
    /\ state \in {"connecting", "open", "closed", "suspended"}
    /\ calls \in Seq(Call)
    /\ pending \subseteq 1 .. Len(calls)
    /\ outbound \in Seq(1 .. Len(calls))
    /\ snapshot \in Seq(View(Messages))
    /\ wire \in Seq(1 .. Len(calls))
    /\ inbox \subseteq 1 .. Len(calls)
    /\ answers \subseteq [call : pending, ok : BOOLEAN]
    /\ turns \in Seq(Turn)
    /\ session \in {"stopped", "starting", "ready"}
    /\ active \in 0 .. Len(turns)
    /\ alive \in BOOLEAN
    /\ replies \in Nat
    /\ budget \in [Bounds -> Nat]

\* A message the user left in the queue is still there, or the server has it,
\* whatever the network, the server and the timers did in between.
NothingLost ==
    \A m \in deferred \ cancelled : IsQueued(queue, m) \/ m \in Persisted(turns)

\* A message leaves for the provider once, however often its dispatch is tried.
OneTurnPerMessage ==
    \A i, j \in 1 .. Len(turns) : turns[i].msg = turns[j].msg => i = j

\* The barrier: the next message is not sent before the turn of the one before it
\* has ended.  At no time do two turn starts wait or run, and while the turn of a
\* queued message does, its entry stays in the queue and blocks the next one.
BarrierHolds ==
    \A i \in Unfinished :
      /\ \A j \in Unfinished : i = j
      /\ turns[i].msg \in deferred \ cancelled => IsQueued(queue, turns[i].msg)

\* A message the user took back never reaches the provider.
CancelledNeverRuns == cancelled \cap Persisted(turns) = {}

\* While a message waits in the queue, none that was written after it is sent,
\* unless the user moved it there.
NotOvertaken ==
    \A i \in Waiting(queue) :
      queue[i].msg \notin Persisted(turns) \cup moved =>
        \A m \in Persisted(turns) : m < queue[i].msg

\* Every queued message leaves the queue.
QueueDrains == \A m \in Messages : IsQueued(queue, m) ~> ~IsQueued(queue, m)

\* A dispatch does not block the queue for ever: its turn completes it, or it is
\* given up and its message waits again.
DispatchSettles ==
    LET InFlight(m) == \E i \in DispatchingIn(queue) : queue[i].msg = m
    IN  \A m \in Messages : InFlight(m) ~> ~InFlight(m)
=============================================================================
