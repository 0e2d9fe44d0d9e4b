------------------------------ MODULE ClientSync ------------------------------
(***************************************************************************)
(* How a TUI keeps up with the server.  The server pushes an event to      *)
(* every client it has let in; a client does not look into it, it asks for *)
(* a whole snapshot, one request at a time (snapshotRefresh.ts, ui.tsx),   *)
(* over a transport whose socket comes and goes (wsTransport.ts).  A       *)
(* client is let in by its welcome, on the same queue as the events        *)
(* (pushBus.ts, wsServer.ts).  QueuedSend takes for granted what this      *)
(* module is about.                                                        *)
(*                                                                         *)
(* What the server has recorded is a version, its number of events.  One   *)
(* client, of several that do not touch each other; settings, terminals    *)
(* and the other requests of the transport are left out.                   *)
(***************************************************************************)
EXTENDS Naturals, Sequences

CONSTANTS
    MaxCommits,   \* bounds: events recorded,
    MaxLosses,    \* sockets lost, requests timed out or failed, server crashes,
    MaxSuspends   \* reconnecting given up by the user

ASSUME SyncAssumption == {MaxCommits, MaxLosses, MaxSuspends} \subseteq Nat

VARIABLES
    \* The server.
    version,     \* events recorded, all of them in the snapshot
    bus,         \* the push bus's queue
    admitted,    \* the current socket: not welcomed, welcomed, in clients
    handled,     \* its requests being handled, and the version each has read
    \* Between them.
    toServer,    \* requests on the socket
    toClient,    \* pushes and answers on the socket
    \* The transport.
    socket,      \* its state
    connection,  \* how often it has opened
    outbound,    \* outboundQueue
    pending,     \* the request not settled, or 0
    lastId,      \* of the requests
    \* The TUI.
    again,       \* pendingReason of the refresh runner is set
    timer,       \* refreshTimer is set
    subscribed,  \* the listeners of pushes are set
    greeted,     \* a welcome is the latest push of its channel
    view,        \* the version shown
    budget       \* what is left of the bounds

server    == <<version, bus, admitted, handled>>
wires     == <<toServer, toClient>>
transport == <<socket, connection, outbound, pending, lastId>>
client    == <<again, timer, subscribed, greeted, view>>
vars      == <<server, wires, transport, client, budget>>

Job == [kind : {"event"}] \cup [kind : {"welcome"}, connection : Nat]

Snapshot == [kind : {"answer"}, id : Nat, version : Nat]

ToClient == [kind : {"event", "welcome"}] \cup Snapshot

\* The TUI boots: its initial refresh waits for the first socket to open.
Init ==
    /\ version = 0 /\ bus = <<>> /\ admitted = "no" /\ handled = {}
    /\ toServer = <<>> /\ toClient = <<>>
    /\ socket = "connecting" /\ connection = 0
    /\ outbound = <<1>> /\ pending = 1 /\ lastId = 1
    /\ again = FALSE /\ timer = FALSE /\ subscribed = FALSE /\ greeted = FALSE
    /\ view = 0
    /\ budget = [commits |-> MaxCommits, losses |-> MaxLosses, suspends |-> MaxSuspends]

Spend(kind) ==
    /\ budget[kind] > 0
    /\ budget' = [budget EXCEPT ![kind] = @ - 1]

---------------------------------------------------------------------------
(* Parts of the client's steps.  up: the socket is open, once the step is  *)
(* done; sent and queued: toServer and outbound without what the step      *)
(* adds.                                                                   *)

\* Mutant: the number of a request is not counted.
RequestUncounted(up, sent, queued) ==
    /\ lastId' = lastId
    /\ pending' = lastId + 1
    /\ toServer' = IF up THEN Append(sent, lastId + 1) ELSE sent
    /\ outbound' = IF up THEN queued ELSE Append(queued, lastId + 1)

\* transport.request of a snapshot.
Request(up, sent, queued) ==
    /\ lastId' = lastId + 1
    /\ pending' = lastId + 1
    /\ toServer' = IF up THEN Append(sent, lastId + 1) ELSE sent
    /\ outbound' = IF up THEN queued ELSE Append(queued, lastId + 1)

NoRequest(sent, queued) ==
    /\ toServer' = sent /\ outbound' = queued
    /\ UNCHANGED lastId

\* Mutant: a reason that comes while a refresh runs is dropped.
RefreshOnce(up, sent, queued) ==
    /\ IF pending # 0 THEN NoRequest(sent, queued) /\ UNCHANGED pending
       ELSE Request(up, sent, queued)
    /\ UNCHANGED again

\* The coalesced refresh, which runs as long as its request is pending: a reason
\* given meanwhile makes one more follow.
Refresh(up, sent, queued) ==
    IF pending # 0
    THEN again' = TRUE /\ NoRequest(sent, queued) /\ UNCHANGED pending
    ELSE Request(up, sent, queued) /\ UNCHANGED again

\* A refresh is over: one more follows if asked for.  After the initial one the
\* listeners are set, and the welcome that is there already is taken.
RefreshOver(up, sent, queued) ==
    /\ IF again \/ (~subscribed /\ greeted)
       THEN Request(up, sent, queued)
       ELSE NoRequest(sent, queued) /\ pending' = 0
    /\ again' = FALSE
    /\ subscribed' = (subscribed \/ ~again)

\* Mutant: a failed refresh is not tried again.
RetryNever(state) == timer' = FALSE

\* scheduleRefreshRetry: not while the connection is suspended.
RetryLater(state) == timer' = (state # "suspended")

\* handleClose and stopReconnecting: the socket's traffic is gone, the queue
\* emptied and the open request fails.
Drop(state) ==
    /\ socket' = state
    /\ admitted' = "no" /\ handled' = {}
    /\ toClient' = <<>>
    /\ IF pending # 0
       THEN RefreshOver(FALSE, <<>>, <<>>) /\ RetryLater(state)
       ELSE /\ NoRequest(<<>>, <<>>)
            /\ timer' = (timer /\ state # "suspended")
            /\ UNCHANGED <<pending, again, subscribed>>
    /\ UNCHANGED <<connection, greeted, view>>

---------------------------------------------------------------------------
(* The server.                                                             *)

\* A command: its event is published when it is committed.
Commit ==
    /\ Spend("commits")
    /\ version' = version + 1
    /\ bus' = Append(bus, [kind |-> "event"])
    /\ UNCHANGED <<admitted, handled, wires, transport, client>>

\* publishAll reaches the sockets in clients.
ReachesClient == admitted = "in"

\* The push bus takes the next job.
Push ==
    /\ bus # <<>>
    /\ bus' = Tail(bus)
    /\ LET job == Head(bus) IN
       \/ /\ job.kind = "event"
          /\ toClient' = IF ReachesClient THEN Append(toClient, [kind |-> "event"]) ELSE toClient
          /\ UNCHANGED admitted
       \/ /\ job.kind = "welcome"
          /\ socket = "open" /\ job.connection = connection
          /\ toClient' = Append(toClient, [kind |-> "welcome"])
          /\ admitted' = "welcomed"
       \/ /\ job.kind = "welcome"
          /\ ~(socket = "open" /\ job.connection = connection)
          /\ UNCHANGED <<toClient, admitted>>
    /\ UNCHANGED <<version, handled, toServer, transport, client, budget>>

\* The welcome is delivered: the socket goes into clients.
Admit ==
    /\ admitted = "welcomed"
    /\ admitted' = "in"
    /\ UNCHANGED <<version, bus, handled, wires, transport, client, budget>>

\* getSnapshot, in a fiber of its own: the version is read ...  The fiber that
\* admits a client runs on before the process reads its sockets again, so no
\* request is received between welcome and Admit.
Read ==
    /\ toServer # <<>>
    /\ admitted # "welcomed"
    /\ toServer' = Tail(toServer)
    /\ handled' = handled \cup {[kind |-> "answer", id |-> Head(toServer), version |-> version]}
    /\ UNCHANGED <<version, bus, admitted, toClient, transport, client, budget>>

\* ... and sent when that fiber gets to it.
Answer(a) ==
    /\ a \in handled
    /\ handled' = handled \ {a}
    /\ toClient' = Append(toClient, a)
    /\ UNCHANGED <<version, bus, admitted, toServer, transport, client, budget>>

---------------------------------------------------------------------------
(* The transport.                                                          *)

\* handleOpen: what is queued goes out; after a reconnect the TUI refreshes.
Open ==
    /\ socket = "connecting"
    /\ socket' = "open"
    /\ connection' = connection + 1
    /\ bus' = Append(bus, [kind |-> "welcome", connection |-> connection + 1])
    /\ IF connection > 0 THEN Refresh(TRUE, outbound, <<>>)
       ELSE NoRequest(outbound, <<>>) /\ UNCHANGED <<pending, again>>
    /\ UNCHANGED <<version, admitted, handled, toClient, timer, subscribed, greeted, view, budget>>

Close ==
    /\ socket \in {"connecting", "open"}
    /\ Spend("losses")
    /\ Drop("closed")
    /\ UNCHANGED <<version, bus>>

\* The server dies, and what it has not pushed with it; it is started again.
Crash ==
    /\ socket \in {"connecting", "open"}
    /\ Spend("losses")
    /\ Drop("closed")
    /\ bus' = <<>>
    /\ UNCHANGED version

\* The reconnect timer.
Reconnect ==
    /\ socket = "closed"
    /\ socket' = "connecting"
    /\ UNCHANGED <<server, wires, connection, outbound, pending, lastId, client, budget>>

Suspend ==
    /\ socket # "suspended"
    /\ Spend("suspends")
    /\ Drop("suspended")
    /\ UNCHANGED <<version, bus>>

Resume ==
    /\ socket = "suspended"
    /\ socket' = "connecting"
    /\ UNCHANGED <<server, wires, connection, outbound, pending, lastId, client, budget>>

\* The request timer, or a request the server refuses.
Fail ==
    /\ pending # 0
    /\ Spend("losses")
    /\ RefreshOver(socket = "open", toServer,
                   IF outbound # <<>> /\ Head(outbound) = pending THEN Tail(outbound) ELSE outbound)
    /\ RetryLater(socket)
    /\ UNCHANGED <<server, toClient, socket, connection, greeted, view>>

---------------------------------------------------------------------------
(* What the client receives.                                               *)

\* A push: a welcome is kept; both make a client that listens refresh.
TakePush ==
    /\ toClient # <<>>
    /\ Head(toClient).kind \in {"event", "welcome"}
    /\ toClient' = Tail(toClient)
    /\ greeted' = (greeted \/ Head(toClient).kind = "welcome")
    /\ IF subscribed THEN Refresh(TRUE, toServer, outbound)
       ELSE NoRequest(toServer, outbound) /\ UNCHANGED <<pending, again>>
    /\ UNCHANGED <<server, socket, connection, timer, subscribed, view, budget>>

\* Mutant: an answer is taken although its request was given up.
AwaitedAnyway(answer) == TRUE

Awaited(answer) == answer.id = pending

\* An answer; one whose request was given up is dropped.
TakeAnswer ==
    /\ toClient # <<>>
    /\ Head(toClient).kind = "answer"
    /\ toClient' = Tail(toClient)
    /\ IF Awaited(Head(toClient))
       THEN /\ view' = Head(toClient).version
            /\ RefreshOver(TRUE, toServer, outbound)
       ELSE /\ NoRequest(toServer, outbound)
            /\ UNCHANGED <<pending, again, subscribed, view>>
    /\ UNCHANGED <<server, socket, connection, timer, greeted, budget>>

\* refreshTimer
RetryNow ==
    /\ timer
    /\ timer' = FALSE
    /\ Refresh(socket = "open", toServer, outbound)
    /\ UNCHANGED <<server, toClient, socket, connection, subscribed, greeted, view, budget>>

Next ==
    \/ Commit \/ Push \/ Admit \/ Read \/ (\E a \in handled : Answer(a))
    \/ Open \/ Close \/ Crash \/ Reconnect \/ Suspend \/ Resume \/ Fail
    \/ TakePush \/ TakeAnswer \/ RetryNow

Spec == Init /\ [][Next]_vars

\* Sockets open and deliver or close, fibers run on and timers fire; commands,
\* losses and the user are under no obligation.
FairSpec ==
    /\ Spec
    /\ WF_vars(Push) /\ WF_vars(Admit) /\ WF_vars(Read) /\ WF_vars(\E a \in handled : Answer(a))
    /\ WF_vars(Open) /\ WF_vars(Reconnect)
    /\ WF_vars(TakePush) /\ WF_vars(TakeAnswer) /\ WF_vars(RetryNow)

---------------------------------------------------------------------------
(* Properties.                                                             *)

TypeOK ==
    /\ version \in Nat
    /\ bus \in Seq(Job)
    /\ admitted \in {"no", "welcomed", "in"}
    /\ handled \subseteq Snapshot
    /\ toServer \in Seq(Nat)
    /\ toClient \in Seq(ToClient)
    /\ socket \in {"connecting", "open", "closed", "suspended"}
    /\ connection \in Nat
    /\ outbound \in Seq(Nat)
    /\ lastId \in Nat
    /\ pending \in 0 .. lastId
    /\ {again, timer, subscribed, greeted} \subseteq BOOLEAN
    /\ view \in 0 .. version
    /\ budget \in [{"commits", "losses", "suspends"} -> Nat]

\* Nothing is under way between the server and the client.
Quiet ==
    /\ socket = "open" /\ bus = <<>> /\ admitted = "in"
    /\ toServer = <<>> /\ handled = {} /\ toClient = <<>>
    /\ pending = 0 /\ ~timer

\* No update is missed: when everything has been delivered the client shows what
\* the server has, although the events pushed between a client's welcome and its
\* admission never reach it (wsServer.ts 1137-1145), and a reason to refresh that
\* comes while a refresh runs is only remembered (snapshotRefresh.ts).
QuietIsFresh == Quiet => view = version

\* The client never shows an older version after a newer one, though an answer
\* may come after its request was given up and asked anew.
ViewOnlyAdvances == [][view' >= view]_vars

\* Whatever was lost on the way, a client whose user lets it reconnect shows
\* everything the server has recorded.
KeepsUp == \A n \in 1 .. MaxCommits : version = n ~> (view >= n \/ socket = "suspended")
=============================================================================
