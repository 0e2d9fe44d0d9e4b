--------------------------- MODULE TerminalManager ---------------------------
(***************************************************************************)
(* The server's terminals (terminal/Layers/Manager.ts): a map of sessions, *)
(* each with at most one shell process; operations that hold their         *)
(* thread's lock across awaits; the history of a terminal, written to its  *)
(* file some time after the output came; the eviction of sessions that do  *)
(* not run; SIGTERM, then SIGKILL; and the poll that asks which shells     *)
(* have children.                                                          *)
(*                                                                         *)
(* A session object outlives its place in the map while an operation or a  *)
(* process still refers to it, so objects, processes and the map are kept  *)
(* apart.  Sizes, environments, exit codes and the events sent to clients  *)
(* decide nothing and are left out, as are write and resize, which only    *)
(* pass data to a process.                                                 *)
(***************************************************************************)
EXTENDS Naturals, Sequences, FiniteSets

CONSTANTS
    Terminals,       \* pairs of thread id and terminal id
    ThreadOf,        \* the thread of each terminal
    None,            \* no file, nothing to persist
    MaxRetained,     \* maxRetainedInactiveSessions (128)
    HistoryLimit,    \* historyLineLimit (5000)
    MaxOperations,   \* bounds: operations asked for,
    MaxOutputs,      \* pieces of output,
    MaxPolls,        \* polls of the shells' children,
    MaxDisposals,    \* disposals of the manager,
    MaxFaults        \* shells whose kill throws, and files not read, written or removed

ASSUME TerminalAssumption ==
    /\ DOMAIN ThreadOf = Terminals
    /\ 0 \notin Terminals
    /\ None \notin Seq(Nat)        \* no history is None
    /\ MaxRetained \in Nat \ {0}
    /\ HistoryLimit \in Nat \ {0}
    /\ MaxOperations \in Nat
    /\ MaxOutputs \in Nat
    /\ MaxPolls \in Nat
    /\ MaxDisposals \in Nat
    /\ MaxFaults \in Nat

Threads == {ThreadOf[k] : k \in Terminals}

VARIABLES
    mgr,      \* the manager's own state, see Manager
    disk,     \* the history file of each terminal, or None
    waiting,  \* operations queued for each thread's lock
    job,      \* the operation that holds each thread's lock
    checks,   \* answers the poll in flight still waits for
    deleted,  \* terminals closed with their history and not opened since (history)
    unsaved,  \* terminals whose last write failed (history)
    budget    \* what is left of the bounds

vars == <<mgr, disk, waiting, job, checks, deleted, unsaved, budget>>

---------------------------------------------------------------------------
(* Sessions, processes and the operators on the manager's state.           *)

Text == Seq(Nat)            \* a history: the numbers of its lines

\* process is 0 when there is none; busy is the process whose children made
\* hasRunningSubprocess true, or 0 when it is false.
Session ==
    [terminal : Terminals, status : {"starting", "running", "exited", "error"},
     process : Nat, history : Text, busy : Nat]

\* A history on its way to the file; awaited when an operation waits for it.
WriteTask == [text : Text, awaited : BOOLEAN]

\* A shell runs; a deaf one runs, and its kill throws (as node-pty's does where the
\* server runs on Windows); it is signalled once it got a SIGTERM; it is missed when it
\* was to go and its kill threw.
Process == {"running", "deaf", "signalled", "missed", "dead"}

Manager ==
    [table      : Seq(Nat),      \* the sessions map: least recently updated first
     sessions   : Seq(Session),  \* every session object made
     processes  : Seq(Process),
     killTimers : SUBSET Nat,    \* processes a SIGKILL is scheduled for
     polling    : BOOLEAN,       \* subprocessPollTimer is set
     pending    : [Terminals -> Text \cup {None}],      \* pendingPersistHistory, and its timer
     writing    : [Terminals -> Seq(WriteTask)],        \* persistQueues
     detached   : [Terminals -> Seq(Seq(WriteTask))],   \* write chains the map has forgotten
     untimely   : SUBSET Terminals]                     \* terminals evicted while in use (history)

Held(m, o) == \E i \in 1 .. Len(m.table) : m.table[i] = o

\* sessions.get: the session of terminal k, or 0.
SessionOf(m, k) ==
    IF \E i \in 1 .. Len(m.table) : m.sessions[m.table[i]].terminal = k
    THEN CHOOSE o \in 1 .. Len(m.sessions) : Held(m, o) /\ m.sessions[o].terminal = k
    ELSE 0

\* The elements of s that are in the set S, in their order.
Only(s, S) ==
    LET kept[i \in 0 .. Len(s)] ==
          IF i = 0 THEN <<>>
          ELSE IF s[i] \in S THEN Append(kept[i - 1], s[i]) ELSE kept[i - 1]
    IN  kept[Len(s)]

Without(s, os) == Only(s, {s[i] : i \in 1 .. Len(s)} \ os)

\* updatedAt := now.
Touch(m, o) ==
    IF Held(m, o) THEN [m EXCEPT !.table = Append(Without(@, {o}), o)] ELSE m

\* Mutant: the history is not capped.
Uncapped(h) == h

\* capHistory.
Capped(h) ==
    IF Len(h) <= HistoryLimit THEN h ELSE SubSeq(h, Len(h) - HistoryLimit + 1, Len(h))

Inactive(m) == Only(m.table, {o \in 1 .. Len(m.sessions) : m.sessions[o].status # "running"})

Victims(m) ==
    LET old == Inactive(m)
    IN  {old[i] : i \in {j \in 1 .. Len(old) : j + MaxRetained <= Len(old)}}

\* Terminals whose session an operation is working on, or whose history is not
\* on disk yet.
InUse(m) ==
    {k \in Terminals : \/ m.pending[k] # None
                       \/ m.writing[k] # <<>>
                       \/ SessionOf(m, k) # 0 /\ \E t \in Threads : job[t].session = SessionOf(m, k)}

\* The manager drops a session with what it still had to write; writes that have
\* begun go on, unknown to the map.
Forget(m, os) ==
    LET keys == {m.sessions[o].terminal : o \in os}
    IN  [m EXCEPT
           !.table    = Without(@, os),
           !.pending  = [k \in Terminals |-> IF k \in keys THEN None ELSE @[k]],
           !.writing  = [k \in Terminals |-> IF k \in keys THEN <<>> ELSE @[k]],
           !.detached = [k \in Terminals |-> IF k \in keys /\ m.writing[k] # <<>>
                                             THEN Append(@[k], m.writing[k]) ELSE @[k]],
           !.untimely = @ \cup (keys \cap InUse(m))]

\* evictInactiveSessionsIfNeeded.
Evict(m) == Forget(m, Victims(m))

\* updateSubprocessPollingState.
Watch(m) ==
    [m EXCEPT !.polling = \E i \in 1 .. Len(m.table) : m.sessions[m.table[i]].status = "running"]

\* Mutant: the process is let go of without a signal.
StopWithoutSignal(m, o) ==
    IF m.sessions[o].process = 0 THEN m
    ELSE Watch(Evict(Touch([m EXCEPT !.sessions[o].process = 0,
                                     !.sessions[o].busy    = 0,
                                     !.sessions[o].status  = "exited"], o)))

\* killProcessWithEscalation: SIGTERM, then the timer of the SIGKILL; when the SIGTERM
\* throws that is logged, and nothing more is tried.
Signal(m, p) ==
    IF m.processes[p] = "deaf"
    THEN [m EXCEPT !.processes[p] = "missed"]
    ELSE [m EXCEPT !.processes[p] = "signalled", !.killTimers = @ \cup {p}]

\* stopProcess: its handlers are removed, so what the process does from here on
\* reaches no session.
Stop(m, o) ==
    IF m.sessions[o].process = 0 THEN m
    ELSE Watch(Evict(Touch([Signal(m, m.sessions[o].process) EXCEPT
                              !.sessions[o].process = 0,
                              !.sessions[o].busy    = 0,
                              !.sessions[o].status  = "exited"], o)))

\* enqueuePersistWrite, for an operation that waits for it.
WriteNow(m, k, h) ==
    [m EXCEPT !.pending[k] = None, !.writing[k] = Append(@, [text |-> h, awaited |-> TRUE])]

\* Mutant: output that waits for its timer is left to be written afterwards.
ResetKeepsPending(m, o) ==
    [m EXCEPT !.sessions[o].history = <<>>,
              !.writing[m.sessions[o].terminal] = Append(@, [text |-> <<>>, awaited |-> TRUE])]

\* history := "" and persistHistory.
Reset(m, o) ==
    WriteNow([m EXCEPT !.sessions[o].history = <<>>], m.sessions[o].terminal, <<>>)

\* A new session enters the map.
AddSession(m, k, h) ==
    Evict([m EXCEPT !.sessions = Append(@, [terminal |-> k, status |-> "starting",
                                            process |-> 0, history |-> h, busy |-> 0]),
                    !.table    = Append(@, Len(m.sessions) + 1)])

\* startSession up to the spawn.
BeginStart(m, o) ==
    Touch([Stop(m, o) EXCEPT !.sessions[o].status = "starting", !.sessions[o].busy = 0], o)

\* startSession after a spawn.
Started(m, o, shell) ==
    Watch(Touch([m EXCEPT !.processes = Append(@, shell),
                          !.sessions[o].process = Len(m.processes) + 1,
                          !.sessions[o].status  = "running"], o))

\* startSession when no shell could be spawned.
StartFailed(m, o) ==
    Watch(Evict(Touch([m EXCEPT !.sessions[o].status = "error", !.sessions[o].busy = 0], o)))

---------------------------------------------------------------------------
(* The operations.  close takes one terminal or all of a thread's, the     *)
(* others take one.                                                        *)

CloseKinds == {"close", "closeDelete"}
Kinds      == CloseKinds \cup {"open", "openMoved", "restart", "clear"}

TerminalsOf(t) == {k \in Terminals : ThreadOf[k] = t}

Operation ==
    [kind : Kinds, targets : {{k} : k \in Terminals}]
      \cup [kind : CloseKinds, targets : {TerminalsOf(t) : t \in Threads}]

Steps == {"flush", "read", "clean", "spawn", "delete"}

\* An operation that holds a lock: the session it works on and what it awaits.
Job == [kind : Kinds, targets : SUBSET Terminals, session : Nat, step : Steps]

Idle == [kind |-> "none", targets |-> {}, session |-> 0, step |-> "none"]

Init ==
    /\ mgr = [table |-> <<>>, sessions |-> <<>>, processes |-> <<>>, killTimers |-> {},
              polling |-> FALSE, pending |-> [k \in Terminals |-> None],
              writing |-> [k \in Terminals |-> <<>>],
              detached |-> [k \in Terminals |-> <<>>], untimely |-> {}]
    /\ disk = [k \in Terminals |-> None]
    /\ waiting = [t \in Threads |-> <<>>]
    /\ job = [t \in Threads |-> Idle]
    /\ checks = {}
    /\ deleted = {}
    /\ unsaved = {}
    /\ budget = [operations |-> MaxOperations, outputs |-> MaxOutputs,
                 polls |-> MaxPolls, disposals |-> MaxDisposals, faults |-> MaxFaults]

Fault == budget.faults > 0 /\ budget' = [budget EXCEPT !.faults = @ - 1]

\* A client calls the manager; runWithThreadLock queues the call.
Request(op) ==
    /\ budget.operations > 0 /\ budget.disposals = MaxDisposals
    /\ budget' = [budget EXCEPT !.operations = @ - 1]
    /\ \E t \in Threads :
         /\ op.targets \subseteq TerminalsOf(t)
         /\ waiting' = [waiting EXCEPT ![t] = Append(@, op)]
    /\ UNCHANGED <<mgr, disk, job, checks, deleted, unsaved>>

\* The lock of thread t is free and its first caller, operation op, takes it.
Enters(t) ==
    /\ job[t] = Idle
    /\ waiting' = [waiting EXCEPT ![t] = Tail(@)]
    /\ UNCHANGED <<disk, checks, unsaved, budget>>

Release(t) == job' = [job EXCEPT ![t] = Idle]

Await(t, op, o, step) ==
    job' = [job EXCEPT ![t] = [kind |-> op.kind, targets |-> op.targets,
                               session |-> o, step |-> step]]

Proceed(t, o, step) ==
    job' = [job EXCEPT ![t] = [@ EXCEPT !.session = o, !.step = step]]

\* assertValidCwd or requireSession throws, and the lock is released.
Refused(t, op) ==
    /\ Enters(t)
    /\ \/ op.kind \in {"open", "openMoved", "restart"}
       \/ op.kind = "clear" /\ \A k \in op.targets : SessionOf(mgr, k) = 0
    /\ Release(t)
    /\ UNCHANGED <<mgr, deleted>>

\* open of a terminal without a session.
OpenNew(t, op, k) ==
    /\ Enters(t)
    /\ op.kind \in {"open", "openMoved"}
    /\ SessionOf(mgr, k) = 0
    /\ Await(t, op, 0, "flush")
    /\ deleted' = deleted \ {k}
    /\ UNCHANGED mgr

\* open of a terminal with a session: another directory or environment restarts
\* it with an empty history, and so does open when the shell is gone.
Reopen(t, op, k) ==
    LET o == SessionOf(mgr, k) IN
    /\ Enters(t)
    /\ o # 0
    /\ \/ op.kind = "openMoved"
       \/ op.kind = "open" /\ mgr.sessions[o].status \in {"exited", "error"}
    /\ mgr' = Reset(IF op.kind = "openMoved" THEN Stop(mgr, o) ELSE mgr, o)
    /\ Await(t, op, o, "clean")
    /\ deleted' = deleted \ {k}

\* Otherwise the caller is attached to the shell there is.
Attach(t, op, k) ==
    LET o == SessionOf(mgr, k) IN
    /\ Enters(t)
    /\ o # 0
    /\ op.kind = "open" /\ mgr.sessions[o].status \notin {"exited", "error"}
    /\ Release(t)
    /\ deleted' = deleted \ {k}
    /\ UNCHANGED mgr

\* restart, with or without a session.
Restart(t, op, k) ==
    LET o == SessionOf(mgr, k) IN
    /\ Enters(t)
    /\ op.kind = "restart"
    /\ deleted' = deleted \ {k}
    /\ IF o = 0
       THEN /\ mgr' = Reset(AddSession(mgr, k, <<>>), Len(mgr.sessions) + 1)
            /\ Await(t, op, Len(mgr.sessions) + 1, "clean")
       ELSE /\ mgr' = Reset(Stop(mgr, o), o)
            /\ Await(t, op, o, "clean")

Clear(t, op, k) ==
    LET o == SessionOf(mgr, k) IN
    /\ Enters(t)
    /\ op.kind = "clear"
    /\ o # 0
    /\ mgr' = Reset(Touch(mgr, o), o)
    /\ Await(t, op, o, "clean")
    /\ UNCHANGED deleted

\* stopProcess and sessions.delete for every session of the terminals ks.
Closed(m, ks) ==
    LET os == Only(m.table, {o \in 1 .. Len(m.sessions) : m.sessions[o].terminal \in ks})
        after[i \in 0 .. Len(os)] ==
          IF i = 0 THEN m
          ELSE LET stopped == Stop(after[i - 1], os[i])
               IN  [stopped EXCEPT !.table = Without(@, {os[i]})]
    IN  after[Len(os)]

\* close, up to its first await.
Close(t, op) ==
    /\ Enters(t)
    /\ op.kind \in CloseKinds
    /\ mgr' = Watch(Closed(mgr, op.targets))
    /\ Await(t, op, 0, "flush")
    /\ UNCHANGED deleted

---------------------------------------------------------------------------
(* The operations after an await.                                          *)

\* Some write an operation waits for is still to land in terminal k's file.
Unsettled(m, k) ==
    \/ \E i \in 1 .. Len(m.writing[k]) : m.writing[k][i].awaited
    \/ \E i \in 1 .. Len(m.detached[k]) :
         \E j \in 1 .. Len(m.detached[k][i]) : m.detached[k][i][j].awaited

\* flushPersistQueue has nothing left to do for terminal k.
Flushed(m, k) == m.pending[k] = None /\ m.writing[k] = <<>> /\ ~Unsettled(m, k)

At(t, step) ==
    /\ job[t].step = step
    /\ UNCHANGED <<waiting, budget>>

\* flushPersistQueue takes what waits for its timer.
FlushPending(t) ==
    /\ At(t, "flush")
    /\ \E k \in job[t].targets :
         /\ mgr.pending[k] # None
         /\ ~Unsettled(mgr, k)
         /\ mgr' = WriteNow(mgr, k, mgr.pending[k])
    /\ UNCHANGED <<disk, job, checks, deleted, unsaved>>

FlushDone(t) ==
    /\ At(t, "flush")
    /\ \A k \in job[t].targets : Flushed(mgr, k)
    /\ CASE job[t].kind \in {"open", "openMoved"} -> Proceed(t, 0, "read") /\ UNCHANGED mgr
         [] job[t].kind = "closeDelete"          -> Proceed(t, 0, "delete") /\ UNCHANGED mgr
         [] OTHER                                -> Release(t) /\ mgr' = Watch(mgr)
    /\ UNCHANGED <<disk, checks, deleted, unsaved>>

\* The history read from a file, which may not be there.
Contents(file) == IF file = None THEN <<>> ELSE file

\* readHistory, which cuts the file down to the limit too, and open goes on to
\* start its session.
ReadHistory(t) ==
    \E k \in job[t].targets :
      LET h == Capped(Contents(disk[k])) IN
      /\ At(t, "read")
      /\ disk' = [disk EXCEPT ![k] = IF @ = None THEN None ELSE h]
      /\ unsaved' = unsaved \ {k}
      /\ mgr' = BeginStart(AddSession(mgr, k, h), Len(mgr.sessions) + 1)
      /\ Proceed(t, Len(mgr.sessions) + 1, "spawn")
      /\ UNCHANGED <<checks, deleted>>

\* The file cannot be read, and open throws.
ReadFails(t) ==
    /\ job[t].step = "read"
    /\ Fault
    /\ Release(t)
    /\ UNCHANGED <<mgr, disk, waiting, checks, deleted, unsaved>>

\* The empty history is in the file; clear ends, the others start their shell.
Cleaned(t) ==
    /\ At(t, "clean")
    /\ \A k \in job[t].targets : ~Unsettled(mgr, k)
    /\ IF job[t].kind = "clear"
       THEN Release(t) /\ UNCHANGED mgr
       ELSE /\ mgr' = BeginStart(mgr, job[t].session)
            /\ Proceed(t, job[t].session, "spawn")
    /\ UNCHANGED <<disk, checks, deleted, unsaved>>

\* The shell runs, or none of the candidates could be spawned.
Spawned(t) ==
    /\ At(t, "spawn")
    /\ \/ mgr' = Started(mgr, job[t].session, "running")
       \/ mgr' = StartFailed(mgr, job[t].session)
    /\ Release(t)
    /\ UNCHANGED <<disk, checks, deleted, unsaved>>

\* The shell runs, and its kill will throw.
SpawnedDeaf(t) ==
    /\ job[t].step = "spawn"
    /\ Fault
    /\ mgr' = Started(mgr, job[t].session, "deaf")
    /\ Release(t)
    /\ UNCHANGED <<disk, waiting, checks, deleted, unsaved>>

\* deleteHistory, deleteAllHistoryForThread.
DeleteHistory(t) ==
    /\ At(t, "delete")
    /\ disk' = [k \in Terminals |-> IF k \in job[t].targets THEN None ELSE disk[k]]
    /\ deleted' = deleted \cup job[t].targets
    /\ mgr' = Watch(mgr)
    /\ Release(t)
    /\ UNCHANGED <<checks, unsaved>>

\* The same, when some of the files cannot be removed, which is only logged.
DeleteFails(t) ==
    /\ job[t].step = "delete"
    /\ Fault
    /\ \E gone \in SUBSET job[t].targets :
         /\ gone # job[t].targets
         /\ disk' = [k \in Terminals |-> IF k \in gone THEN None ELSE disk[k]]
         /\ deleted' = deleted \cup gone
    /\ mgr' = Watch(mgr)
    /\ Release(t)
    /\ UNCHANGED <<waiting, checks, unsaved>>

---------------------------------------------------------------------------
(* Processes, timers and writes, at any moment.                            *)

Works == UNCHANGED <<waiting, job, deleted>>

\* onProcessData, queuePersist: the shell prints two lines.
Output(o) ==
    LET k    == mgr.sessions[o].terminal
        n    == 2 * (MaxOutputs - budget.outputs)
        text == Capped(mgr.sessions[o].history \o <<n + 1, n + 2>>)
    IN  /\ mgr.sessions[o].process # 0
        /\ budget.outputs > 0
        /\ budget' = [budget EXCEPT !.outputs = @ - 1]
        /\ mgr' = Touch([mgr EXCEPT !.sessions[o].history = text, !.pending[k] = text], o)
        /\ Works /\ UNCHANGED <<disk, checks, unsaved>>

\* Mutant: a session whose shell has exited does not count for the limit.
ExitWithoutEviction(o) ==
    /\ mgr.sessions[o].process # 0
    /\ mgr' = Watch(Touch([mgr EXCEPT !.processes[mgr.sessions[o].process] = "dead",
                                      !.sessions[o].process = 0,
                                      !.sessions[o].busy    = 0,
                                      !.sessions[o].status  = "exited"], o))
    /\ Works /\ UNCHANGED <<disk, checks, unsaved, budget>>

\* A shell exits by itself: onProcessExit.
Exit(o) ==
    /\ mgr.sessions[o].process # 0
    /\ mgr' = Watch(Evict(Touch([mgr EXCEPT !.processes[mgr.sessions[o].process] = "dead",
                                            !.sessions[o].process = 0,
                                            !.sessions[o].busy    = 0,
                                            !.sessions[o].status  = "exited"], o)))
    /\ Works /\ UNCHANGED <<disk, checks, unsaved, budget>>

\* A process that was to go exits; nobody listens any more.
Terminate(p) ==
    /\ mgr.processes[p] \in {"signalled", "missed"}
    /\ mgr' = [mgr EXCEPT !.processes[p] = "dead"]
    /\ Works /\ UNCHANGED <<disk, checks, unsaved, budget>>

\* The grace period ends and the process gets its SIGKILL, dead or not.
Kill(p) ==
    /\ p \in mgr.killTimers
    /\ mgr' = [mgr EXCEPT !.killTimers = @ \ {p}, !.processes[p] = "dead"]
    /\ Works /\ UNCHANGED <<disk, checks, unsaved, budget>>

\* The SIGKILL throws, which is only logged.
KillFails(p) ==
    /\ p \in mgr.killTimers
    /\ mgr' = [mgr EXCEPT !.killTimers = @ \ {p},
                          !.processes[p] = IF @ = "signalled" THEN "missed" ELSE @]
    /\ Fault
    /\ Works /\ UNCHANGED <<disk, checks, unsaved>>

\* schedulePersist's timer.
PersistTimer(k) ==
    /\ mgr.pending[k] # None
    /\ mgr' = [mgr EXCEPT !.pending[k] = None,
                          !.writing[k] = Append(@, [text |-> mgr.pending[k], awaited |-> FALSE])]
    /\ Works /\ UNCHANGED <<disk, checks, unsaved, budget>>

\* The oldest write of terminal k's queue lands.
WriteLands(k) ==
    /\ mgr.writing[k] # <<>>
    /\ disk' = [disk EXCEPT ![k] = Head(mgr.writing[k]).text]
    /\ mgr' = [mgr EXCEPT !.writing[k] = Tail(@)]
    /\ unsaved' = unsaved \ {k}
    /\ Works /\ UNCHANGED <<checks, budget>>

\* The oldest of the detached chain i of terminal k is done.
WithoutDetached(m, k, i) ==
    LET chain == m.detached[k][i] IN
    [m EXCEPT !.detached[k] =
        IF Len(chain) > 1 THEN [@ EXCEPT ![i] = Tail(chain)]
        ELSE SubSeq(@, 1, i - 1) \o SubSeq(@, i + 1, Len(@))]

\* So does the oldest of a chain the map has forgotten.
DetachedWriteLands(k, i) ==
    /\ disk' = [disk EXCEPT ![k] = Head(mgr.detached[k][i]).text]
    /\ mgr' = WithoutDetached(mgr, k, i)
    /\ unsaved' = unsaved \ {k}
    /\ Works /\ UNCHANGED <<checks, budget>>

\* A write that fails, which is only logged, leaves the file as it was, or empty; the
\* next one goes on.
WriteFails(k) ==
    /\ \/ mgr.writing[k] # <<>> /\ mgr' = [mgr EXCEPT !.writing[k] = Tail(@)]
       \/ \E i \in 1 .. Len(mgr.detached[k]) : mgr' = WithoutDetached(mgr, k, i)
    /\ unsaved' = unsaved \cup {k}
    /\ disk' \in {disk, [disk EXCEPT ![k] = <<>>]}
    /\ Fault
    /\ Works /\ UNCHANGED checks

---------------------------------------------------------------------------
(* The poll of the shells' children.                                       *)

Running(m) == {m.table[i] : i \in {j \in 1 .. Len(m.table) : m.sessions[m.table[j]].status = "running"}}

\* pollSubprocessActivity asks about every running shell; one poll at a time.
Poll ==
    /\ mgr.polling /\ checks = {} /\ budget.polls > 0
    /\ budget' = [budget EXCEPT !.polls = @ - 1]
    /\ checks' = {[terminal |-> mgr.sessions[o].terminal, process |-> mgr.sessions[o].process] :
                     o \in Running(mgr)}
    /\ mgr' = [mgr EXCEPT !.polling = Running(mgr) # {}]
    /\ Works /\ UNCHANGED <<disk, unsaved>>

\* Mutant: an answer goes to whatever the terminal runs by now.
AboutAnyProcess(o, c) == mgr.sessions[o].status = "running"

\* The answer c waits for is about the process session o runs.
AboutItsProcess(o, c) ==
    mgr.sessions[o].status = "running" /\ mgr.sessions[o].process = c.process

\* An answer arrives; it counts only for a session that still has its process.
Answer(c, children) ==
    LET o == SessionOf(mgr, c.terminal) IN
    /\ checks' = checks \ {c}
    /\ IF o # 0 /\ AboutItsProcess(o, c) /\ (mgr.sessions[o].busy # 0) # children
       THEN mgr' = Touch([mgr EXCEPT !.sessions[o].busy = IF children THEN c.process ELSE 0], o)
       ELSE UNCHANGED mgr
    /\ Works /\ UNCHANGED <<disk, unsaved, budget>>

---------------------------------------------------------------------------
\* The server shuts down: dispose stops every process, and forgets timers and
\* writes.  Operations that wait for something go on when it comes.
Dispose ==
    /\ budget.disposals > 0
    /\ budget' = [budget EXCEPT !.disposals = @ - 1]
    /\ LET m     == Closed(mgr, Terminals)
           inUse == InUse(mgr)
       IN  mgr' = [m EXCEPT !.killTimers = {}, !.polling = FALSE,
                            !.pending  = [k \in Terminals |-> None],
                            !.writing  = [k \in Terminals |-> <<>>],
                            !.detached = [k \in Terminals |->
                                            IF m.writing[k] = <<>> THEN @[k]
                                            ELSE Append(@[k], m.writing[k])],
                            !.untimely = @ \cup inUse]
    /\ Works /\ UNCHANGED <<disk, checks, unsaved>>

Begin(t, op) ==
    \/ \E k \in op.targets : \/ OpenNew(t, op, k) \/ Reopen(t, op, k) \/ Attach(t, op, k)
                             \/ Restart(t, op, k) \/ Clear(t, op, k)
    \/ Close(t, op)
    \/ Refused(t, op)

\* What the thread's lock holder does next.
Step(t) ==
    \/ waiting[t] # <<>> /\ Begin(t, Head(waiting[t]))
    \/ FlushPending(t) \/ FlushDone(t) \/ ReadHistory(t) \/ Cleaned(t)
    \/ Spawned(t) \/ DeleteHistory(t)
    \/ ReadFails(t) \/ SpawnedDeaf(t) \/ DeleteFails(t)

Writes(k) ==
    PersistTimer(k) \/ WriteLands(k) \/ WriteFails(k)
      \/ \E i \in 1 .. Len(mgr.detached[k]) : DetachedWriteLands(k, i)

Next ==
    \/ \E op \in Operation : Request(op)
    \/ \E t \in Threads : Step(t)
    \/ \E k \in Terminals : Writes(k)
    \/ \E o \in 1 .. Len(mgr.sessions) : Output(o) \/ Exit(o)
    \/ \E p \in 1 .. Len(mgr.processes) : Terminate(p) \/ Kill(p) \/ KillFails(p)
    \/ Poll
    \/ \E c \in checks, children \in BOOLEAN : Answer(c, children)
    \/ Dispose

Spec == Init /\ [][Next]_vars

---------------------------------------------------------------------------
(* Properties.                                                             *)

TypeOK ==
    /\ mgr \in Manager
    /\ \A i \in 1 .. Len(mgr.table) : mgr.table[i] \in 1 .. Len(mgr.sessions)
    /\ \A o \in 1 .. Len(mgr.sessions) :
         /\ mgr.sessions[o].process \in 0 .. Len(mgr.processes)
         /\ Len(mgr.sessions[o].history) <= HistoryLimit
    /\ mgr.killTimers \subseteq 1 .. Len(mgr.processes)
    /\ disk \in [Terminals -> Text \cup {None}]
    /\ waiting \in [Threads -> Seq(Operation)]
    /\ job \in [Threads -> Job \cup {Idle}]
    /\ checks \subseteq [terminal : Terminals, process : Nat]
    /\ deleted \subseteq Terminals
    /\ unsaved \subseteq Terminals
    /\ budget \in [operations : Nat, outputs : Nat, polls : Nat, disposals : Nat,
                   faults : Nat]

\* Every shell that has not been told to go is the running shell of the session
\* its terminal shows, so that close and restart can reach it.  The exceptions
\* are terminals whose session was evicted while an operation was about to start
\* a shell in it.  A shell that was told to go and is still there gets its SIGKILL,
\* also when its session is restarted, closed or evicted meanwhile, unless the
\* manager has been disposed of.  Not so a shell whose kill throws, at the SIGTERM or
\* at the SIGKILL: the manager has let go of it, and nothing stops it any more (missed).
NoStrayProcess ==
    \A p \in 1 .. Len(mgr.processes) :
      /\ mgr.processes[p] \in {"running", "deaf"} =>
           \E o \in 1 .. Len(mgr.sessions) :
             /\ mgr.sessions[o].process = p
             /\ mgr.sessions[o].status = "running"
             /\ Held(mgr, o) \/ mgr.sessions[o].terminal \in mgr.untimely
      /\ mgr.processes[p] = "signalled" =>
           p \in mgr.killTimers \/ budget.disposals < MaxDisposals

\* However sessions exit, fail, are closed and reopened, the map keeps no more
\* inactive ones than it may.
RetentionBound == Len(Inactive(mgr)) <= MaxRetained

\* Once nothing is left to be written, the file says what the terminal shows,
\* through restarts, clears, evictions and whatever order the debounced and the
\* awaited writes were made in; unless the last write failed, which is not made up for
\* (unsaved).  A history whose file was removed does not come back by a write that was
\* on its way, until the terminal is opened again.
HistoryReachesDisk ==
    \A k \in Terminals \ mgr.untimely :
      /\ (SessionOf(mgr, k) # 0 /\ k \notin unsaved /\ mgr.pending[k] = None
            /\ mgr.writing[k] = <<>> /\ mgr.detached[k] = <<>>)
           => Contents(disk[k]) = mgr.sessions[SessionOf(mgr, k)].history
      /\ k \in deleted => disk[k] = None

\* What a session says of its shell's children was said of the shell it runs, not
\* of one before it, and a running session is polled.
BusyIsCurrent ==
    \A o \in 1 .. Len(mgr.sessions) :
      /\ mgr.sessions[o].busy \in {0, mgr.sessions[o].process}
      /\ Held(mgr, o) /\ mgr.sessions[o].status = "running" => mgr.polling

=============================================================================
