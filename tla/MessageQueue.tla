---------------------------- MODULE MessageQueue ----------------------------
(***************************************************************************)
(* The TUI's queue of messages for a thread whose turn is still running    *)
(* (messageQueue.ts): pure operators on a sequence of entries, and the two *)
(* decisions taken on it.  Texts, attachments and dispatch settings decide *)
(* nothing and are left out.                                               *)
(*                                                                         *)
(* A view is what the client knows of the thread on the server: which user *)
(* messages are persisted, whether a turn is running, and how many         *)
(* assistant replies there are.                                            *)
(***************************************************************************)
EXTENDS Naturals, SequencesExt

\* since: the number of replies that existed at dispatchedAt.  A reply is
\* younger than the dispatch exactly when it is not among those.
Entry(Message) ==
    [msg : Message, status : {"queued", "dispatching"}, seen : BOOLEAN, since : Nat]

View(Message) ==
    [persisted : SUBSET Message, running : BOOLEAN, replies : Nat]

NewEntry(m) == [msg |-> m, status |-> "queued", seen |-> FALSE, since |-> 0]

IsQueued(q, m) == \E i \in 1 .. Len(q) : q[i].msg = m

DispatchingIn(q) == {i \in 1 .. Len(q) : q[i].status = "dispatching"}

\* Mutant: the dispatched entry is not marked.
LeavesUnmarked(q, m, since) == q

\* markQueuedHeadDispatching.
MarkDispatching(q, m, since) ==
    [i \in 1 .. Len(q) |->
       IF q[i].msg = m
       THEN [q[i] EXCEPT !.status = "dispatching", !.seen = FALSE, !.since = since]
       ELSE q[i]]

\* Mutant: a failed message at the head is dropped.
DropFailed(q, msgs) ==
    IF q # <<>> /\ q[1].msg \in msgs THEN Tail(q) ELSE q

\* requeueDispatchingHead, for each of msgs.
Requeue(q, msgs) ==
    [i \in 1 .. Len(q) |-> IF q[i].msg \in msgs THEN NewEntry(q[i].msg) ELSE q[i]]

\* moveQueuedMessage by one place, as the arrow keys use it: the target is the
\* second entry, or the only one, and never one that is being dispatched.
MoveTarget(q) == IF Len(q) > 1 THEN 2 ELSE 1

CanMove(q, to) ==
    /\ q # <<>>
    /\ q[MoveTarget(q)].status # "dispatching"
    /\ to \in 1 .. Len(q)
    /\ to \in {MoveTarget(q) + 1, MoveTarget(q) - 1}

Move(q, to) ==
    LET from == MoveTarget(q) IN [q EXCEPT ![from] = q[to], ![to] = q[from]]

\* Mutant: the entry that is being dispatched can be taken out, too.
CanAlwaysCancel(q) == q # <<>>

\* removeQueuedMessage, as the cancel key uses it: the last entry, unless it is
\* being dispatched.
CanCancel(q) == q # <<>> /\ q[Len(q)].status # "dispatching"

Cancel(q) == SubSeq(q, 1, Len(q) - 1)

---------------------------------------------------------------------------
(* resolveQueuePumpDecision: when the head is dispatched.                  *)

Waiting(q) == {i \in 1 .. Len(q) : q[i].status = "queued"}

\* Mutant: the newest message that waits is sent first.
LastWaiting(q) == CHOOSE i \in Waiting(q) : \A j \in Waiting(q) : i >= j

\* The head: the first entry that waits.
FirstWaiting(q) == CHOOSE i \in Waiting(q) : \A j \in Waiting(q) : i <= j

PumpDispatches(q, view, backoff) ==
    /\ ~view.running
    /\ DispatchingIn(q) = {}
    /\ Waiting(q) # {}
    /\ q[FirstWaiting(q)].msg \notin backoff

---------------------------------------------------------------------------
(* resolveDispatchingTransition and the reconciliation that applies it.    *)

Observed(e, view) ==
    IF e.status = "dispatching" THEN [e EXCEPT !.seen = @ \/ view.running] ELSE e

\* Mutant: only a running turn that was seen counts.
WasSeen(e, view) == e.seen

\* Evidence that the turn of an observed entry has run.  Replies are newer than the
\* dispatch where the server's createdAt is above the TUI's dispatchedAt: the two
\* clocks are taken as one.
HasRun(e, view) == e.seen \/ view.replies > e.since

\* Mutant: the persisted message alone completes its entry, before the provider
\* has started the turn.
CompleteOncePersisted(e, view) ==
    /\ e.status = "dispatching"
    /\ e.msg \in view.persisted
    /\ ~view.running

Complete(e, view) ==
    /\ e.status = "dispatching"
    /\ e.msg \in view.persisted
    /\ ~view.running
    /\ HasRun(e, view)

\* The entry may be given up as lost once the valve (120 s) has expired.
PastRescue(e, view) ==
    /\ e.status = "dispatching"
    /\ ~view.running
    /\ ~HasRun(e, view)

\* The queue after the client has learnt view.  Never more than one entry is
\* being dispatched, so at most one is complete.
Reconciled(q, view) ==
    LET seen == [i \in 1 .. Len(q) |-> Observed(q[i], view)]
        done == {i \in 1 .. Len(q) : Complete(seen[i], view)}
    IN  IF done = {} THEN seen ELSE RemoveAt(seen, CHOOSE i \in done : TRUE)
=============================================================================
