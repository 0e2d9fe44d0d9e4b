---------------------------- MODULE CommandLog -----------------------------
(***************************************************************************)
(* What the orchestration engine promises its callers, without queue,      *)
(* transaction, failure or crash: a state machine that takes commands one  *)
(* at a time.  A command is settled at most once, by a decision on the     *)
(* state that all events so far lead to; the events of an accepted command *)
(* appear all at once; and a caller is answered with what was settled, or  *)
(* not at all.                                                             *)
(***************************************************************************)
EXTENDS Decider

CONSTANTS CommandIds, Body

VARIABLES
    log,      \* the events, each with the command that caused it
    state,    \* the read model after all of them
    settled,  \* [CommandIds -> {"open", "accepted", "rejected"}]
    requests, \* the command id of each call
    answers   \* what each call has returned

vars == <<log, state, settled, requests, answers>>

Init ==
    /\ log = <<>>
    /\ state = EmptyReadModel
    /\ settled = [c \in CommandIds |-> "open"]
    /\ requests = <<>>
    /\ answers = <<>>

Call ==
    \E c \in CommandIds :
      /\ requests' = Append(requests, c)
      /\ answers' = Append(answers, [status |-> "pending", seq |-> 0])
      /\ UNCHANGED <<log, state, settled>>

\* A command can only be settled while some caller waits for it.
Awaited(c) ==
    \E r \in 1 .. Len(requests) : requests[r] = c /\ answers[r].status = "pending"

Accept(c) ==
    LET events == Decide(state, Body[c])
        n      == Len(log)
        \* the state after the first two, one or none of the events
        first  == ProjectEvent(state, events[1], n + 1)
    IN  /\ Awaited(c)
        /\ settled[c] = "open"
        /\ events # <<>>
        /\ log' = log \o [i \in 1 .. Len(events) |-> [command |-> c, event |-> events[i]]]
        /\ state' = IF Len(events) = 1 THEN first ELSE ProjectEvent(first, events[2], n + 2)
        /\ settled' = [settled EXCEPT ![c] = "accepted"]
        /\ UNCHANGED <<requests, answers>>

Reject(c) ==
    /\ Awaited(c)
    /\ settled[c] = "open"
    /\ Decide(state, Body[c]) = <<>>
    /\ settled' = [settled EXCEPT ![c] = "rejected"]
    /\ UNCHANGED <<log, state, requests, answers>>

\* The answers a call for command c may get.  A refusal need not have been
\* settled, but it is always the decision of the present state; a failure
\* ("storeFailed") says nothing.
Answerable(c, answer) ==
    \/ /\ answer.status = "accepted"
       /\ settled[c] = "accepted"
       /\ log[answer.seq].command = c
       /\ \A i \in answer.seq + 1 .. Len(log) : log[i].command # c
    \/ answer.status = "previouslyRejected" /\ settled[c] = "rejected"
    \/ answer.status = "rejected" /\ Decide(state, Body[c]) = <<>>
    \/ answer.status = "storeFailed"

Return ==
    \E r \in 1 .. Len(requests) :
      /\ answers[r].status = "pending"
      /\ answers' = [answers EXCEPT ![r] = answers'[r]]
      /\ Answerable(requests[r], answers'[r])
      /\ UNCHANGED <<log, state, settled, requests>>

\* The callers lose their connection: none of the open calls returns.
Disconnect ==
    /\ answers' = [r \in 1 .. Len(answers) |->
                     IF answers[r].status = "pending"
                     THEN [status |-> "lost", seq |-> 0] ELSE answers[r]]
    /\ UNCHANGED <<log, state, settled, requests>>

Next ==
    \/ Call
    \/ \E c \in CommandIds : Accept(c) \/ Reject(c)
    \/ Return
    \/ Disconnect

Spec == Init /\ [][Next]_vars
=============================================================================
