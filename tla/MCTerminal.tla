----------------------------- MODULE MCTerminal -----------------------------
(* A small instance of TerminalManager: two terminals in two threads.      *)
EXTENDS TerminalManager, TLC

CONSTANTS a1, b1, A, B

MCTerminals == {a1, b1}
MCThreadOf  == a1 :> A @@ b1 :> B

\* The two threads may be exchanged, together with their terminals.
MCSymmetry == {a1 :> b1 @@ b1 :> a1 @@ A :> B @@ B :> A}

\* A run in which something fails has no poll, no disposal, and one operation
\* less.
FaultsAlone ==
    \/ budget.faults = MaxFaults
    \/ /\ budget.polls = MaxPolls
       /\ budget.disposals = MaxDisposals
       /\ budget.operations # 0
=============================================================================
