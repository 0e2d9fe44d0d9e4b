----------------------- MODULE TerminalManager_proofs -----------------------
(***************************************************************************)
(* Theorems about TerminalManager, for every set of terminals and threads, *)
(* every retention limit, history limit and bound.                         *)
(*                                                                         *)
(* The operations are compositions of a few functions on the manager's     *)
(* state (Touch, Evict, Stop, Closed, ...).  The proofs follow that: first *)
(* what each function keeps of a well-formed state, then what each         *)
(* operation does with it between its awaits.                              *)
(***************************************************************************)
EXTENDS TerminalManager, SequenceTheorems, DataInduction

---------------------------------------------------------------------------
(* Only: the part of a sequence that is in a set.                          *)

Elements(s) == {s[i] : i \in 1 .. Len(s)}

NoDups(s) == \A i, j \in 1 .. Len(s) : s[i] = s[j] => i = j

\* g says what is kept of each of the first n elements of s.
Keeps(g, s, S, n) ==
    g = [i \in 0 .. n |-> IF i = 0 THEN <<>>
                          ELSE IF s[i] \in S THEN Append(g[i - 1], s[i]) ELSE g[i - 1]]

\* The recursion has a solution, whatever the length.
LEMMA KeepsExists == ASSUME NEW s, NEW S, NEW n \in Nat PROVE \E g : Keeps(g, s, S, n)
<1> DEFINE A == {k \in Nat : \E g : Keeps(g, s, S, k)}
<1>1. 0 \in A
  <2> DEFINE g == [i \in 0 .. 0 |-> <<>>]
  <2>1. Keeps(g, s, S, 0)
    BY DEF Keeps
  <2> HIDE DEF g
  <2> QED
    BY <2>1
<1>2. ASSUME NEW k \in Nat, k \in A PROVE k + 1 \in A
  <2>1. PICK g : Keeps(g, s, S, k)
    BY <1>2
  <2>2. \A i \in 0 .. k : g[i] = IF i = 0 THEN <<>>
                                 ELSE IF s[i] \in S THEN Append(g[i - 1], s[i]) ELSE g[i - 1]
    BY <2>1 DEF Keeps
  <2> DEFINE last == IF s[k + 1] \in S THEN Append(g[k], s[k + 1]) ELSE g[k]
             h    == [i \in 0 .. k + 1 |-> IF i = k + 1 THEN last ELSE g[i]]
  <2>3. ASSUME NEW i \in 0 .. k + 1
        PROVE  h[i] = IF i = 0 THEN <<>>
                      ELSE IF s[i] \in S THEN Append(h[i - 1], s[i]) ELSE h[i - 1]
    <3>1. CASE i = k + 1
      <4>1. i # 0 /\ i - 1 = k /\ k \in 0 .. k + 1 /\ k # k + 1
        BY <3>1
      <4>2. h[i] = last /\ h[k] = g[k]
        BY <3>1, <4>1
      <4> HIDE DEF h
      <4> QED
        BY <3>1, <4>1, <4>2
    <3>2. CASE i # k + 1
      <4>1. i \in 0 .. k /\ (i # 0 => i - 1 \in 0 .. k /\ i - 1 \in 0 .. k + 1 /\ i - 1 # k + 1)
        BY <3>2
      <4>2. h[i] = g[i] /\ (i # 0 => h[i - 1] = g[i - 1])
        BY <3>2, <4>1
      <4> HIDE DEF h
      <4> QED
        BY <2>2, <4>1, <4>2
    <3> QED
      BY <3>1, <3>2
  <2>4. h = [i \in 0 .. k + 1 |-> h[i]]
    OBVIOUS
  <2> HIDE DEF h
  <2>5. Keeps(h, s, S, k + 1)
    BY <2>3, <2>4 DEF Keeps
  <2> QED
    BY <2>5
<1> HIDE DEF A
<1>3. Nat \subseteq A
  BY <1>1, <1>2, Induction
<1> QED
  BY <1>3 DEF A

LEMMA OnlyIsLast ==
  ASSUME NEW s, NEW S, Len(s) \in Nat
  PROVE  \E g : Keeps(g, s, S, Len(s)) /\ Only(s, S) = g[Len(s)]
<1> DEFINE g == CHOOSE g : Keeps(g, s, S, Len(s))
<1>1. Keeps(g, s, S, Len(s))
  BY KeepsExists
<1>2. Only(s, S) = g[Len(s)]
  BY DEF Only, Keeps
<1> QED
  BY <1>1, <1>2

\* What is kept of a prefix: its elements that are in S, none of them twice if
\* none of the sequence is.
KeptWell(t, s, S, X, n) ==
    /\ t \in Seq(X)
    /\ Elements(t) = {x \in S : \E i \in 1 .. n : s[i] = x}
    /\ NoDups(s) => NoDups(t)

LEMMA AppendElements ==
  ASSUME NEW X, NEW t \in Seq(X), NEW x \in X
  PROVE  /\ Append(t, x) \in Seq(X) /\ Append(t, x) # <<>>
         /\ Len(Append(t, x)) = Len(t) + 1 /\ Append(t, x)[Len(t) + 1] = x
         /\ \A i \in 1 .. Len(t) : Append(t, x)[i] = t[i]
         /\ Elements(Append(t, x)) = Elements(t) \cup {x}
         /\ NoDups(t) /\ x \notin Elements(t) => NoDups(Append(t, x))
<1> DEFINE u == Append(t, x)
<1>1. /\ u \in Seq(X) /\ Len(u) = Len(t) + 1 /\ u[Len(t) + 1] = x /\ Len(t) \in Nat
      /\ \A i \in 1 .. Len(t) : u[i] = t[i]
      /\ u # <<>>
  BY AppendProperties, LenProperties
<1> HIDE DEF u
<1>2. \A i \in 1 .. Len(u) : i \in 1 .. Len(t) \/ i = Len(t) + 1
  BY <1>1
<1>3. 1 .. Len(t) \subseteq 1 .. Len(u) /\ Len(t) + 1 \in 1 .. Len(u)
  BY <1>1
<1>4. Elements(u) \subseteq Elements(t) \cup {x}
  BY <1>1, <1>2 DEF Elements
<1>5. Elements(t) \cup {x} \subseteq Elements(u)
  <2>1. x \in Elements(u)
    BY <1>1, <1>3 DEF Elements
  <2>2. Elements(t) \subseteq Elements(u)
    BY <1>1, <1>3 DEF Elements
  <2> QED
    BY <2>1, <2>2
<1>6. ASSUME NoDups(t), x \notin Elements(t) PROVE NoDups(u)
  <2> SUFFICES ASSUME NEW i \in 1 .. Len(u), NEW j \in 1 .. Len(u), u[i] = u[j] PROVE i = j
    BY DEF NoDups
  <2>1. \A l \in 1 .. Len(t) : u[l] # x
    BY <1>1, <1>6 DEF Elements
  <2> QED
    BY <1>1, <1>2, <1>6, <2>1 DEF NoDups
<1> QED
  BY <1>1, <1>4, <1>5, <1>6 DEF u

LEMMA OnlyWell ==
  ASSUME NEW X, NEW s \in Seq(X), NEW S
  PROVE  /\ KeptWell(Only(s, S), s, S, X, Len(s))
         /\ (Len(s) > 0 /\ s[Len(s)] \in S) =>
               LET t == Only(s, S) IN Len(t) > 0 /\ t[Len(t)] = s[Len(s)]
<1>0. Len(s) \in Nat
  BY LenProperties
<1>1. PICK g : Keeps(g, s, S, Len(s)) /\ Only(s, S) = g[Len(s)]
  BY <1>0, OnlyIsLast
<1>2. \A i \in 0 .. Len(s) : g[i] = IF i = 0 THEN <<>>
                                    ELSE IF s[i] \in S THEN Append(g[i - 1], s[i]) ELSE g[i - 1]
  BY <1>1 DEF Keeps
<1> DEFINE A == {k \in Nat : KeptWell(g[k], s, S, X, k)}
<1>3. 0 \in A
  <2>1. g[0] = <<>> /\ <<>> \in Seq(X) /\ Len(<<>>) = 0
    BY <1>0, <1>2
  <2>2. Elements(<<>>) = {} /\ NoDups(<<>>)
    BY <2>1 DEF Elements, NoDups
  <2>3. {x \in S : \E i \in 1 .. 0 : s[i] = x} = {}
    OBVIOUS
  <2> QED
    BY <2>1, <2>2, <2>3 DEF KeptWell
<1>4. \A k \in 0 .. Len(s) - 1 : k \in A => k + 1 \in A
  <2> SUFFICES ASSUME NEW k \in 0 .. Len(s) - 1, KeptWell(g[k], s, S, X, k)
               PROVE  KeptWell(g[k + 1], s, S, X, k + 1)
    BY <1>0
  <2>1. k \in Nat /\ k + 1 \in 0 .. Len(s) /\ k + 1 # 0 /\ (k + 1) - 1 = k /\ k + 1 \in 1 .. Len(s)
    BY <1>0
  <2>2. s[k + 1] \in X
    BY <2>1, ElementOfSeq
  <2>3. /\ g[k] \in Seq(X)
        /\ Elements(g[k]) = {x \in S : \E i \in 1 .. k : s[i] = x}
        /\ NoDups(s) => NoDups(g[k])
    BY DEF KeptWell
  <2>4. \A i \in 1 .. k + 1 : i \in 1 .. k \/ i = k + 1
    BY <2>1
  <2>5. 1 .. k \subseteq 1 .. k + 1 /\ k + 1 \in 1 .. k + 1
    BY <2>1
  <2>6. CASE s[k + 1] \in S
    <3>1. g[k + 1] = Append(g[k], s[k + 1])
      BY <1>2, <2>1, <2>6
    <3>2. /\ g[k + 1] \in Seq(X)
          /\ Elements(g[k + 1]) = Elements(g[k]) \cup {s[k + 1]}
          /\ NoDups(g[k]) /\ s[k + 1] \notin Elements(g[k]) => NoDups(g[k + 1])
      <4>1. /\ Append(g[k], s[k + 1]) \in Seq(X)
            /\ Elements(Append(g[k], s[k + 1])) = Elements(g[k]) \cup {s[k + 1]}
            /\ NoDups(g[k]) /\ s[k + 1] \notin Elements(g[k]) => NoDups(Append(g[k], s[k + 1]))
        BY <2>2, <2>3, AppendElements
      <4> QED
        BY <3>1, <4>1
    <3>3. NoDups(s) => s[k + 1] \notin Elements(g[k])
      <4> SUFFICES ASSUME NoDups(s), NEW i \in 1 .. k, s[i] = s[k + 1] PROVE FALSE
        BY <2>3
      <4>1. i \in 1 .. Len(s) /\ i # k + 1
        BY <1>0, <2>1
      <4> QED
        BY <2>1, <4>1 DEF NoDups
    <3>4. Elements(g[k]) \cup {s[k + 1]} = {x \in S : \E i \in 1 .. k + 1 : s[i] = x}
      BY <2>3, <2>4, <2>5, <2>6
    <3> QED
      BY <2>3, <3>2, <3>3, <3>4 DEF KeptWell
  <2>7. CASE s[k + 1] \notin S
    <3>1. g[k + 1] = g[k]
      BY <1>2, <2>1, <2>7
    <3>2. {x \in S : \E i \in 1 .. k : s[i] = x} = {x \in S : \E i \in 1 .. k + 1 : s[i] = x}
      BY <2>4, <2>5, <2>7
    <3> QED
      BY <2>3, <3>1, <3>2 DEF KeptWell
  <2> QED
    BY <2>6, <2>7
<1> HIDE DEF A
<1>5. 0 .. Len(s) \subseteq A
  BY <1>0, <1>3, <1>4, BoundedInduction
<1>6. KeptWell(Only(s, S), s, S, X, Len(s))
  BY <1>0, <1>1, <1>5 DEF A
<1>7. ASSUME Len(s) > 0, s[Len(s)] \in S
      PROVE  Len(Only(s, S)) > 0 /\ Only(s, S)[Len(Only(s, S))] = s[Len(s)]
  <2> DEFINE k == Len(s) - 1
  <2>1. k \in 0 .. Len(s) - 1 /\ k \in 0 .. Len(s) /\ k + 1 = Len(s) /\ Len(s) # 0 /\ Len(s) \in 0 .. Len(s)
    BY <1>0, <1>7
  <2>2. Only(s, S) = Append(g[k], s[Len(s)])
    BY <1>1, <1>2, <1>7, <2>1
  <2>3. KeptWell(g[k], s, S, X, k)
    BY <1>5, <2>1 DEF A
  <2>4. g[k] \in Seq(X) /\ s[Len(s)] \in X /\ Len(g[k]) \in Nat
    BY <2>1, <2>3, ElementOfSeq, LenProperties DEF KeptWell
  <2> HIDE DEF k
  <2>5. /\ Len(Append(g[k], s[Len(s)])) = Len(g[k]) + 1
        /\ Append(g[k], s[Len(s)])[Len(g[k]) + 1] = s[Len(s)]
    BY <2>4, AppendElements
  <2> QED
    BY <2>2, <2>4, <2>5
<1> QED
  BY <1>6, <1>7

\* In terms of the elements alone.
LEMMA OnlyElements ==
  ASSUME NEW X, NEW s \in Seq(X), NEW S
  PROVE  /\ Only(s, S) \in Seq(X)
         /\ Elements(Only(s, S)) = Elements(s) \cap S
         /\ NoDups(s) => NoDups(Only(s, S))
<1>1. KeptWell(Only(s, S), s, S, X, Len(s))
  BY OnlyWell
<1>2. {x \in S : \E i \in 1 .. Len(s) : s[i] = x} = Elements(s) \cap S
  BY DEF Elements
<1> QED
  BY <1>1, <1>2 DEF KeptWell

LEMMA WithoutElements ==
  ASSUME NEW X, NEW s \in Seq(X), NEW os
  PROVE  /\ Without(s, os) \in Seq(X)
         /\ Elements(Without(s, os)) = Elements(s) \ os
         /\ NoDups(s) => NoDups(Without(s, os))
<1>1. Without(s, os) = Only(s, Elements(s) \ os)
  BY DEF Without, Elements
<1> QED
  BY <1>1, OnlyElements

---------------------------------------------------------------------------
(* Well-formed states of the manager.                                      *)

\* A session runs exactly when it has a process, and says nothing of another one.
SessionFit(s, n) ==
    /\ s \in Session
    /\ s.process \in 0 .. n
    /\ Len(s.history) <= HistoryLimit
    /\ (s.status = "running") <=> (s.process # 0)
    /\ s.busy \in {0, s.process}

\* Session o can be found by its terminal, or was evicted while in use.
Reached(m, o) == o \in Elements(m.table) \/ m.sessions[o].terminal \in m.untimely

Well(m) ==
    /\ m \in Manager
    /\ Elements(m.table) \subseteq 1 .. Len(m.sessions)
    /\ NoDups(m.table)
    /\ \A o, q \in Elements(m.table) : m.sessions[o].terminal = m.sessions[q].terminal => o = q
    /\ \A o \in 1 .. Len(m.sessions) : SessionFit(m.sessions[o], Len(m.processes))
    /\ \A o \in 1 .. Len(m.sessions) : m.sessions[o].process # 0 => Reached(m, o)
    /\ \A p \in 1 .. Len(m.processes) : m.processes[p] \in {"running", "deaf"} =>
         \E o \in 1 .. Len(m.sessions) : m.sessions[o].process = p
    /\ m.killTimers \subseteq 1 .. Len(m.processes)
    /\ \A k \in Terminals : \A i \in 1 .. Len(m.detached[k]) : m.detached[k][i] # <<>>

\* Whoever was sent SIGTERM gets its SIGKILL.
Escalates(m) ==
    \A p \in 1 .. Len(m.processes) : m.processes[p] = "signalled" => p \in m.killTimers

\* Nothing is on its way to terminal k's file.
Quiet(m, k) == m.pending[k] = None /\ m.writing[k] = <<>>

\* What terminal k's file, now d, will say when every write that was asked for has
\* landed.
Latest(m, d, k) ==
    IF m.pending[k] # None THEN m.pending[k]
    ELSE IF m.writing[k] # <<>> THEN m.writing[k][Len(m.writing[k])].text
    ELSE Contents(d)

\* Terminal k has no writes the manager has forgotten.
Attached(m, k) == k \notin m.untimely => m.detached[k] = <<>>

\* ... and what its file d will say is what its session shows.
FitAt(m, d, k) ==
    k \notin m.untimely =>
      /\ m.detached[k] = <<>>
      /\ \A o \in Elements(m.table) :
           m.sessions[o].terminal = k => Latest(m, d, k) = m.sessions[o].history

\* What terminal k's session shows is on its way to its file d, or was when the last
\* write failed and k is in u; then it would fit some other file.
Promised(m, d, k, u) ==
    /\ \E v : FitAt(m, v, k)
    /\ k \notin u => FitAt(m, d, k)

\* n loses nothing of a history that m has.
KeepsHistory(m, n) ==
    \A k \in Terminals :
      /\ Attached(m, k) => Attached(n, k)
      /\ \A d : FitAt(m, d, k) => FitAt(n, d, k)

\* The sessions operations are working on.
Working == {job[t].session : t \in Threads}

\* What an operator that turns m into n, and may drop the sessions of the
\* terminals ks, keeps for everybody else.
Leads(m, n, ks) ==
    /\ Len(m.sessions) <= Len(n.sessions)
    /\ \A o \in 1 .. Len(m.sessions) :
         /\ n.sessions[o].terminal = m.sessions[o].terminal
         /\ m.sessions[o].process = 0 => n.sessions[o].process = 0
         /\ o \in Working /\ Reached(m, o) => Reached(n, o) \/ m.sessions[o].terminal \in ks
    /\ Elements(n.table) \subseteq Elements(m.table)
    /\ m.untimely \subseteq n.untimely
    /\ \A k \in Terminals : Quiet(m, k) => Quiet(n, k)
    /\ Escalates(m) => Escalates(n)
    /\ KeepsHistory(m, n)

LEMMA PromiseKept ==
  ASSUME NEW m, NEW n, NEW k, \A d : FitAt(m, d, k) => FitAt(n, d, k),
         NEW d, NEW u, NEW w, Promised(m, d, k, u), k \in u => k \in w
  PROVE  Promised(n, d, k, w)
  BY DEF Promised

LEMMA PromiseOfFit ==
  ASSUME NEW m, NEW d, NEW k, NEW u, FitAt(m, d, k)
  PROVE  Promised(m, d, k, u)
  BY DEF Promised

\* Whatever was promised, no write of a terminal not evicted is detached.
LEMMA PromiseAttached ==
  ASSUME NEW m, NEW d, NEW k, NEW u, Promised(m, d, k, u)
  PROVE  Attached(m, k)
  BY DEF Promised, FitAt, Attached

LEMMA LeadsOn ==
  ASSUME NEW m, NEW n, NEW p, NEW ks, Leads(m, n, ks), Leads(n, p, ks),
         Len(m.sessions) \in Nat, Len(n.sessions) \in Nat, Len(p.sessions) \in Nat
  PROVE  Leads(m, p, ks)
<1>1. Len(m.sessions) <= Len(n.sessions) /\ Len(n.sessions) <= Len(p.sessions)
  BY DEF Leads
<1>2. ASSUME NEW o \in 1 .. Len(m.sessions)
      PROVE  /\ p.sessions[o].terminal = m.sessions[o].terminal
             /\ m.sessions[o].process = 0 => p.sessions[o].process = 0
             /\ o \in Working /\ Reached(m, o) => Reached(p, o) \/ m.sessions[o].terminal \in ks
  <2>1. o \in 1 .. Len(n.sessions)
    BY <1>1
  <2> QED
    BY <2>1 DEF Leads
<1>3. /\ Elements(p.table) \subseteq Elements(m.table)
      /\ m.untimely \subseteq p.untimely
      /\ Escalates(m) => Escalates(p)
      /\ \A k \in Terminals : Quiet(m, k) => Quiet(p, k)
  BY DEF Leads
<1>4. KeepsHistory(m, p)
  BY DEF Leads, KeepsHistory
<1> QED
  BY <1>1, <1>2, <1>3, <1>4 DEF Leads

LEMMA LeadsNowhere == ASSUME NEW m, NEW ks, Len(m.sessions) \in Nat PROVE Leads(m, m, ks)
  BY DEF Leads, KeepsHistory

\* The fields of a manager.
LEMMA ManagerFields ==
  ASSUME NEW m \in Manager
  PROVE  /\ m.table \in Seq(Nat) /\ m.sessions \in Seq(Session)
         /\ m.processes \in Seq(Process)
         /\ m.killTimers \in SUBSET Nat /\ m.polling \in BOOLEAN
         /\ m.pending \in [Terminals -> Text \cup {None}]
         /\ m.writing \in [Terminals -> Seq(WriteTask)]
         /\ m.detached \in [Terminals -> Seq(Seq(WriteTask))]
         /\ m.untimely \in SUBSET Terminals
         /\ Len(m.table) \in Nat /\ Len(m.sessions) \in Nat /\ Len(m.processes) \in Nat
  BY LenProperties DEF Manager

\* A change of the table alone.
LEMMA TableFields ==
  ASSUME NEW m \in Manager, NEW t \in Seq(Nat), NEW n, n = [m EXCEPT !.table = t]
  PROVE  /\ n \in Manager /\ n.table = t /\ n.sessions = m.sessions /\ n.processes = m.processes
         /\ n.killTimers = m.killTimers /\ n.polling = m.polling /\ n.pending = m.pending
         /\ n.writing = m.writing /\ n.detached = m.detached /\ n.untimely = m.untimely
  BY DEF Manager

\* A session's place in the map.
LEMMA HeldIsElement == ASSUME NEW m, NEW o PROVE Held(m, o) <=> o \in Elements(m.table)
  BY DEF Held, Elements

\* Touch moves a session in the table, where it is then the last.
LEMMA TouchKeeps ==
  ASSUME NEW m, Well(m), NEW o
  PROVE  LET n == Touch(m, o)
         IN  /\ Well(n) /\ Leads(m, n, {})
             /\ Elements(n.table) = Elements(m.table)
             /\ n.sessions = m.sessions /\ n.processes = m.processes
             /\ n.killTimers = m.killTimers /\ n.polling = m.polling /\ n.pending = m.pending
             /\ n.writing = m.writing /\ n.detached = m.detached /\ n.untimely = m.untimely
             /\ o \in Elements(m.table) => Len(n.table) > 0 /\ n.table[Len(n.table)] = o
<1> DEFINE n == Touch(m, o)
           w == Without(m.table, {o})
           t == Append(w, o)
<1>0. m \in Manager /\ m.table \in Seq(Nat)
  BY ManagerFields DEF Well
<1>1. CASE o \notin Elements(m.table)
  <2>1. n = m
    BY <1>1, HeldIsElement DEF Touch
  <2>2. Leads(m, m, {})
    BY <1>0, ManagerFields, LeadsNowhere
  <2> QED
    BY <1>1, <2>1, <2>2
<1>2. CASE o \in Elements(m.table)
  <2>1. n = [m EXCEPT !.table = t]
    BY <1>2, HeldIsElement DEF Touch
  <2>2. o \in 1 .. Len(m.sessions) /\ o \in Nat
    BY <1>2 DEF Well
  <2>3. w \in Seq(Nat) /\ Elements(w) = Elements(m.table) \ {o} /\ NoDups(w)
    BY <1>0, WithoutElements DEF Well
  <2> HIDE DEF w
  <2>4. t \in Seq(Nat) /\ Elements(t) = Elements(w) \cup {o} /\ NoDups(t)
        /\ Len(t) = Len(w) + 1 /\ t[Len(w) + 1] = o /\ Len(w) \in Nat
    BY <2>2, <2>3, AppendElements, LenProperties
  <2> HIDE DEF t, n
  <2>5. Elements(t) = Elements(m.table) /\ Len(t) > 0 /\ t[Len(t)] = o
    BY <1>2, <2>3, <2>4
  <2>6. /\ n \in Manager /\ n.table = t /\ n.sessions = m.sessions /\ n.processes = m.processes
        /\ n.killTimers = m.killTimers /\ n.polling = m.polling /\ n.pending = m.pending
        /\ n.writing = m.writing /\ n.detached = m.detached /\ n.untimely = m.untimely
    BY <1>0, <2>1, <2>4, TableFields
  <2>7. Well(n)
    BY <2>4, <2>5, <2>6 DEF Well, Reached
  <2>8. Leads(m, n, {})
    <3>1. Len(m.sessions) \in Nat
      BY <1>0, ManagerFields
    <3>2. KeepsHistory(m, n)
      BY <2>5, <2>6 DEF KeepsHistory, Attached, FitAt, Latest
    <3> QED
      BY <2>5, <2>6, <3>1, <3>2 DEF Leads, Reached, Escalates, Quiet
  <2> QED
    BY <1>2, <2>5, <2>6, <2>7, <2>8 DEF n
<1> QED
  BY <1>1, <1>2

---------------------------------------------------------------------------
(* Eviction.                                                               *)

\* The session of a terminal is the one in the map.
LEMMA SessionOfHeld ==
  ASSUME NEW m, Well(m), NEW o \in Elements(m.table)
  PROVE  SessionOf(m, m.sessions[o].terminal) = o
<1> DEFINE k == m.sessions[o].terminal
<1>1. \E i \in 1 .. Len(m.table) : m.sessions[m.table[i]].terminal = k
  BY DEF Elements
<1>2. o \in 1 .. Len(m.sessions) /\ Held(m, o)
  BY HeldIsElement DEF Well
<1>3. \A q \in 1 .. Len(m.sessions) : Held(m, q) /\ m.sessions[q].terminal = k => q = o
  BY HeldIsElement DEF Well
<1> HIDE DEF k
<1>4. (CHOOSE q \in 1 .. Len(m.sessions) : Held(m, q) /\ m.sessions[q].terminal = k) = o
  BY <1>2, <1>3 DEF k
<1> QED
  BY <1>1, <1>4 DEF SessionOf, k

\* No session of terminal k is in the map.
NoSession(m, k) == \A o \in Elements(m.table) : m.sessions[o].terminal # k

LEMMA SessionOfFacts ==
  ASSUME NEW m, Well(m), NEW k
  PROVE  /\ SessionOf(m, k) = 0 <=> NoSession(m, k)
         /\ SessionOf(m, k) # 0 =>
              /\ SessionOf(m, k) \in Elements(m.table)
              /\ SessionOf(m, k) \in 1 .. Len(m.sessions)
              /\ m.sessions[SessionOf(m, k)].terminal = k
<1>1. CASE NoSession(m, k)
  <2>1. ~\E i \in 1 .. Len(m.table) : m.sessions[m.table[i]].terminal = k
    BY <1>1 DEF NoSession, Elements
  <2> QED
    BY <1>1, <2>1 DEF SessionOf
<1>2. CASE ~NoSession(m, k)
  <2>1. PICK o \in Elements(m.table) : m.sessions[o].terminal = k
    BY <1>2 DEF NoSession
  <2>2. SessionOf(m, k) = o
    BY <2>1, SessionOfHeld
  <2>3. o \in 1 .. Len(m.sessions)
    BY DEF Well
  <2> QED
    BY <1>2, <2>1, <2>2, <2>3
<1> QED
  BY <1>1, <1>2

\* The sessions in the map that do not run.
InactiveSet(m) == {o \in Elements(m.table) : m.sessions[o].status # "running"}

LEMMA InactiveElements ==
  ASSUME NEW m, Well(m)
  PROVE  /\ Inactive(m) \in Seq(Nat) /\ NoDups(Inactive(m)) /\ Len(Inactive(m)) \in Nat
         /\ Elements(Inactive(m)) = InactiveSet(m)
<1> DEFINE S == {o \in 1 .. Len(m.sessions) : m.sessions[o].status # "running"}
<1>1. m.table \in Seq(Nat) /\ NoDups(m.table) /\ Elements(m.table) \subseteq 1 .. Len(m.sessions)
  BY ManagerFields DEF Well
<1>2. Inactive(m) = Only(m.table, S)
  BY DEF Inactive
<1>3. InactiveSet(m) = Elements(m.table) \cap S
  BY <1>1 DEF InactiveSet
<1> HIDE DEF S
<1>4. /\ Inactive(m) \in Seq(Nat) /\ NoDups(Inactive(m))
      /\ Elements(Inactive(m)) = Elements(m.table) \cap S
  BY <1>1, <1>2, OnlyElements
<1> QED
  BY <1>3, <1>4, LenProperties

\* A sequence has as many elements as its length says, when none is there twice.
LEMMA CountElements ==
  ASSUME NEW X, NEW s \in Seq(X), NoDups(s)
  PROVE  IsFiniteSet(Elements(s)) /\ Cardinality(Elements(s)) = Len(s)
<1>1. Len(s) \in Nat
  BY LenProperties
<1>2. IsFiniteSet(1 .. Len(s)) /\ Cardinality(1 .. Len(s)) = Len(s)
  BY <1>1, FS_Interval
<1> DEFINE f == [i \in 1 .. Len(s) |-> s[i]]
<1>3. f \in Bijection(1 .. Len(s), Elements(s))
  BY DEF Bijection, Injection, Surjection, IsInjective, Elements, NoDups
<1> HIDE DEF f
<1>4. IsFiniteSet(Elements(s)) /\ Cardinality(1 .. Len(s)) = Cardinality(Elements(s))
  <2>1. ExistsBijection(1 .. Len(s), Elements(s))
    BY <1>3 DEF ExistsBijection
  <2> QED
    BY <1>2, <2>1, FS_Bijection
<1> QED
  BY <1>2, <1>4

Bounded(m) == Cardinality(InactiveSet(m)) <= MaxRetained

\* What Forget leaves of each field.
LEMMA ForgetFields ==
  ASSUME NEW m, Well(m), NEW os
  PROVE  LET n    == Forget(m, os)
             keys == {m.sessions[o].terminal : o \in os}
         IN  os \subseteq Elements(m.table) =>
             /\ n \in Manager /\ n.table = Without(m.table, os)
             /\ n.sessions = m.sessions /\ n.processes = m.processes
             /\ n.killTimers = m.killTimers /\ n.polling = m.polling
             /\ \A k \in Terminals :
                  /\ n.pending[k] = IF k \in keys THEN None ELSE m.pending[k]
                  /\ n.writing[k] = IF k \in keys THEN <<>> ELSE m.writing[k]
                  /\ n.detached[k] = IF k \in keys /\ m.writing[k] # <<>>
                                     THEN Append(m.detached[k], m.writing[k]) ELSE m.detached[k]
             /\ n.untimely = m.untimely \cup (keys \cap InUse(m))
<1> DEFINE n    == Forget(m, os)
           keys == {m.sessions[o].terminal : o \in os}
           pe == [k \in Terminals |-> IF k \in keys THEN None ELSE m.pending[k]]
           wr == [k \in Terminals |-> IF k \in keys THEN <<>> ELSE m.writing[k]]
           de == [k \in Terminals |-> IF k \in keys /\ m.writing[k] # <<>>
                                      THEN Append(m.detached[k], m.writing[k]) ELSE m.detached[k]]
           ta == Without(m.table, os)
           un == m.untimely \cup (keys \cap InUse(m))
<1> SUFFICES ASSUME os \subseteq Elements(m.table)
             PROVE  /\ n \in Manager /\ n.table = ta
                    /\ n.sessions = m.sessions /\ n.processes = m.processes
                    /\ n.killTimers = m.killTimers /\ n.polling = m.polling
                    /\ n.pending = pe /\ n.writing = wr /\ n.detached = de
                    /\ n.untimely = un
  OBVIOUS
<1>0. m \in Manager
  BY DEF Well
<1>1. n = [m EXCEPT !.table = ta, !.pending = pe, !.writing = wr, !.detached = de, !.untimely = un]
  BY DEF Forget
<1>2. ta \in Seq(Nat)
  BY <1>0, ManagerFields, WithoutElements
<1>3. pe \in [Terminals -> Text \cup {None}] /\ wr \in [Terminals -> Seq(WriteTask)]
  BY <1>0, ManagerFields
<1>4. de \in [Terminals -> Seq(Seq(WriteTask))]
  <2> SUFFICES ASSUME NEW k \in Terminals
               PROVE  /\ Append(m.detached[k], m.writing[k]) \in Seq(Seq(WriteTask))
                      /\ m.detached[k] \in Seq(Seq(WriteTask))
    OBVIOUS
  <2>1. m.detached[k] \in Seq(Seq(WriteTask)) /\ m.writing[k] \in Seq(WriteTask)
    BY <1>0, ManagerFields
  <2> QED
    BY <2>1, AppendProperties
<1>5. un \in SUBSET Terminals
  <2>1. \A o \in os : m.sessions[o].terminal \in Terminals
    BY DEF Well, SessionFit, Session
  <2> QED
    BY <1>0, <2>1, ManagerFields
<1> HIDE DEF n, pe, wr, de, ta, un
<1> QED
  BY <1>0, <1>1, <1>2, <1>3, <1>4, <1>5 DEF Manager

\* Eviction leaves no more inactive sessions than may be kept, and drops none
\* that runs nor the one last touched.
LEMMA VictimFacts ==
  ASSUME NEW m, Well(m)
  PROVE  /\ Victims(m) \subseteq InactiveSet(m)
         /\ Cardinality(InactiveSet(m) \ Victims(m)) <= MaxRetained
         /\ Len(m.table) > 0 => m.table[Len(m.table)] \notin Victims(m)
<1> DEFINE old == Inactive(m)
           L   == Len(old)
           I   == {i \in 1 .. L : ~(i + MaxRetained <= L)}
           T   == {old[i] : i \in I}
<1>0. MaxRetained \in Nat /\ MaxRetained > 0
  BY TerminalAssumption
<1>1. old \in Seq(Nat) /\ NoDups(old) /\ L \in Nat /\ Elements(old) = InactiveSet(m)
  BY InactiveElements
<1>2. Victims(m) = {old[i] : i \in {j \in 1 .. L : j + MaxRetained <= L}}
  BY DEF Victims
<1> HIDE DEF old
<1>3. Victims(m) \subseteq InactiveSet(m)
  BY <1>1, <1>2 DEF Elements
<1>4. InactiveSet(m) \ Victims(m) \subseteq T
  BY <1>1, <1>2 DEF Elements
<1>5. IsFiniteSet(I) /\ Cardinality(I) <= MaxRetained
  <2>1. CASE L <= MaxRetained
    <3>1. I = 1 .. L
      BY <1>0, <1>1, <2>1
    <3> HIDE DEF I, L
    <3>2. IsFiniteSet(1 .. L) /\ Cardinality(1 .. L) = IF 1 > L THEN 0 ELSE L - 1 + 1
      <4>1. 1 \in Int /\ L \in Int
        BY <1>1
      <4> QED
        BY <4>1, FS_Interval
    <3>3. (IF 1 > L THEN 0 ELSE L - 1 + 1) = L
      BY <1>1
    <3> QED
      BY <2>1, <3>1, <3>2, <3>3
  <2>2. CASE ~(L <= MaxRetained)
    <3> DEFINE a == L - MaxRetained + 1
    <3>1. a \in Int /\ L \in Int /\ a <= L /\ L - a + 1 = MaxRetained /\ a >= 1
      BY <1>0, <1>1, <2>2
    <3>2. I = a .. L
      BY <1>0, <1>1, <2>2
    <3> HIDE DEF a, I, L
    <3>3. IsFiniteSet(a .. L) /\ Cardinality(a .. L) = L - a + 1
      BY <3>1, FS_Interval
    <3> QED
      BY <1>0, <3>1, <3>2, <3>3
  <2> QED
    BY <2>1, <2>2
<1>6. IsFiniteSet(T) /\ Cardinality(T) <= Cardinality(I)
  <2> DEFINE f == [i \in I |-> old[i]]
  <2>1. f \in Surjection(I, T)
    BY DEF Surjection
  <2> HIDE DEF f, T, I
  <2> QED
    BY <1>5, <2>1, FS_Surjection
<1>7. Cardinality(InactiveSet(m) \ Victims(m)) <= MaxRetained
  <2> DEFINE R == InactiveSet(m) \ Victims(m)
  <2>1. IsFiniteSet(R) /\ Cardinality(R) <= Cardinality(T)
    BY <1>4, <1>6, FS_Subset
  <2>2. Cardinality(R) \in Nat /\ Cardinality(T) \in Nat /\ Cardinality(I) \in Nat
    BY <1>5, <1>6, <2>1, FS_CardinalityType
  <2> HIDE DEF R, T, I
  <2>3. Cardinality(R) <= MaxRetained
    BY <1>0, <1>5, <1>6, <2>1, <2>2
  <2> QED
    BY <2>3 DEF R
<1>8. ASSUME Len(m.table) > 0, m.table[Len(m.table)] \in Victims(m) PROVE FALSE
  <2> DEFINE x == m.table[Len(m.table)]
             S == {o \in 1 .. Len(m.sessions) : m.sessions[o].status # "running"}
  <2>1. m.table \in Seq(Nat) /\ Elements(m.table) \subseteq 1 .. Len(m.sessions)
    BY ManagerFields DEF Well
  <2>2. x \in S
    BY <1>3, <1>8, <2>1 DEF InactiveSet
  <2>3. old = Only(m.table, S)
    BY DEF Inactive, old
  <2> HIDE DEF S
  <2>4. L > 0 /\ old[L] = x
    BY <1>8, <2>1, <2>2, <2>3, OnlyWell
  <2>5. PICK i \in 1 .. L : i + MaxRetained <= L /\ old[i] = x
    BY <1>2, <1>8
  <2>6. L \in 1 .. L /\ i # L
    BY <1>0, <1>1, <2>4, <2>5
  <2> QED
    BY <1>1, <2>4, <2>5, <2>6 DEF NoDups
<1> QED
  BY <1>3, <1>7, <1>8

LEMMA EvictKeeps ==
  ASSUME NEW m, Well(m)
  PROVE  LET n == Evict(m)
         IN  /\ Well(n) /\ Leads(m, n, {}) /\ Bounded(n)
             /\ Len(m.table) > 0 => m.table[Len(m.table)] \in Elements(n.table)
             /\ n.sessions = m.sessions /\ n.processes = m.processes
             /\ n.killTimers = m.killTimers /\ n.polling = m.polling
<1> DEFINE os == Victims(m)
           n  == Evict(m)
           keys == {m.sessions[o].terminal : o \in os}
<1>0. /\ m \in Manager /\ m.table \in Seq(Nat) /\ Elements(m.table) \subseteq 1 .. Len(m.sessions)
      /\ NoDups(m.table)
  BY ManagerFields DEF Well
<1>1. /\ os \subseteq InactiveSet(m) /\ os \subseteq Elements(m.table)
      /\ Cardinality(InactiveSet(m) \ os) <= MaxRetained
      /\ Len(m.table) > 0 => m.table[Len(m.table)] \notin os
  BY VictimFacts DEF InactiveSet
<1>2. n = Forget(m, os)
  BY DEF Evict
<1> HIDE DEF os, n
<1>3. /\ n \in Manager /\ n.table = Without(m.table, os)
      /\ n.sessions = m.sessions /\ n.processes = m.processes
      /\ n.killTimers = m.killTimers /\ n.polling = m.polling
      /\ \A k \in Terminals :
           /\ n.pending[k] = IF k \in keys THEN None ELSE m.pending[k]
           /\ n.writing[k] = IF k \in keys THEN <<>> ELSE m.writing[k]
           /\ n.detached[k] = IF k \in keys /\ m.writing[k] # <<>>
                              THEN Append(m.detached[k], m.writing[k]) ELSE m.detached[k]
      /\ n.untimely = m.untimely \cup (keys \cap InUse(m))
  BY <1>1, <1>2, ForgetFields
<1>4. Elements(n.table) = Elements(m.table) \ os /\ NoDups(n.table)
  BY <1>0, <1>3, WithoutElements
<1>5. \A o \in Elements(m.table) : o \in os => m.sessions[o].status # "running"
  BY <1>1 DEF InactiveSet
<1>6. ASSUME NEW k \in Terminals, k \in keys, k \notin n.untimely
      PROVE  /\ Quiet(m, k)
             /\ ~(\E o \in Working : o # 0 /\ o = SessionOf(m, k))
  BY <1>3, <1>6 DEF InUse, Quiet, Working
<1>7. ASSUME NEW o \in Elements(m.table), o \notin Elements(n.table), o \in Working
      PROVE  m.sessions[o].terminal \in n.untimely
  <2> DEFINE k == m.sessions[o].terminal
  <2>1. o \in os /\ k \in keys /\ o # 0 /\ o \in 1 .. Len(m.sessions)
    BY <1>0, <1>4, <1>7
  <2>2. SessionOf(m, k) = o
    BY SessionOfHeld
  <2>3. k \in Terminals
    BY <2>1 DEF Well, SessionFit, Session
  <2> HIDE DEF k
  <2> QED
    BY <1>6, <1>7, <2>1, <2>2, <2>3 DEF k
<1>8. \A k \in Terminals : \A i \in 1 .. Len(n.detached[k]) : n.detached[k][i] # <<>>
  <2> SUFFICES ASSUME NEW k \in Terminals, NEW i \in 1 .. Len(n.detached[k]) PROVE n.detached[k][i] # <<>>
    OBVIOUS
  <2>1. \A j \in 1 .. Len(m.detached[k]) : m.detached[k][j] # <<>>
    BY DEF Well
  <2>2. CASE n.detached[k] = m.detached[k]
    BY <2>1, <2>2
  <2>3. CASE n.detached[k] = Append(m.detached[k], m.writing[k]) /\ m.writing[k] # <<>>
    <3>1. m.detached[k] \in Seq(Seq(WriteTask)) /\ m.writing[k] \in Seq(WriteTask)
          /\ Len(m.detached[k]) \in Nat
      BY <1>0, ManagerFields, LenProperties
    <3> QED
      BY <2>1, <2>3, <3>1, AppendProperties
  <2> QED
    BY <1>3, <2>2, <2>3
<1>9. Well(n)
  <2>1. \A o \in 1 .. Len(m.sessions) : m.sessions[o].process # 0 => Reached(n, o)
    <3> SUFFICES ASSUME NEW o \in 1 .. Len(m.sessions), m.sessions[o].process # 0 PROVE Reached(n, o)
      OBVIOUS
    <3>1. Reached(m, o) /\ m.sessions[o].status = "running"
      BY DEF Well, SessionFit
    <3> QED
      BY <1>3, <1>4, <1>5, <3>1 DEF Reached
  <2> QED
    BY <1>0, <1>3, <1>4, <1>8, <2>1 DEF Well
<1>10. Leads(m, n, {})
  <2>1. Len(m.sessions) \in Nat
    BY <1>0, ManagerFields
  <2>2. \A o \in 1 .. Len(m.sessions) : o \in Working /\ Reached(m, o) => Reached(n, o)
    BY <1>3, <1>7 DEF Reached
  <2>3. \A k \in Terminals : Quiet(m, k) => Quiet(n, k)
    BY <1>3 DEF Quiet
  <2>4. Escalates(m) => Escalates(n)
    BY <1>3 DEF Escalates
  <2>5. KeepsHistory(m, n)
    <3> SUFFICES ASSUME NEW k \in Terminals, k \notin n.untimely
                 PROVE  /\ Attached(m, k) => Attached(n, k)
                        /\ \A d : FitAt(m, d, k) => FitAt(n, d, k)
      BY DEF KeepsHistory, Attached, FitAt
    <3>1. k \notin m.untimely
      BY <1>3
    <3>2. n.pending[k] = m.pending[k] /\ n.writing[k] = m.writing[k] /\ n.detached[k] = m.detached[k]
      BY <1>3, <1>6 DEF Quiet
    <3> QED
      BY <1>3, <1>4, <3>1, <3>2 DEF Attached, FitAt, Latest
  <2> QED
    BY <1>3, <1>4, <2>1, <2>2, <2>3, <2>4, <2>5 DEF Leads
<1>11. Bounded(n)
  <2>1. InactiveSet(n) = InactiveSet(m) \ os
    BY <1>3, <1>4 DEF InactiveSet
  <2> QED
    BY <1>1, <2>1 DEF Bounded
<1>12. Len(m.table) > 0 => m.table[Len(m.table)] \in Elements(n.table)
  <2>1. Len(m.table) > 0 => m.table[Len(m.table)] \in Elements(m.table)
    BY <1>0, ManagerFields DEF Elements
  <2> QED
    BY <1>1, <1>4, <2>1
<1> QED
  BY <1>3, <1>9, <1>10, <1>11, <1>12 DEF n

---------------------------------------------------------------------------
(* Changes of one session and its process.                                 *)

\* n is m with session o replaced by s; processes and what is to be written are
\* free.
Updates(m, n, o, s) ==
    /\ n \in Manager
    /\ n.table = m.table /\ n.untimely = m.untimely /\ n.detached = m.detached
    /\ n.sessions = [m.sessions EXCEPT ![o] = s]
    /\ s \in Session /\ s.terminal = m.sessions[o].terminal

LEMMA UpdateFacts ==
  ASSUME NEW m, Well(m), NEW o \in 1 .. Len(m.sessions), NEW s, NEW n, Updates(m, n, o, s)
  PROVE  /\ Len(n.sessions) = Len(m.sessions) /\ Len(m.sessions) \in Nat
         /\ n.sessions[o] = s
         /\ \A q \in 1 .. Len(m.sessions) : q # o => n.sessions[q] = m.sessions[q]
         /\ \A q \in 1 .. Len(m.sessions) : n.sessions[q].terminal = m.sessions[q].terminal
<1>1. m.sessions \in Seq(Session) /\ Len(m.sessions) \in Nat
  BY ManagerFields DEF Well
<1>2. n.sessions = [m.sessions EXCEPT ![o] = s] /\ s \in Session /\ s.terminal = m.sessions[o].terminal
  BY DEF Updates
<1>3. Len(n.sessions) = Len(m.sessions)
  BY <1>1, <1>2, ExceptSeq
<1>4. /\ n.sessions[o] = s
      /\ \A q \in 1 .. Len(m.sessions) : q # o => n.sessions[q] = m.sessions[q]
  BY <1>1, <1>2
<1> QED
  BY <1>1, <1>2, <1>3, <1>4

LEMMA UpdateWell ==
  ASSUME NEW m, Well(m), NEW o \in 1 .. Len(m.sessions), NEW s, NEW n, Updates(m, n, o, s),
         Len(m.processes) <= Len(n.processes), n.killTimers \subseteq 1 .. Len(n.processes),
         SessionFit(s, Len(n.processes)),
         s.process # 0 => Reached(m, o),
         \A p \in 1 .. Len(n.processes) : n.processes[p] \in {"running", "deaf"} =>
            \/ s.process = p
            \/ p \in 1 .. Len(m.processes) /\ m.processes[p] \in {"running", "deaf"} /\ m.sessions[o].process # p
  PROVE  Well(n)
<1>0. /\ n \in Manager /\ n.table = m.table /\ n.untimely = m.untimely /\ n.detached = m.detached
      /\ Len(m.processes) \in Nat /\ Len(n.processes) \in Nat
  BY ManagerFields DEF Updates, Well
<1>1. /\ Len(n.sessions) = Len(m.sessions) /\ Len(m.sessions) \in Nat
      /\ n.sessions[o] = s
      /\ \A q \in 1 .. Len(m.sessions) : q # o => n.sessions[q] = m.sessions[q]
      /\ \A q \in 1 .. Len(m.sessions) : n.sessions[q].terminal = m.sessions[q].terminal
  BY UpdateFacts
<1>2. \A q \in 1 .. Len(n.sessions) : SessionFit(n.sessions[q], Len(n.processes))
  <2> SUFFICES ASSUME NEW q \in 1 .. Len(m.sessions), q # o
               PROVE  SessionFit(m.sessions[q], Len(n.processes))
    BY <1>1
  <2>1. SessionFit(m.sessions[q], Len(m.processes))
    BY DEF Well
  <2>2. 0 .. Len(m.processes) \subseteq 0 .. Len(n.processes)
    BY <1>0
  <2> QED
    BY <2>1, <2>2 DEF SessionFit
<1>3. \A q \in 1 .. Len(n.sessions) : n.sessions[q].process # 0 => Reached(n, q)
  <2>1. \A q \in 1 .. Len(m.sessions) : Reached(n, q) <=> Reached(m, q)
    BY <1>0, <1>1 DEF Reached
  <2>2. \A q \in 1 .. Len(m.sessions) : m.sessions[q].process # 0 => Reached(m, q)
    BY DEF Well
  <2> QED
    BY <1>1, <2>1, <2>2
<1>4. ASSUME NEW p \in 1 .. Len(n.processes), n.processes[p] \in {"running", "deaf"}
      PROVE  \E q \in 1 .. Len(n.sessions) : n.sessions[q].process = p
  <2>1. CASE s.process = p
    BY <1>1, <2>1
  <2>2. CASE p \in 1 .. Len(m.processes) /\ m.processes[p] \in {"running", "deaf"} /\ m.sessions[o].process # p
    <3>1. PICK q \in 1 .. Len(m.sessions) : m.sessions[q].process = p
      BY <2>2 DEF Well
    <3> QED
      BY <1>1, <2>2, <3>1
  <2> QED
    BY <1>4, <2>1, <2>2
<1>5. /\ Elements(n.table) \subseteq 1 .. Len(n.sessions) /\ NoDups(n.table)
      /\ \A q, r \in Elements(n.table) : n.sessions[q].terminal = n.sessions[r].terminal => q = r
  <2>1. /\ Elements(m.table) \subseteq 1 .. Len(m.sessions) /\ NoDups(m.table)
        /\ \A q, r \in Elements(m.table) : m.sessions[q].terminal = m.sessions[r].terminal => q = r
    BY DEF Well
  <2> QED
    BY <1>0, <1>1, <2>1
<1>6. \A k \in Terminals : \A i \in 1 .. Len(n.detached[k]) : n.detached[k][i] # <<>>
  BY <1>0 DEF Well
<1> QED
  BY <1>0, <1>2, <1>3, <1>4, <1>5, <1>6 DEF Well

\* ... what it keeps for everybody else when the history is left alone.
LEMMA UpdateHistory ==
  ASSUME NEW m, Well(m), NEW o \in 1 .. Len(m.sessions), NEW s, NEW n, Updates(m, n, o, s),
         s.history = m.sessions[o].history, n.pending = m.pending, n.writing = m.writing
  PROVE  KeepsHistory(m, n)
<1>0. n.table = m.table /\ n.untimely = m.untimely /\ n.detached = m.detached
  BY DEF Updates
<1>1. /\ n.sessions[o] = s
      /\ \A q \in 1 .. Len(m.sessions) : q # o => n.sessions[q] = m.sessions[q]
      /\ \A q \in 1 .. Len(m.sessions) : n.sessions[q].terminal = m.sessions[q].terminal
  BY UpdateFacts
<1>2. \A q \in 1 .. Len(m.sessions) : n.sessions[q].history = m.sessions[q].history
  BY <1>1
<1>3. Elements(m.table) \subseteq 1 .. Len(m.sessions)
  BY DEF Well
<1>4. \A d, k : Latest(n, d, k) = Latest(m, d, k)
  BY DEF Latest
<1> QED
  BY <1>0, <1>1, <1>2, <1>3, <1>4 DEF KeepsHistory, Attached, FitAt

LEMMA UpdateLeads ==
  ASSUME NEW m, Well(m), NEW o \in 1 .. Len(m.sessions), NEW s, NEW n, Updates(m, n, o, s),
         m.sessions[o].process = 0 => s.process = 0,
         s.history = m.sessions[o].history, n.pending = m.pending, n.writing = m.writing,
         Escalates(m) => Escalates(n)
  PROVE  Leads(m, n, {})
<1>0. n.table = m.table /\ n.untimely = m.untimely
  BY DEF Updates
<1>1. /\ Len(n.sessions) = Len(m.sessions) /\ Len(m.sessions) \in Nat
      /\ n.sessions[o] = s
      /\ \A q \in 1 .. Len(m.sessions) : q # o => n.sessions[q] = m.sessions[q]
      /\ \A q \in 1 .. Len(m.sessions) : n.sessions[q].terminal = m.sessions[q].terminal
  BY UpdateFacts
<1>2. KeepsHistory(m, n)
  BY UpdateHistory
<1> QED
  BY <1>0, <1>1, <1>2 DEF Leads, Reached, Quiet

\* A change of a session that leaves it as inactive as it was.
LEMMA UpdateInactive ==
  ASSUME NEW m, Well(m), NEW o \in 1 .. Len(m.sessions), NEW s, NEW n, Updates(m, n, o, s),
         s.status = "running" \/ m.sessions[o].status # "running"
  PROVE  InactiveSet(n) \subseteq InactiveSet(m)
<1>1. /\ n.table = m.table /\ Elements(m.table) \subseteq 1 .. Len(m.sessions)
  BY DEF Updates, Well
<1>2. /\ n.sessions[o] = s
      /\ \A q \in 1 .. Len(m.sessions) : q # o => n.sessions[q] = m.sessions[q]
  BY UpdateFacts
<1> QED
  BY <1>1, <1>2 DEF InactiveSet

\* Fewer inactive sessions are no more than may be kept.
LEMMA BoundedSubset ==
  ASSUME NEW m, Well(m), NEW n, InactiveSet(n) \subseteq InactiveSet(m), Bounded(m)
  PROVE  Bounded(n)
<1>1. IsFiniteSet(InactiveSet(m))
  BY InactiveElements, CountElements
<1>2. /\ IsFiniteSet(InactiveSet(n))
      /\ Cardinality(InactiveSet(n)) <= Cardinality(InactiveSet(m))
  BY <1>1, FS_Subset
<1>3. /\ Cardinality(InactiveSet(n)) \in Nat /\ Cardinality(InactiveSet(m)) \in Nat
      /\ MaxRetained \in Nat
  BY <1>1, <1>2, FS_CardinalityType, TerminalAssumption
<1> QED
  BY <1>2, <1>3 DEF Bounded

---------------------------------------------------------------------------
(* What EXCEPT leaves of each field.                                       *)

\* The manager with other sessions, or with other processes.
WithSessions(m, S) == [m EXCEPT !.sessions = S]

WithProcesses(m, P, K) == [m EXCEPT !.processes = P, !.killTimers = K]

\* m and n differ in neither the table nor what is to be written.
SameBook(m, n) ==
    /\ n.table = m.table /\ n.polling = m.polling /\ n.pending = m.pending
    /\ n.writing = m.writing /\ n.detached = m.detached /\ n.untimely = m.untimely

LEMMA SessionsFields ==
  ASSUME NEW m \in Manager, NEW S \in Seq(Session)
  PROVE  LET n == WithSessions(m, S)
         IN  /\ n \in Manager /\ n.sessions = S /\ SameBook(m, n)
             /\ n.processes = m.processes /\ n.killTimers = m.killTimers
  BY DEF Manager, WithSessions, SameBook

LEMMA ProcessesFields ==
  ASSUME NEW m \in Manager, NEW P \in Seq(Process), NEW K \in SUBSET Nat
  PROVE  LET n == WithProcesses(m, P, K)
         IN  /\ n \in Manager /\ n.sessions = m.sessions /\ SameBook(m, n)
             /\ n.processes = P /\ n.killTimers = K
  BY DEF Manager, WithProcesses, SameBook

\* The manager with session o replaced by s.
WithSession(m, o, s) == WithSessions(m, [m.sessions EXCEPT ![o] = s])

LEMMA SessionFields ==
  ASSUME NEW m \in Manager, NEW o \in 1 .. Len(m.sessions), NEW s \in Session
  PROVE  LET n == WithSession(m, o, s)
         IN  /\ n \in Manager /\ n.sessions = [m.sessions EXCEPT ![o] = s] /\ SameBook(m, n)
             /\ n.processes = m.processes /\ n.killTimers = m.killTimers
<1> DEFINE S == [m.sessions EXCEPT ![o] = s]
<1>1. m.sessions \in Seq(Session) /\ Len(m.sessions) \in Nat
  BY ManagerFields
<1>2. S \in Seq(Session) /\ S[o] = s /\ Len(S) = Len(m.sessions)
  BY <1>1, ExceptSeq
<1>3. WithSession(m, o, s) = WithSessions(m, S)
  BY DEF WithSession
<1> HIDE DEF S
<1>4. LET n == WithSessions(m, S)
      IN  /\ n \in Manager /\ n.sessions = S /\ SameBook(m, n)
          /\ n.processes = m.processes /\ n.killTimers = m.killTimers
  BY <1>2, SessionsFields
<1> QED
  BY <1>2, <1>3, <1>4 DEF S

LEMMA SessionThere ==
  ASSUME NEW m \in Manager, NEW o \in 1 .. Len(m.sessions), NEW s \in Session,
         NEW n, n = WithSession(m, o, s)
  PROVE  n.sessions[o] = s /\ Len(n.sessions) = Len(m.sessions)
<1>1. n.sessions = [m.sessions EXCEPT ![o] = s]
  BY SessionFields
<1>2. m.sessions \in Seq(Session) /\ Len(m.sessions) \in Nat
  BY ManagerFields
<1> QED
  BY <1>1, <1>2, ExceptSeq

\* Two changes of one session are one.
LEMMA SessionTwice ==
  ASSUME NEW m \in Manager, NEW o \in 1 .. Len(m.sessions), NEW r \in Session, NEW s \in Session
  PROVE  WithSession(WithSession(m, o, r), o, s) = WithSession(m, o, s)
<1> DEFINE n == WithSession(m, o, r)
<1>1. n.sessions = [m.sessions EXCEPT ![o] = r] /\ n.sessions \in Seq(Session)
  BY SessionFields, ManagerFields
<1>2. [[m.sessions EXCEPT ![o] = r] EXCEPT ![o] = s] = [m.sessions EXCEPT ![o] = s]
  OBVIOUS
<1>3. n = [m EXCEPT !.sessions = [m.sessions EXCEPT ![o] = r]]
  BY DEF WithSession, WithSessions
<1>4. [n EXCEPT !.sessions = [m.sessions EXCEPT ![o] = s]] = [m EXCEPT !.sessions = [m.sessions EXCEPT ![o] = s]]
  BY <1>3
<1> QED
  BY <1>1, <1>2, <1>4 DEF WithSession, WithSessions

---------------------------------------------------------------------------
(* Watch, and what a session goes through when its shell is gone.          *)

\* Shells that run are polled.
Polled(m) == \A o \in Elements(m.table) : m.sessions[o].status = "running" => m.polling

LEMMA WatchKeeps ==
  ASSUME NEW m, Well(m)
  PROVE  LET n == Watch(m)
         IN  /\ Well(n) /\ Leads(m, n, {}) /\ Polled(n)
             /\ n.table = m.table /\ n.sessions = m.sessions /\ n.processes = m.processes
             /\ n.killTimers = m.killTimers /\ n.pending = m.pending
             /\ n.writing = m.writing /\ n.detached = m.detached /\ n.untimely = m.untimely
<1> DEFINE n == Watch(m)
           b == \E i \in 1 .. Len(m.table) : m.sessions[m.table[i]].status = "running"
<1>0. m \in Manager /\ Len(m.sessions) \in Nat
  BY ManagerFields DEF Well
<1>1. n = [m EXCEPT !.polling = b] /\ b \in BOOLEAN
  BY DEF Watch
<1>2. \A o \in Elements(m.table) : m.sessions[o].status = "running" => b
  BY DEF Elements
<1> HIDE DEF n, b
<1>3. /\ n \in Manager /\ n.polling = b
      /\ n.table = m.table /\ n.sessions = m.sessions /\ n.processes = m.processes
      /\ n.killTimers = m.killTimers /\ n.pending = m.pending
      /\ n.writing = m.writing /\ n.detached = m.detached /\ n.untimely = m.untimely
  BY <1>0, <1>1 DEF Manager
<1>4. Well(n)
  BY <1>3 DEF Well, Reached
<1>5. Leads(m, n, {})
  <2>1. KeepsHistory(m, n)
    BY <1>3 DEF KeepsHistory, Attached, FitAt, Latest
  <2> QED
    BY <1>0, <1>3, <2>1 DEF Leads, Reached, Escalates, Quiet
<1>6. Polled(n)
  BY <1>2, <1>3 DEF Polled
<1> QED
  BY <1>3, <1>4, <1>5, <1>6 DEF n

LEMMA WellLengths ==
  ASSUME NEW m, Well(m)
  PROVE  /\ Len(m.sessions) \in Nat /\ Len(m.processes) \in Nat
         /\ Elements(m.table) \subseteq 1 .. Len(m.sessions)
  BY ManagerFields DEF Well

\* updatedAt, eviction and the poll, as they follow a change of session o.
Settled(m, o) == Watch(Evict(Touch(m, o)))

LEMMA SettledKeeps ==
  ASSUME NEW m, Well(m), NEW o
  PROVE  LET n == Settled(m, o)
         IN  /\ Well(n) /\ Leads(m, n, {}) /\ Bounded(n) /\ Polled(n)
             /\ n.sessions = m.sessions /\ n.processes = m.processes
             /\ n.killTimers = m.killTimers
             /\ o \in Elements(m.table) => o \in Elements(n.table)
<1> DEFINE a == Touch(m, o)
           b == Evict(a)
           n == Watch(b)
<1>0. n = Settled(m, o)
  BY DEF Settled
<1>1. /\ Well(a) /\ Leads(m, a, {})
      /\ a.sessions = m.sessions /\ a.processes = m.processes /\ a.killTimers = m.killTimers
      /\ o \in Elements(m.table) => Len(a.table) > 0 /\ a.table[Len(a.table)] = o
  BY TouchKeeps
<1> HIDE DEF a
<1>2. /\ Well(b) /\ Leads(a, b, {}) /\ Bounded(b)
      /\ b.sessions = a.sessions /\ b.processes = a.processes /\ b.killTimers = a.killTimers
      /\ Len(a.table) > 0 => a.table[Len(a.table)] \in Elements(b.table)
  BY <1>1, EvictKeeps
<1> HIDE DEF b
<1>3. /\ Well(n) /\ Leads(b, n, {}) /\ Polled(n)
      /\ n.table = b.table /\ n.sessions = b.sessions /\ n.processes = b.processes
      /\ n.killTimers = b.killTimers
  BY <1>2, WatchKeeps
<1> HIDE DEF n
<1>4. Bounded(n)
  <2>1. InactiveSet(n) = InactiveSet(b)
    BY <1>3 DEF InactiveSet
  <2> QED
    BY <1>2, <2>1 DEF Bounded
<1>5. /\ Len(m.sessions) \in Nat /\ Len(a.sessions) \in Nat
      /\ Len(b.sessions) \in Nat /\ Len(n.sessions) \in Nat
  BY <1>1, <1>2, <1>3, WellLengths
<1>6. Leads(m, b, {})
  BY <1>1, <1>2, <1>5, LeadsOn
<1>7. Leads(m, n, {})
  BY <1>3, <1>5, <1>6, LeadsOn
<1> QED
  BY <1>0, <1>1, <1>2, <1>3, <1>4, <1>7

\* The session's process is gone: it was told to go, or it is dead.
Gone(s) == [s EXCEPT !.process = 0, !.busy = 0, !.status = "exited"]

LEMMA GoneFit ==
  ASSUME NEW n \in Nat, NEW s, SessionFit(s, n)
  PROVE  /\ Gone(s).process = 0 /\ Gone(s).history = s.history
         /\ Gone(s).status = "exited" /\ Gone(s).terminal = s.terminal
         /\ SessionFit(Gone(s), n)
<1> DEFINE g == Gone(s)
<1>1. s \in Session /\ Len(s.history) <= HistoryLimit
  BY DEF SessionFit
<1>2. /\ g \in Session /\ g.process = 0 /\ g.busy = 0 /\ g.status = "exited"
      /\ g.history = s.history /\ g.terminal = s.terminal
  BY <1>1 DEF Gone, Session
<1> HIDE DEF g
<1>3. SessionFit(g, n)
  BY <1>1, <1>2 DEF SessionFit
<1> QED
  BY <1>2, <1>3 DEF g

InStatus(s, v) == [s EXCEPT !.status = v]

IsBusy(s, v) == [s EXCEPT !.busy = v]

SetStatus(m, o, v) == [m EXCEPT !.sessions[o].status = v]

SetBusy(m, o, v) == [m EXCEPT !.sessions[o].busy = v]

\* Another field of a session that was already changed.
LEMMA FieldAgain ==
  ASSUME NEW m \in Manager, NEW o \in 1 .. Len(m.sessions), NEW r \in Session, NEW v
  PROVE  LET a == WithSession(m, o, r)
         IN  /\ InStatus(r, v) \in Session =>
                  SetStatus(a, o, v) = WithSession(m, o, InStatus(r, v))
             /\ IsBusy(r, v) \in Session =>
                  SetBusy(a, o, v) = WithSession(m, o, IsBusy(r, v))
<1> DEFINE a == WithSession(m, o, r)
           s == InStatus(r, v)
           b == IsBusy(r, v)
<1>1. a \in Manager /\ a = WithSession(m, o, r)
  BY SessionFields
<1> HIDE DEF a
<1>2. a.sessions[o] = r /\ Len(a.sessions) = Len(m.sessions)
  BY <1>1, SessionThere
<1>3. SetStatus(a, o, v) = WithSession(a, o, s)
  BY <1>2 DEF WithSession, WithSessions, SetStatus, InStatus
<1>4. SetBusy(a, o, v) = WithSession(a, o, b)
  BY <1>2 DEF WithSession, WithSessions, SetBusy, IsBusy
<1> HIDE DEF s, b
<1>5. s \in Session => WithSession(a, o, s) = WithSession(m, o, s)
  BY <1>1, SessionTwice
<1>6. b \in Session => WithSession(a, o, b) = WithSession(m, o, b)
  BY <1>1, SessionTwice
<1> QED
  BY <1>3, <1>4, <1>5, <1>6 DEF a, s, b

LEMMA GoneFields ==
  ASSUME NEW m \in Manager, NEW o \in 1 .. Len(m.sessions)
  PROVE  [m EXCEPT !.sessions[o].process = 0,
                   !.sessions[o].busy    = 0,
                   !.sessions[o].status  = "exited"] = WithSession(m, o, Gone(m.sessions[o]))
<1> DEFINE s == [m.sessions[o] EXCEPT !.process = 0]
           r == IsBusy(s, 0)
           q == InStatus(r, "exited")
<1>1. s \in Session /\ r \in Session /\ q \in Session
  <2>1. m.sessions[o] \in Session
    BY ManagerFields, ElementOfSeq
  <2> QED
    BY <2>1 DEF Session, IsBusy, InStatus
<1>2. q = Gone(m.sessions[o])
  BY DEF Gone, IsBusy, InStatus
<1> DEFINE a == [m EXCEPT !.sessions[o].process = 0]
<1>3. a = WithSession(m, o, s)
  BY DEF WithSession, WithSessions
<1>4. [a EXCEPT !.sessions[o].busy = 0, !.sessions[o].status = "exited"]
         = SetStatus(SetBusy(a, o, 0), o, "exited")
  BY DEF SetStatus, SetBusy
<1> HIDE DEF a, s
<1>5. SetBusy(WithSession(m, o, s), o, 0) = WithSession(m, o, r)
  BY <1>1, FieldAgain
<1> HIDE DEF r
<1>6. SetStatus(WithSession(m, o, r), o, "exited") = WithSession(m, o, q)
  BY <1>1, FieldAgain
<1> HIDE DEF q
<1> QED
  BY <1>2, <1>3, <1>4, <1>5, <1>6 DEF a

\* n is m once session o's process is gone, before anything follows from it; how
\* it went is in what became of the process.
LeftBy(m, n, o, how) ==
    /\ how \in {"signalled", "missed", "dead"}
    /\ Updates(m, n, o, Gone(m.sessions[o]))
    /\ n.processes = [m.processes EXCEPT ![m.sessions[o].process] = how]
    /\ n.killTimers = IF how = "signalled" THEN m.killTimers \cup {m.sessions[o].process}
                      ELSE m.killTimers
    /\ n.polling = m.polling /\ n.pending = m.pending /\ n.writing = m.writing

LEMMA LeftByKeeps ==
  ASSUME NEW m, Well(m), NEW o \in 1 .. Len(m.sessions), m.sessions[o].process # 0,
         NEW how, NEW n, LeftBy(m, n, o, how)
  PROVE  /\ Well(n) /\ Leads(m, n, {})
         /\ n.table = m.table /\ Len(n.sessions) = Len(m.sessions)
         /\ Len(n.processes) = Len(m.processes)
         /\ n.sessions[o] = Gone(m.sessions[o])
         /\ \A q \in 1 .. Len(m.sessions) : q # o => n.sessions[q] = m.sessions[q]
<1> DEFINE p == m.sessions[o].process
           s == Gone(m.sessions[o])
<1>0. /\ Updates(m, n, o, s) /\ n.table = m.table /\ how \in {"signalled", "missed", "dead"}
      /\ n.processes = [m.processes EXCEPT ![p] = how]
      /\ n.killTimers = IF how = "signalled" THEN m.killTimers \cup {p} ELSE m.killTimers
      /\ n.pending = m.pending /\ n.writing = m.writing
  BY DEF LeftBy, Updates
<1>1. /\ m.processes \in Seq(Process) /\ Len(m.processes) \in Nat
      /\ m.killTimers \subseteq 1 .. Len(m.processes)
      /\ SessionFit(m.sessions[o], Len(m.processes))
  BY ManagerFields DEF Well
<1>2. p \in 1 .. Len(m.processes)
  BY <1>1 DEF SessionFit
<1>3. /\ s.process = 0 /\ s.history = m.sessions[o].history
      /\ SessionFit(s, Len(m.processes))
  BY <1>1, GoneFit
<1> HIDE DEF s, p
<1>4. /\ Len(n.processes) = Len(m.processes) /\ n.processes[p] = how
      /\ \A q \in 1 .. Len(m.processes) : q # p => n.processes[q] = m.processes[q]
  <2>1. how \in Process
    BY <1>0 DEF Process
  <2> QED
    BY <1>0, <1>1, <1>2, <2>1, ExceptSeq
<1>5. Well(n)
  <2>1. n.killTimers \subseteq 1 .. Len(n.processes)
    BY <1>0, <1>1, <1>2, <1>4
  <2>2. ASSUME NEW q \in 1 .. Len(n.processes), n.processes[q] \in {"running", "deaf"}
        PROVE  q \in 1 .. Len(m.processes) /\ m.processes[q] \in {"running", "deaf"} /\ m.sessions[o].process # q
    BY <1>0, <1>4, <2>2 DEF p
  <2>3. Len(m.processes) <= Len(n.processes)
    BY <1>1, <1>4
  <2> QED
    BY <1>0, <1>3, <1>4, <2>1, <2>2, <2>3, UpdateWell
<1>6. Leads(m, n, {})
  <2>1. Escalates(m) => Escalates(n)
    BY <1>0, <1>4 DEF Escalates
  <2> QED
    BY <1>0, <1>3, <2>1, UpdateLeads
<1> QED
  BY <1>0, <1>4, <1>5, <1>6, UpdateFacts DEF s

\* ... and once it is settled.
LEMMA LeftBySettled ==
  ASSUME NEW m, Well(m), NEW o \in 1 .. Len(m.sessions), m.sessions[o].process # 0,
         NEW how, NEW x, LeftBy(m, x, o, how)
  PROVE  LET n == Settled(x, o)
         IN  /\ Well(n) /\ Leads(m, n, {}) /\ Bounded(n) /\ Polled(n)
             /\ Len(n.sessions) = Len(m.sessions)
             /\ n.sessions[o] = Gone(m.sessions[o])
             /\ \A q \in 1 .. Len(m.sessions) : q # o => n.sessions[q] = m.sessions[q]
             /\ o \in Elements(m.table) => o \in Elements(n.table)
<1> DEFINE n == Settled(x, o)
<1>1. /\ Well(x) /\ Leads(m, x, {})
      /\ x.table = m.table /\ Len(x.sessions) = Len(m.sessions)
      /\ x.sessions[o] = Gone(m.sessions[o])
      /\ \A q \in 1 .. Len(m.sessions) : q # o => x.sessions[q] = m.sessions[q]
  BY LeftByKeeps
<1>2. /\ Well(n) /\ Leads(x, n, {}) /\ Bounded(n) /\ Polled(n)
      /\ n.sessions = x.sessions
      /\ o \in Elements(x.table) => o \in Elements(n.table)
  BY <1>1, SettledKeeps
<1> HIDE DEF n
<1>3. Len(m.sessions) \in Nat /\ Len(x.sessions) \in Nat /\ Len(n.sessions) \in Nat
  BY <1>1, <1>2, WellLengths
<1>4. Leads(m, n, {})
  BY <1>1, <1>2, <1>3, LeadsOn
<1> QED
  BY <1>1, <1>2, <1>4 DEF n

\* stopProcess.
LEMMA StopIsLeft ==
  ASSUME NEW m, Well(m), NEW o \in 1 .. Len(m.sessions), m.sessions[o].process # 0
  PROVE  \E x, how : LeftBy(m, x, o, how) /\ Stop(m, o) = Settled(x, o)
<1> DEFINE p == m.sessions[o].process
           how == IF m.processes[p] = "deaf" THEN "missed" ELSE "signalled"
           P == [m.processes EXCEPT ![p] = how]
           K == IF how = "signalled" THEN m.killTimers \cup {p} ELSE m.killTimers
           y == WithProcesses(m, P, K)
           x == WithSession(y, o, Gone(m.sessions[o]))
<1>1. /\ m \in Manager /\ SessionFit(m.sessions[o], Len(m.processes))
      /\ m.processes \in Seq(Process) /\ Len(m.processes) \in Nat
      /\ m.killTimers \in SUBSET Nat
  BY ManagerFields DEF Well
<1>2. p \in 1 .. Len(m.processes) /\ p \in Nat
  BY <1>1 DEF SessionFit
<1>3. y = Signal(m, p)
  <2>1. CASE m.processes[p] = "deaf"
    <3>1. y = [m EXCEPT !.processes = [@ EXCEPT ![p] = "missed"], !.killTimers = m.killTimers]
      BY <2>1 DEF WithProcesses
    <3>2. [m EXCEPT !.processes = [@ EXCEPT ![p] = "missed"], !.killTimers = m.killTimers]
            = [m EXCEPT !.processes[p] = "missed"]
      BY <1>1 DEF Manager
    <3> QED
      BY <2>1, <3>1, <3>2 DEF Signal
  <2>2. CASE m.processes[p] # "deaf"
    BY <2>2 DEF WithProcesses, Signal
  <2> QED
    BY <2>1, <2>2
<1>4. P \in Seq(Process) /\ K \in SUBSET Nat
  <2>1. how \in Process
    BY DEF Process
  <2> HIDE DEF p, how
  <2> QED
    BY <1>1, <1>2, <2>1, ExceptSeq
<1>11. how \in {"signalled", "missed", "dead"}
  OBVIOUS
<1> HIDE DEF p, P, K, how
<1>5. /\ y \in Manager /\ y.sessions = m.sessions /\ SameBook(m, y)
      /\ y.processes = P /\ y.killTimers = K
  BY <1>1, <1>4, ProcessesFields
<1> HIDE DEF y
<1>6. Stop(m, o) = Settled([y EXCEPT !.sessions[o].process = 0,
                                     !.sessions[o].busy    = 0,
                                     !.sessions[o].status  = "exited"], o)
  BY <1>3 DEF Stop, Settled, p
<1>7. Stop(m, o) = Settled(x, o)
  BY <1>5, <1>6, GoneFields
<1>8. Gone(m.sessions[o]) \in Session /\ Gone(m.sessions[o]).terminal = m.sessions[o].terminal
  BY <1>1, GoneFit DEF SessionFit
<1>9. /\ x \in Manager /\ x.sessions = [m.sessions EXCEPT ![o] = Gone(m.sessions[o])]
      /\ SameBook(y, x) /\ x.processes = P /\ x.killTimers = K
  BY <1>5, <1>8, SessionFields
<1> HIDE DEF x
<1>10. LeftBy(m, x, o, how)
  BY <1>5, <1>8, <1>9, <1>11 DEF LeftBy, Updates, SameBook, P, K, p
<1> QED
  BY <1>7, <1>10

\* n keeps what was in m, but for the process and the state of session o.
Spares(m, n, o) ==
    /\ Len(n.sessions) = Len(m.sessions)
    /\ \A q \in 1 .. Len(m.sessions) :
         /\ n.sessions[q].history = m.sessions[q].history
         /\ n.sessions[q].terminal = m.sessions[q].terminal
         /\ q # o => n.sessions[q] = m.sessions[q]
    /\ Bounded(m) => Bounded(n)
    /\ Polled(m) => Polled(n)
    /\ o \in Elements(m.table) => o \in Elements(n.table)

LEMMA StopKeeps ==
  ASSUME NEW m, Well(m), NEW o \in 1 .. Len(m.sessions)
  PROVE  LET n == Stop(m, o)
         IN  Well(n) /\ Leads(m, n, {}) /\ Spares(m, n, o) /\ n.sessions[o].process = 0
<1>0. Len(m.sessions) \in Nat /\ Len(m.processes) \in Nat
  BY WellLengths
<1>1. CASE m.sessions[o].process = 0
  <2>1. Stop(m, o) = m
    BY <1>1 DEF Stop
  <2>2. Leads(m, m, {})
    BY <1>0, LeadsNowhere
  <2> QED
    BY <1>1, <2>1, <2>2 DEF Spares
<1>2. CASE m.sessions[o].process # 0
  <2>1. PICK x, how : LeftBy(m, x, o, how) /\ Stop(m, o) = Settled(x, o)
    BY <1>2, StopIsLeft
  <2> DEFINE n == Settled(x, o)
  <2>2. /\ Well(n) /\ Leads(m, n, {}) /\ Bounded(n) /\ Polled(n)
        /\ Len(n.sessions) = Len(m.sessions)
        /\ n.sessions[o] = Gone(m.sessions[o])
        /\ \A q \in 1 .. Len(m.sessions) : q # o => n.sessions[q] = m.sessions[q]
        /\ o \in Elements(m.table) => o \in Elements(n.table)
    BY <1>2, <2>1, LeftBySettled
  <2> HIDE DEF n
  <2>3. SessionFit(m.sessions[o], Len(m.processes))
    BY DEF Well
  <2>4. /\ n.sessions[o].process = 0
        /\ n.sessions[o].history = m.sessions[o].history
        /\ n.sessions[o].terminal = m.sessions[o].terminal
    BY <1>0, <2>2, <2>3, GoneFit
  <2>5. Spares(m, n, o)
    BY <2>2, <2>4 DEF Spares
  <2> QED
    BY <2>1, <2>2, <2>4, <2>5 DEF n
<1> QED
  BY <1>1, <1>2

---------------------------------------------------------------------------
(* What an operation on the terminals ks leaves to the others.             *)

Leaves(m, n, ks) ==
    /\ Len(m.sessions) <= Len(n.sessions)
    /\ \A o \in 1 .. Len(m.sessions) :
         /\ n.sessions[o].terminal = m.sessions[o].terminal
         /\ m.sessions[o].terminal \notin ks =>
              /\ m.sessions[o].process = 0 => n.sessions[o].process = 0
              /\ o \in Working /\ Reached(m, o) => Reached(n, o)
    /\ \A k \in Terminals \ ks : NoSession(m, k) => NoSession(n, k)
    /\ m.untimely \subseteq n.untimely
    /\ \A k \in Terminals \ ks :
         k \notin n.untimely /\ NoSession(m, k) /\ Quiet(m, k) => Quiet(n, k)

\* ... and no process that was sent SIGTERM is forgotten.
Moves(m, n, ks) == Leaves(m, n, ks) /\ (Escalates(m) => Escalates(n))

\* ... of a well-formed state, which it leaves well-formed.
Sound(m, n, ks) ==
    /\ Well(n)
    /\ Moves(m, n, ks)
    /\ Bounded(m) => Bounded(n)
    /\ Polled(m) => Polled(n)

LEMMA LeadsMoves == ASSUME NEW m, Well(m), NEW n, NEW ks, Leads(m, n, ks) PROVE Moves(m, n, ks)
<1>1. ASSUME NEW k, NoSession(m, k) PROVE NoSession(n, k)
  <2>1. Elements(n.table) \subseteq Elements(m.table)
    BY DEF Leads
  <2>2. \A o \in Elements(m.table) : n.sessions[o].terminal = m.sessions[o].terminal
    BY WellLengths DEF Leads
  <2> QED
    BY <1>1, <2>1, <2>2 DEF NoSession
<1>2. /\ Len(m.sessions) <= Len(n.sessions)
      /\ m.untimely \subseteq n.untimely
      /\ \A k \in Terminals : Quiet(m, k) => Quiet(n, k)
      /\ Escalates(m) => Escalates(n)
  BY DEF Leads
<1>3. \A o \in 1 .. Len(m.sessions) :
         /\ n.sessions[o].terminal = m.sessions[o].terminal
         /\ m.sessions[o].process = 0 => n.sessions[o].process = 0
         /\ o \in Working /\ Reached(m, o) => Reached(n, o) \/ m.sessions[o].terminal \in ks
  BY DEF Leads
<1> QED
  BY <1>1, <1>2, <1>3 DEF Moves, Leaves

LEMMA MovesOn ==
  ASSUME NEW m, NEW n, NEW p, NEW ks, Well(m), Well(n), Well(p),
         Moves(m, n, ks), Moves(n, p, ks)
  PROVE  Moves(m, p, ks)
<1>1. /\ Len(m.sessions) \in Nat /\ Len(n.sessions) \in Nat /\ Len(p.sessions) \in Nat
      /\ Len(m.sessions) <= Len(n.sessions) /\ Len(n.sessions) <= Len(p.sessions)
  BY WellLengths DEF Moves, Leaves
<1>2. ASSUME NEW o \in 1 .. Len(m.sessions)
      PROVE  /\ p.sessions[o].terminal = m.sessions[o].terminal
             /\ m.sessions[o].terminal \notin ks =>
                  /\ m.sessions[o].process = 0 => p.sessions[o].process = 0
                  /\ o \in Working /\ Reached(m, o) => Reached(p, o)
  <2>1. o \in 1 .. Len(n.sessions)
    BY <1>1
  <2>2. /\ n.sessions[o].terminal = m.sessions[o].terminal
        /\ m.sessions[o].terminal \notin ks =>
             /\ m.sessions[o].process = 0 => n.sessions[o].process = 0
             /\ o \in Working /\ Reached(m, o) => Reached(n, o)
    BY DEF Moves, Leaves
  <2>3. /\ p.sessions[o].terminal = n.sessions[o].terminal
        /\ n.sessions[o].terminal \notin ks =>
             /\ n.sessions[o].process = 0 => p.sessions[o].process = 0
             /\ o \in Working /\ Reached(n, o) => Reached(p, o)
    BY <2>1 DEF Moves, Leaves
  <2> QED
    BY <2>2, <2>3
<1>3. /\ \A k \in Terminals \ ks : NoSession(m, k) => NoSession(n, k)
      /\ m.untimely \subseteq n.untimely
      /\ \A k \in Terminals \ ks :
           k \notin n.untimely /\ NoSession(m, k) /\ Quiet(m, k) => Quiet(n, k)
      /\ Escalates(m) => Escalates(n)
  BY DEF Moves, Leaves
<1>4. /\ \A k \in Terminals \ ks : NoSession(n, k) => NoSession(p, k)
      /\ n.untimely \subseteq p.untimely
      /\ \A k \in Terminals \ ks :
           k \notin p.untimely /\ NoSession(n, k) /\ Quiet(n, k) => Quiet(p, k)
      /\ Escalates(n) => Escalates(p)
  BY DEF Moves, Leaves
<1>5. /\ \A k \in Terminals \ ks : NoSession(m, k) => NoSession(p, k)
      /\ m.untimely \subseteq p.untimely
      /\ \A k \in Terminals \ ks :
           k \notin p.untimely /\ NoSession(m, k) /\ Quiet(m, k) => Quiet(p, k)
      /\ Escalates(m) => Escalates(p)
  BY <1>3, <1>4
<1> QED
  BY <1>1, <1>2, <1>5 DEF Moves, Leaves

LEMMA SoundOn ==
  ASSUME NEW m, NEW n, NEW p, NEW ks, Well(m), Sound(m, n, ks), Sound(n, p, ks)
  PROVE  Sound(m, p, ks)
  BY MovesOn DEF Sound

LEMMA SoundWider ==
  ASSUME NEW m, NEW n, NEW ks, NEW ls, ks \subseteq ls, Sound(m, n, ks)
  PROVE  Sound(m, n, ls)
<1>1. Moves(m, n, ls)
  BY DEF Sound, Moves, Leaves
<1> QED
  BY <1>1 DEF Sound

LEMMA SoundNowhere == ASSUME NEW m, Well(m), NEW ks PROVE Sound(m, m, ks)
  BY WellLengths DEF Sound, Moves, Leaves

LEMMA KeepsHistoryOn ==
  ASSUME NEW m, NEW n, NEW p, KeepsHistory(m, n), KeepsHistory(n, p)
  PROVE  KeepsHistory(m, p)
  BY DEF KeepsHistory

\* What a change of one session leaves to the others.
LEMMA UpdateMoves ==
  ASSUME NEW m, Well(m), NEW o \in 1 .. Len(m.sessions), NEW s, NEW n, Updates(m, n, o, s), NEW ks,
         m.sessions[o].terminal \notin ks => (m.sessions[o].process = 0 => s.process = 0),
         Escalates(m) => Escalates(n),
         \A k \in Terminals \ ks :
            k \notin n.untimely /\ NoSession(m, k) /\ Quiet(m, k) => Quiet(n, k)
  PROVE  Moves(m, n, ks)
<1>0. n.table = m.table /\ n.untimely = m.untimely
  BY DEF Updates
<1>1. /\ Len(n.sessions) = Len(m.sessions) /\ Len(m.sessions) \in Nat
      /\ n.sessions[o] = s
      /\ \A q \in 1 .. Len(m.sessions) : q # o => n.sessions[q] = m.sessions[q]
      /\ \A q \in 1 .. Len(m.sessions) : n.sessions[q].terminal = m.sessions[q].terminal
  BY UpdateFacts
<1>2. \A k : NoSession(m, k) => NoSession(n, k)
  BY <1>0, <1>1, WellLengths DEF NoSession
<1>3. \A q \in 1 .. Len(m.sessions) : Reached(m, q) => Reached(n, q)
  BY <1>0, <1>1 DEF Reached
<1>4. \A q \in 1 .. Len(m.sessions) :
         m.sessions[q].terminal \notin ks => (m.sessions[q].process = 0 => n.sessions[q].process = 0)
  BY <1>1
<1> QED
  BY <1>0, <1>1, <1>2, <1>3, <1>4 DEF Moves, Leaves

\* ... if the session runs no more than it did.
LEMMA UpdateSound ==
  ASSUME NEW m, Well(m), NEW o \in 1 .. Len(m.sessions), NEW s, NEW n, Updates(m, n, o, s), NEW ks,
         Well(n), Moves(m, n, ks), n.polling = m.polling,
         s.status = "running" <=> m.sessions[o].status = "running"
  PROVE  Sound(m, n, ks)
<1>1. Bounded(m) => Bounded(n)
  BY UpdateInactive, BoundedSubset
<1>2. Polled(m) => Polled(n)
  <2>1. /\ n.sessions[o] = s /\ n.table = m.table
        /\ \A q \in 1 .. Len(m.sessions) : q # o => n.sessions[q] = m.sessions[q]
    BY UpdateFacts DEF Updates
  <2> QED
    BY <2>1, WellLengths DEF Polled
<1> QED
  BY <1>1, <1>2 DEF Sound

LEMMA TouchSound ==
  ASSUME NEW m, Well(m), NEW o
  PROVE  Sound(m, Touch(m, o), {}) /\ KeepsHistory(m, Touch(m, o))
<1> DEFINE n == Touch(m, o)
<1>1. /\ Well(n) /\ Leads(m, n, {})
      /\ Elements(n.table) = Elements(m.table) /\ n.sessions = m.sessions /\ n.polling = m.polling
  BY TouchKeeps
<1> HIDE DEF n
<1>2. Moves(m, n, {})
  BY <1>1, LeadsMoves
<1>3. InactiveSet(n) = InactiveSet(m)
  BY <1>1 DEF InactiveSet
<1>4. KeepsHistory(m, n)
  BY <1>1 DEF Leads
<1>5. Sound(m, n, {})
  BY <1>1, <1>2, <1>3 DEF Sound, Bounded, Polled
<1> QED
  BY <1>4, <1>5 DEF n

LEMMA WatchSound ==
  ASSUME NEW m, Well(m)
  PROVE  Sound(m, Watch(m), {}) /\ KeepsHistory(m, Watch(m)) /\ Polled(Watch(m))
<1> DEFINE n == Watch(m)
<1>1. /\ Well(n) /\ Leads(m, n, {}) /\ Polled(n) /\ n.table = m.table /\ n.sessions = m.sessions
  BY WatchKeeps
<1> HIDE DEF n
<1>2. Moves(m, n, {})
  BY <1>1, LeadsMoves
<1>3. InactiveSet(n) = InactiveSet(m)
  BY <1>1 DEF InactiveSet
<1>4. KeepsHistory(m, n)
  BY <1>1 DEF Leads
<1>5. Sound(m, n, {})
  BY <1>1, <1>2, <1>3 DEF Sound, Bounded
<1> QED
  BY <1>1, <1>4, <1>5 DEF n

LEMMA SettledSound ==
  ASSUME NEW m, Well(m), NEW o
  PROVE  Sound(m, Settled(m, o), {}) /\ KeepsHistory(m, Settled(m, o)) /\ Polled(Settled(m, o))
<1> DEFINE n == Settled(m, o)
<1>1. Well(n) /\ Leads(m, n, {}) /\ Bounded(n) /\ Polled(n)
  BY SettledKeeps
<1> HIDE DEF n
<1>2. Moves(m, n, {})
  BY <1>1, LeadsMoves
<1>3. KeepsHistory(m, n)
  BY <1>1 DEF Leads
<1>4. Sound(m, n, {})
  BY <1>1, <1>2 DEF Sound
<1> QED
  BY <1>1, <1>3, <1>4 DEF n

LEMMA StopSound ==
  ASSUME NEW m, Well(m), NEW o \in 1 .. Len(m.sessions)
  PROVE  Sound(m, Stop(m, o), {}) /\ KeepsHistory(m, Stop(m, o))
<1> DEFINE n == Stop(m, o)
<1>1. Well(n) /\ Leads(m, n, {}) /\ Spares(m, n, o)
  BY StopKeeps
<1> HIDE DEF n
<1>2. Moves(m, n, {})
  BY <1>1, LeadsMoves
<1>3. KeepsHistory(m, n)
  BY <1>1 DEF Leads
<1>4. Sound(m, n, {})
  BY <1>1, <1>2 DEF Sound, Spares
<1> QED
  BY <1>3, <1>4 DEF n

---------------------------------------------------------------------------
(* The steps of an operation, one at a time.                               *)

\* The manager with other processes, and nothing else.
OnlyProcesses(m, P) == [m EXCEPT !.processes = P]

LEMMA OnlyProcessesFields ==
  ASSUME NEW m \in Manager, NEW P \in Seq(Process)
  PROVE  LET n == OnlyProcesses(m, P)
         IN  /\ n \in Manager /\ n.sessions = m.sessions /\ SameBook(m, n)
             /\ n.processes = P /\ n.killTimers = m.killTimers
  BY DEF Manager, OnlyProcesses, SameBook

\* The process exits by itself.
LEMMA ExitSound ==
  ASSUME Well(mgr), NEW o \in 1 .. Len(mgr.sessions), Exit(o)
  PROVE  Sound(mgr, mgr', {}) /\ KeepsHistory(mgr, mgr')
<1> DEFINE p == mgr.sessions[o].process
           P == [mgr.processes EXCEPT ![p] = "dead"]
           y == OnlyProcesses(mgr, P)
           x == WithSession(y, o, Gone(mgr.sessions[o]))
<1>0. p # 0
  BY DEF Exit
<1>1. /\ mgr \in Manager /\ SessionFit(mgr.sessions[o], Len(mgr.processes))
      /\ mgr.processes \in Seq(Process) /\ Len(mgr.processes) \in Nat
  BY ManagerFields DEF Well
<1>2. p \in 1 .. Len(mgr.processes)
  BY <1>0, <1>1 DEF SessionFit
<1>3. y = [mgr EXCEPT !.processes[p] = "dead"]
  BY DEF OnlyProcesses
<1>4. P \in Seq(Process)
  <2>1. "dead" \in Process
    BY DEF Process
  <2> HIDE DEF p
  <2> QED
    BY <1>1, <1>2, <2>1, ExceptSeq
<1> HIDE DEF p, P
<1>5. /\ y \in Manager /\ y.sessions = mgr.sessions /\ SameBook(mgr, y)
      /\ y.processes = P /\ y.killTimers = mgr.killTimers
  BY <1>1, <1>4, OnlyProcessesFields
<1> HIDE DEF y
<1>6. mgr' = Settled([y EXCEPT !.sessions[o].process = 0,
                               !.sessions[o].busy    = 0,
                               !.sessions[o].status  = "exited"], o)
  BY <1>3 DEF Exit, Settled, p
<1>7. mgr' = Settled(x, o)
  BY <1>5, <1>6, GoneFields
<1>8. Gone(mgr.sessions[o]) \in Session /\ Gone(mgr.sessions[o]).terminal = mgr.sessions[o].terminal
  BY <1>1, GoneFit DEF SessionFit
<1>9. /\ x \in Manager /\ x.sessions = [mgr.sessions EXCEPT ![o] = Gone(mgr.sessions[o])]
      /\ SameBook(y, x) /\ x.processes = P /\ x.killTimers = mgr.killTimers
  BY <1>5, <1>8, SessionFields
<1> HIDE DEF x
<1>10. LeftBy(mgr, x, o, "dead")
  BY <1>5, <1>8, <1>9 DEF LeftBy, Updates, SameBook, P, p
<1>11. LET n == Settled(x, o)
       IN  Well(n) /\ Leads(mgr, n, {}) /\ Bounded(n) /\ Polled(n)
  BY <1>0, <1>10, LeftBySettled DEF p
<1>12. Well(mgr') /\ Leads(mgr, mgr', {}) /\ Bounded(mgr') /\ Polled(mgr')
  BY <1>7, <1>11
<1>13. Moves(mgr, mgr', {})
  BY <1>12, LeadsMoves
<1> QED
  BY <1>12, <1>13 DEF Sound, Leads

\* Nothing but the processes, their timers and what is to be written changes: no
\* process starts, every SIGKILL is for a process there is.
LEMMA BookSound ==
  ASSUME NEW m, Well(m), NEW n \in Manager, NEW ks,
         n.table = m.table, n.sessions = m.sessions, n.untimely = m.untimely,
         n.detached = m.detached, n.polling = m.polling,
         Len(n.processes) = Len(m.processes),
         \A p \in 1 .. Len(m.processes) : n.processes[p] \in {"running", "deaf"} => m.processes[p] \in {"running", "deaf"},
         n.killTimers \subseteq m.killTimers,
         Escalates(m) => Escalates(n),
         \A k \in Terminals \ ks : Quiet(m, k) => Quiet(n, k)
  PROVE  Sound(m, n, ks)
<1>1. Well(n)
  BY DEF Well, Reached
<1>2. Moves(m, n, ks)
  BY WellLengths DEF Moves, Leaves, NoSession, Reached
<1>3. InactiveSet(n) = InactiveSet(m)
  BY DEF InactiveSet
<1> QED
  BY <1>1, <1>2, <1>3 DEF Sound, Bounded, Polled

\* enqueuePersistWrite: h is what terminal k's file will say.
WrittenNow(m, n, k, h) ==
    /\ n \in Manager
    /\ n.table = m.table /\ n.sessions = m.sessions /\ n.untimely = m.untimely
    /\ n.detached = m.detached /\ n.polling = m.polling
    /\ n.processes = m.processes /\ n.killTimers = m.killTimers
    /\ \A d : Latest(n, d, k) = h
    /\ \A l \in Terminals : l # k => /\ Quiet(m, l) => Quiet(n, l)
                                     /\ \A d : Latest(n, d, l) = Latest(m, d, l)

LEMMA WriteNowFields ==
  ASSUME NEW m \in Manager, NEW k \in Terminals, NEW h \in Text
  PROVE  WrittenNow(m, WriteNow(m, k, h), k, h)
<1> DEFINE n  == WriteNow(m, k, h)
           w  == [text |-> h, awaited |-> TRUE]
           pe == [m.pending EXCEPT ![k] = None]
           q  == Append(m.writing[k], w)
           wr == [m.writing EXCEPT ![k] = q]
<1>1. /\ m.pending \in [Terminals -> Text \cup {None}] /\ m.writing \in [Terminals -> Seq(WriteTask)]
      /\ m.writing[k] \in Seq(WriteTask)
  BY ManagerFields
<1>2. w \in WriteTask /\ w.text = h
  BY DEF WriteTask
<1>3. n = [m EXCEPT !.pending = pe, !.writing = wr]
  BY DEF WriteNow
<1> HIDE DEF w
<1>4. q \in Seq(WriteTask) /\ q # <<>> /\ q[Len(q)] = w
  <2>1. q \in Seq(WriteTask) /\ Len(q) = Len(m.writing[k]) + 1 /\ q[Len(m.writing[k]) + 1] = w /\ q # <<>>
    BY <1>1, <1>2, AppendElements
  <2> QED
    BY <2>1
<1> HIDE DEF q
<1>5. pe \in [Terminals -> Text \cup {None}] /\ wr \in [Terminals -> Seq(WriteTask)]
  BY <1>1, <1>4
<1>6. /\ pe[k] = None /\ wr[k] = q
      /\ \A l \in Terminals : l # k => pe[l] = m.pending[l] /\ wr[l] = m.writing[l]
  BY <1>1
<1> HIDE DEF n, pe, wr
<1>7. /\ n \in Manager
      /\ n.table = m.table /\ n.sessions = m.sessions /\ n.untimely = m.untimely
      /\ n.detached = m.detached /\ n.polling = m.polling
      /\ n.processes = m.processes /\ n.killTimers = m.killTimers
      /\ n.pending = pe /\ n.writing = wr
  BY <1>3, <1>5 DEF Manager
<1>8. \A d : Latest(n, d, k) = h
  BY <1>2, <1>4, <1>6, <1>7 DEF Latest
<1>9. \A l \in Terminals : l # k => /\ Quiet(m, l) => Quiet(n, l)
                                    /\ \A d : Latest(n, d, l) = Latest(m, d, l)
  BY <1>6, <1>7 DEF Latest, Quiet
<1> QED
  BY <1>7, <1>8, <1>9 DEF WrittenNow, n

\* What terminal k still had to write is written now.
LEMMA WriteNowSound ==
  ASSUME NEW m, Well(m), NEW k \in Terminals, m.pending[k] \in Text, m.pending[k] # None
  PROVE  LET n == WriteNow(m, k, m.pending[k])
         IN  Sound(m, n, {}) /\ KeepsHistory(m, n)
<1> DEFINE h == m.pending[k]
           n == WriteNow(m, k, h)
<1>0. m \in Manager /\ h \in Text
  BY DEF Well
<1> HIDE DEF h
<1>1. WrittenNow(m, n, k, h)
  BY <1>0, WriteNowFields
<1> HIDE DEF n
<1>2. \A d : Latest(m, d, k) = h
  BY DEF Latest, h
<1>3. ~Quiet(m, k)
  BY DEF Quiet, h
<1>4. Sound(m, n, {})
  BY <1>1, <1>3, BookSound DEF Escalates, WrittenNow
<1>5. KeepsHistory(m, n)
  BY <1>1, <1>2 DEF KeepsHistory, Attached, FitAt, WrittenNow
<1> QED
  BY <1>4, <1>5 DEF n, h

\* n keeps of m's histories all but terminal k's, and has none for k, nor has its
\* file once everything is written.
Empties(m, n, k) ==
    /\ \A l \in Terminals : Attached(m, l) => Attached(n, l)
    /\ \A l \in Terminals : l # k => \A d : FitAt(m, d, l) => FitAt(n, d, l)
    /\ Attached(m, k) => \A d : FitAt(n, d, k)

\* The history of session o is empty, and so its file will be.
LEMMA ResetSound ==
  ASSUME NEW m, Well(m), NEW o \in 1 .. Len(m.sessions), Reached(m, o)
  PROVE  LET n == Reset(m, o)
             k == m.sessions[o].terminal
         IN  /\ Sound(m, n, {k}) /\ Empties(m, n, k)
             /\ n.table = m.table /\ Len(n.sessions) = Len(m.sessions)
             /\ n.sessions[o].terminal = k
<1> DEFINE n == Reset(m, o)
           k == m.sessions[o].terminal
           s == [m.sessions[o] EXCEPT !.history = <<>>]
           x == WithSession(m, o, s)
<1>0. <<>> \in Text
  BY DEF Text
<1>1. /\ m \in Manager /\ SessionFit(m.sessions[o], Len(m.processes))
      /\ Len(m.sessions) \in Nat /\ Len(m.processes) \in Nat
      /\ m.killTimers \subseteq 1 .. Len(m.processes)
  BY ManagerFields DEF Well
<1>2. k \in Terminals
  BY <1>1 DEF SessionFit, Session
<1>3. /\ s \in Session /\ s.process = m.sessions[o].process /\ s.terminal = k
      /\ s.status = m.sessions[o].status /\ s.history = <<>> /\ s.busy = m.sessions[o].busy
  <2>1. m.sessions[o] \in Session
    BY <1>1 DEF SessionFit
  <2> QED
    BY <1>0, <2>1 DEF Session
<1>4. SessionFit(s, Len(m.processes))
  <2>1. HistoryLimit \in Nat /\ Len(<<>>) = 0
    BY TerminalAssumption
  <2> HIDE DEF s
  <2> QED
    BY <1>1, <1>3, <2>1 DEF SessionFit
<1>5. n = WriteNow(x, k, <<>>)
  BY DEF Reset, WithSession, WithSessions
<1> HIDE DEF s, k
<1>6. /\ x \in Manager /\ x.sessions = [m.sessions EXCEPT ![o] = s] /\ SameBook(m, x)
      /\ x.processes = m.processes /\ x.killTimers = m.killTimers
  BY <1>1, <1>3, SessionFields
<1> HIDE DEF x, n
<1>7. Updates(m, x, o, s)
  BY <1>3, <1>6 DEF Updates, SameBook, k
<1>8. Well(x)
  <2>1. \A p \in 1 .. Len(x.processes) : x.processes[p] \in {"running", "deaf"} =>
            \/ s.process = p
            \/ p \in 1 .. Len(m.processes) /\ m.processes[p] \in {"running", "deaf"} /\ m.sessions[o].process # p
    BY <1>3, <1>6
  <2>2. Len(m.processes) <= Len(x.processes) /\ x.killTimers \subseteq 1 .. Len(x.processes)
    BY <1>1, <1>6
  <2> QED
    BY <1>4, <1>6, <1>7, <2>1, <2>2, UpdateWell
<1>9. Moves(m, x, {k})
  <2>1. Escalates(m) => Escalates(x)
    BY <1>6 DEF Escalates
  <2>2. \A l \in Terminals \ {k} : Quiet(m, l) => Quiet(x, l)
    BY <1>6 DEF Quiet, SameBook
  <2> QED
    BY <1>3, <1>7, <2>1, <2>2, UpdateMoves
<1>10. Sound(m, x, {k})
  BY <1>3, <1>6, <1>7, <1>8, <1>9, UpdateSound DEF SameBook
<1>11. WrittenNow(x, n, k, <<>>)
  BY <1>0, <1>2, <1>5, <1>6, WriteNowFields
<1>12. Sound(x, n, {k})
  <2>1. \A l \in Terminals \ {k} : Quiet(x, l) => Quiet(n, l)
    BY <1>11 DEF WrittenNow
  <2>2. Escalates(x) => Escalates(n)
    BY <1>11 DEF WrittenNow, Escalates
  <2>3. /\ n \in Manager
        /\ n.table = x.table /\ n.sessions = x.sessions /\ n.untimely = x.untimely
        /\ n.detached = x.detached /\ n.polling = x.polling
        /\ n.processes = x.processes /\ n.killTimers = x.killTimers
    BY <1>11 DEF WrittenNow
  <2> QED
    BY <1>8, <2>1, <2>2, <2>3, BookSound
<1>13. Sound(m, n, {k})
  BY <1>10, <1>12, SoundOn
<1>14. /\ n.table = m.table /\ n.untimely = m.untimely /\ n.detached = m.detached
       /\ n.sessions = x.sessions
  BY <1>6, <1>11 DEF WrittenNow, SameBook
<1>15. /\ x.sessions[o] = s /\ Len(x.sessions) = Len(m.sessions)
       /\ \A q \in 1 .. Len(m.sessions) : q # o => x.sessions[q] = m.sessions[q]
       /\ \A q \in 1 .. Len(m.sessions) : x.sessions[q].terminal = m.sessions[q].terminal
  BY <1>7, UpdateFacts
<1>16. Empties(m, n, k)
  <2>1. \A l \in Terminals : Attached(m, l) => Attached(n, l)
    BY <1>14 DEF Attached
  <2>2. ASSUME NEW l \in Terminals, l # k, NEW d, FitAt(m, d, l) PROVE FitAt(n, d, l)
    <3>1. Latest(n, d, l) = Latest(x, d, l)
      BY <1>11, <2>2 DEF WrittenNow
    <3>2. Latest(x, d, l) = Latest(m, d, l)
      BY <1>6 DEF Latest, SameBook
    <3>3. \A q \in Elements(m.table) : n.sessions[q].terminal = l => n.sessions[q] = m.sessions[q]
      BY <1>14, <1>15, <2>2, WellLengths DEF k
    <3> QED
      BY <1>14, <2>2, <3>1, <3>2, <3>3 DEF FitAt
  <2>3. ASSUME Attached(m, k), NEW d PROVE FitAt(n, d, k)
    <3>1. Latest(n, d, k) = <<>>
      BY <1>11 DEF WrittenNow
    <3>2. ASSUME k \notin m.untimely, NEW q \in Elements(m.table), n.sessions[q].terminal = k
          PROVE  n.sessions[q].history = <<>>
      <4>1. o \in Elements(m.table)
        BY <3>2 DEF Reached, k
      <4>2. q \in 1 .. Len(m.sessions) /\ m.sessions[q].terminal = k
        BY <1>14, <1>15, <3>2, WellLengths
      <4>3. q = o
        BY <4>1, <4>2 DEF Well, k
      <4> QED
        BY <1>3, <1>14, <1>15, <4>3
    <3> QED
      BY <1>14, <2>3, <3>1, <3>2 DEF FitAt, Attached
  <2> QED
    BY <2>1, <2>2, <2>3 DEF Empties
<1> QED
  BY <1>3, <1>13, <1>14, <1>15, <1>16 DEF n, k

\* A session without a process enters the state v.
Now(s, v) == [s EXCEPT !.status = v, !.busy = 0]

LEMMA NowFit ==
  ASSUME NEW n \in Nat, NEW s, SessionFit(s, n), s.process = 0, NEW v \in {"starting", "error"}
  PROVE  LET r == Now(s, v)
         IN  /\ SessionFit(r, n) /\ r \in Session /\ r.process = 0 /\ r.history = s.history
             /\ r.status = v /\ r.terminal = s.terminal
<1> DEFINE r == Now(s, v)
<1>1. s \in Session /\ Len(s.history) <= HistoryLimit
  BY DEF SessionFit
<1>2. /\ r \in Session /\ r.process = 0 /\ r.busy = 0 /\ r.status = v
      /\ r.history = s.history /\ r.terminal = s.terminal
  BY <1>1 DEF Now, Session
<1> HIDE DEF r
<1>3. SessionFit(r, n)
  BY <1>1, <1>2 DEF SessionFit
<1> QED
  BY <1>2, <1>3 DEF r

LEMMA NowFields ==
  ASSUME NEW m \in Manager, NEW o \in 1 .. Len(m.sessions), NEW v \in {"starting", "error"}
  PROVE  [m EXCEPT !.sessions[o].status = v, !.sessions[o].busy = 0]
             = WithSession(m, o, Now(m.sessions[o], v))
<1> DEFINE s == [m.sessions[o] EXCEPT !.status = v]
           r == IsBusy(s, 0)
           a == [m EXCEPT !.sessions[o].status = v]
<1>1. s \in Session /\ r \in Session
  <2>1. m.sessions[o] \in Session
    BY ManagerFields, ElementOfSeq
  <2> QED
    BY <2>1 DEF Session, IsBusy
<1>2. r = Now(m.sessions[o], v)
  BY DEF Now, IsBusy
<1>3. a = WithSession(m, o, s)
  BY DEF WithSession, WithSessions
<1>4. [a EXCEPT !.sessions[o].busy = 0] = SetBusy(a, o, 0)
  BY DEF SetBusy
<1> HIDE DEF a, s
<1>5. SetBusy(WithSession(m, o, s), o, 0) = WithSession(m, o, r)
  BY <1>1, FieldAgain
<1> HIDE DEF r
<1> QED
  BY <1>2, <1>3, <1>4, <1>5 DEF a

LEMMA NowSound ==
  ASSUME NEW m, Well(m), NEW o \in 1 .. Len(m.sessions), m.sessions[o].process = 0,
         NEW v \in {"starting", "error"}
  PROVE  LET n == WithSession(m, o, Now(m.sessions[o], v))
         IN  /\ Sound(m, n, {}) /\ KeepsHistory(m, n)
             /\ n.table = m.table /\ Len(n.sessions) = Len(m.sessions)
             /\ n.sessions[o].process = 0 /\ n.sessions[o].history = m.sessions[o].history
             /\ n.pending = m.pending /\ n.writing = m.writing
<1> DEFINE s == Now(m.sessions[o], v)
           n == WithSession(m, o, s)
<1>1. /\ m \in Manager /\ SessionFit(m.sessions[o], Len(m.processes))
      /\ Len(m.sessions) \in Nat /\ Len(m.processes) \in Nat
      /\ m.killTimers \subseteq 1 .. Len(m.processes)
  BY ManagerFields DEF Well
<1>2. /\ SessionFit(s, Len(m.processes)) /\ s \in Session /\ s.process = 0
      /\ s.history = m.sessions[o].history /\ s.status = v /\ s.terminal = m.sessions[o].terminal
  BY <1>1, NowFit
<1> HIDE DEF s
<1>3. /\ n \in Manager /\ n.sessions = [m.sessions EXCEPT ![o] = s] /\ SameBook(m, n)
      /\ n.processes = m.processes /\ n.killTimers = m.killTimers
  BY <1>1, <1>2, SessionFields
<1> HIDE DEF n
<1>4. Updates(m, n, o, s)
  BY <1>2, <1>3 DEF Updates, SameBook
<1>5. Well(n)
  <2>1. \A p \in 1 .. Len(n.processes) : n.processes[p] \in {"running", "deaf"} =>
            \/ s.process = p
            \/ p \in 1 .. Len(m.processes) /\ m.processes[p] \in {"running", "deaf"} /\ m.sessions[o].process # p
    BY <1>3
  <2>2. Len(m.processes) <= Len(n.processes) /\ n.killTimers \subseteq 1 .. Len(n.processes)
    BY <1>1, <1>3
  <2> QED
    BY <1>2, <1>3, <1>4, <2>1, <2>2, UpdateWell
<1>6. Moves(m, n, {})
  <2>1. Escalates(m) => Escalates(n)
    BY <1>3 DEF Escalates
  <2>2. \A l \in Terminals : Quiet(m, l) => Quiet(n, l)
    BY <1>3 DEF Quiet, SameBook
  <2> QED
    BY <1>2, <1>4, <2>1, <2>2, UpdateMoves
<1>7. Sound(m, n, {})
  <2>1. s.status # "running" /\ m.sessions[o].status # "running"
    BY <1>1, <1>2 DEF SessionFit
  <2> QED
    BY <1>3, <1>4, <1>5, <1>6, <2>1, UpdateSound DEF SameBook
<1>8. KeepsHistory(m, n)
  BY <1>2, <1>3, <1>4, UpdateHistory DEF SameBook
<1>9. n.sessions[o] = s /\ Len(n.sessions) = Len(m.sessions)
  BY <1>4, UpdateFacts
<1> QED
  BY <1>2, <1>3, <1>7, <1>8, <1>9 DEF n, s, SameBook

\* startSession up to the spawn: the session has no process then.
LEMMA BeginStartSound ==
  ASSUME NEW m, Well(m), NEW o \in 1 .. Len(m.sessions)
  PROVE  LET n == BeginStart(m, o)
         IN  /\ Sound(m, n, {}) /\ KeepsHistory(m, n)
             /\ Len(n.sessions) = Len(m.sessions) /\ n.sessions[o].process = 0
             /\ o \in Elements(m.table) => o \in Elements(n.table)
<1> DEFINE a == Stop(m, o)
           b == WithSession(a, o, Now(a.sessions[o], "starting"))
           n == Touch(b, o)
<1>1. /\ Sound(m, a, {}) /\ KeepsHistory(m, a) /\ Well(a)
      /\ Spares(m, a, o) /\ a.sessions[o].process = 0
  BY StopSound, StopKeeps
<1> HIDE DEF a
<1>2. o \in 1 .. Len(a.sessions) /\ Len(a.sessions) = Len(m.sessions) /\ a \in Manager
  BY <1>1 DEF Spares, Well
<1>3. BeginStart(m, o) = n
  <2>1. BeginStart(m, o) = Touch([a EXCEPT !.sessions[o].status = "starting",
                                           !.sessions[o].busy   = 0], o)
    BY DEF BeginStart, a
  <2> QED
    BY <1>2, <2>1, NowFields
<1>4. /\ Sound(a, b, {}) /\ KeepsHistory(a, b) /\ b.table = a.table
      /\ Len(b.sessions) = Len(a.sessions) /\ b.sessions[o].process = 0
  BY <1>1, <1>2, NowSound
<1> HIDE DEF b
<1>5. Well(b)
  BY <1>4 DEF Sound
<1>6. /\ Sound(b, n, {}) /\ KeepsHistory(b, n)
      /\ n.sessions = b.sessions /\ Elements(n.table) = Elements(b.table)
  BY <1>5, TouchSound, TouchKeeps
<1> HIDE DEF n
<1>7. Sound(m, n, {})
  <2>1. Sound(m, b, {})
    BY <1>1, <1>4, SoundOn
  <2> QED
    BY <1>6, <2>1, SoundOn
<1>8. KeepsHistory(m, n)
  <2>1. KeepsHistory(m, b)
    BY <1>1, <1>4, KeepsHistoryOn
  <2> QED
    BY <1>6, <2>1, KeepsHistoryOn
<1> QED
  BY <1>1, <1>2, <1>3, <1>4, <1>6, <1>7, <1>8 DEF Spares

LEMMA StartFailedSound ==
  ASSUME NEW m, Well(m), NEW o \in 1 .. Len(m.sessions), m.sessions[o].process = 0
  PROVE  Sound(m, StartFailed(m, o), {}) /\ KeepsHistory(m, StartFailed(m, o))
<1> DEFINE b == WithSession(m, o, Now(m.sessions[o], "error"))
           n == Settled(b, o)
<1>1. m \in Manager
  BY DEF Well
<1>2. StartFailed(m, o) = n
  <2>1. StartFailed(m, o) = Settled([m EXCEPT !.sessions[o].status = "error",
                                              !.sessions[o].busy   = 0], o)
    BY DEF StartFailed, Settled
  <2> QED
    BY <1>1, <2>1, NowFields
<1>3. Sound(m, b, {}) /\ KeepsHistory(m, b)
  BY NowSound
<1> HIDE DEF b
<1>4. Sound(b, n, {}) /\ KeepsHistory(b, n)
  BY <1>3, SettledSound DEF Sound
<1> HIDE DEF n
<1> QED
  BY <1>2, <1>3, <1>4, SoundOn, KeepsHistoryOn

\* startSession after a spawn: the session has a new process, and is polled.
LEMMA StartedSound ==
  ASSUME NEW m, Well(m), NEW o \in 1 .. Len(m.sessions), m.sessions[o].process = 0, Reached(m, o),
         NEW shell \in {"running", "deaf"}
  PROVE  /\ Sound(m, Started(m, o, shell), {m.sessions[o].terminal})
         /\ KeepsHistory(m, Started(m, o, shell))
<1> DEFINE k == m.sessions[o].terminal
           L == Len(m.processes)
           N == L + 1
           P == Append(m.processes, shell)
           y == OnlyProcesses(m, P)
           r == [m.sessions[o] EXCEPT !.process = N]
           s == InStatus(r, "running")
           z == [y EXCEPT !.sessions[o].process = N]
           x == WithSession(y, o, s)
           a == Touch(x, o)
           n == Watch(a)
<1>1. /\ m \in Manager /\ SessionFit(m.sessions[o], L)
      /\ m.processes \in Seq(Process) /\ L \in Nat
      /\ Len(m.sessions) \in Nat
      /\ m.killTimers \subseteq 1 .. L
  BY ManagerFields DEF Well
<1>2. /\ P \in Seq(Process) /\ Len(P) = N /\ P[N] = shell
      /\ \A i \in 1 .. L : P[i] = m.processes[i]
  <2>1. shell \in Process
    BY DEF Process
  <2> QED
    BY <1>1, <2>1, AppendElements
<1>3. /\ r \in Session /\ s \in Session /\ s.process = N /\ s.status = "running" /\ s.terminal = k
      /\ s.history = m.sessions[o].history /\ s.busy = m.sessions[o].busy
  <2>1. m.sessions[o] \in Session /\ N \in Nat
    BY <1>1 DEF SessionFit
  <2> HIDE DEF N
  <2> QED
    BY <2>1 DEF Session, InStatus
<1>4. SessionFit(s, N)
  <2>1. N \in 0 .. N /\ N # 0 /\ N \in Nat
    BY <1>1
  <2> HIDE DEF s, r, N
  <2> QED
    BY <1>1, <1>3, <2>1 DEF SessionFit
<1>5. Started(m, o, shell) = Watch(Touch(SetStatus(z, o, "running"), o))
  BY DEF Started, SetStatus, OnlyProcesses
<1>6. z = WithSession(y, o, r)
  <2>1. y.sessions = m.sessions
    BY <1>1, <1>2, OnlyProcessesFields
  <2> HIDE DEF y, N
  <2> QED
    BY <2>1 DEF WithSession, WithSessions
<1> HIDE DEF z, P, r, k
<1>7. /\ y \in Manager /\ y.sessions = m.sessions /\ SameBook(m, y)
      /\ y.processes = P /\ y.killTimers = m.killTimers
  BY <1>1, <1>2, OnlyProcessesFields
<1> HIDE DEF y
<1>8. SetStatus(z, o, "running") = x
  <2>1. y \in Manager /\ o \in 1 .. Len(y.sessions) /\ r \in Session /\ InStatus(r, "running") \in Session
    BY <1>3, <1>7
  <2>2. SetStatus(WithSession(y, o, r), o, "running") = WithSession(y, o, InStatus(r, "running"))
    BY <2>1, FieldAgain
  <2> QED
    BY <1>6, <2>2
<1> HIDE DEF s
<1>9. /\ x \in Manager /\ x.sessions = [m.sessions EXCEPT ![o] = s] /\ SameBook(y, x)
      /\ x.processes = P /\ x.killTimers = m.killTimers
  BY <1>3, <1>7, SessionFields
<1> HIDE DEF x
<1>10. Updates(m, x, o, s)
  BY <1>3, <1>7, <1>9 DEF Updates, SameBook, k
<1>11. Well(x)
  <2>1. \A p \in 1 .. Len(x.processes) : x.processes[p] \in {"running", "deaf"} =>
            \/ s.process = p
            \/ p \in 1 .. Len(m.processes) /\ m.processes[p] \in {"running", "deaf"} /\ m.sessions[o].process # p
    <3>1. \A p \in 1 .. N : p = N \/ p \in 1 .. L
      BY <1>1
    <3>2. \A p \in 1 .. L : m.sessions[o].process # p
      OBVIOUS
    <3> HIDE DEF N
    <3> QED
      BY <1>2, <1>3, <1>9, <3>1, <3>2
  <2>2. Len(m.processes) <= Len(x.processes) /\ x.killTimers \subseteq 1 .. Len(x.processes)
    BY <1>1, <1>2, <1>9
  <2>3. Len(x.processes) = N
    BY <1>2, <1>9
  <2> HIDE DEF N
  <2> QED
    BY <1>4, <1>10, <2>1, <2>2, <2>3, UpdateWell
<1> HIDE DEF N, L
<1>12. Moves(m, x, {k})
  <2>1. Escalates(m) => Escalates(x)
    <3>1. ASSUME NEW p \in 1 .. Len(x.processes), x.processes[p] = "signalled"
          PROVE  p \in 1 .. Len(m.processes) /\ m.processes[p] = "signalled"
      <4>1. \A q \in 1 .. N : q = N \/ q \in 1 .. L
        BY <1>1 DEF N
      <4> QED
        BY <1>2, <1>9, <3>1, <4>1 DEF L
    <3> QED
      BY <1>9, <3>1 DEF Escalates
  <2>2. \A l \in Terminals : Quiet(m, l) => Quiet(x, l)
    BY <1>7, <1>9 DEF Quiet, SameBook
  <2>3. m.sessions[o].terminal \in {k}
    BY DEF k
  <2> QED
    BY <1>10, <2>1, <2>2, <2>3, UpdateMoves
<1>13. Bounded(m) => Bounded(x)
  BY <1>3, <1>10, UpdateInactive, BoundedSubset
<1>14. KeepsHistory(m, x)
  BY <1>3, <1>7, <1>9, <1>10, UpdateHistory DEF SameBook
<1>15. Sound(x, a, {}) /\ KeepsHistory(x, a)
  BY <1>11, TouchSound
<1> HIDE DEF a
<1>16. Sound(a, n, {}) /\ KeepsHistory(a, n) /\ Polled(n)
  BY <1>15, WatchSound DEF Sound
<1> HIDE DEF n
<1>17. Sound(x, n, {k})
  BY <1>11, <1>15, <1>16, SoundOn, SoundWider
<1>18. Sound(m, n, {k})
  <2>1. Well(n) /\ Moves(x, n, {k}) /\ (Bounded(x) => Bounded(n))
    BY <1>17 DEF Sound
  <2>2. Moves(m, n, {k})
    BY <1>11, <1>12, <2>1, MovesOn
  <2> QED
    BY <1>13, <1>16, <2>1, <2>2 DEF Sound
<1>19. KeepsHistory(m, n)
  BY <1>14, <1>15, <1>16, KeepsHistoryOn
<1>20. Started(m, o, shell) = n
  BY <1>5, <1>8 DEF n, a
<1> QED
  BY <1>18, <1>19, <1>20 DEF k

\* The session's shell has children, or has none any more.
LEMMA AnswerSound ==
  ASSUME NEW m, Well(m), NEW o \in 1 .. Len(m.sessions), NEW b \in {0, m.sessions[o].process}
  PROVE  LET n == Touch([m EXCEPT !.sessions[o].busy = b], o)
         IN  Sound(m, n, {}) /\ KeepsHistory(m, n)
<1> DEFINE s == [m.sessions[o] EXCEPT !.busy = b]
           x == WithSession(m, o, s)
           n == Touch(x, o)
<1>1. /\ m \in Manager /\ SessionFit(m.sessions[o], Len(m.processes))
      /\ Len(m.sessions) \in Nat /\ Len(m.processes) \in Nat
      /\ m.killTimers \subseteq 1 .. Len(m.processes)
  BY ManagerFields DEF Well
<1>2. /\ s \in Session /\ s.process = m.sessions[o].process /\ s.status = m.sessions[o].status
      /\ s.terminal = m.sessions[o].terminal /\ s.history = m.sessions[o].history /\ s.busy = b
  <2>1. m.sessions[o] \in Session /\ b \in Nat
    BY <1>1 DEF SessionFit
  <2> QED
    BY <2>1 DEF Session
<1>3. [m EXCEPT !.sessions[o].busy = b] = x
  BY DEF WithSession, WithSessions
<1> HIDE DEF s
<1>4. SessionFit(s, Len(m.processes))
  BY <1>1, <1>2 DEF SessionFit
<1>5. /\ x \in Manager /\ x.sessions = [m.sessions EXCEPT ![o] = s] /\ SameBook(m, x)
      /\ x.processes = m.processes /\ x.killTimers = m.killTimers
  BY <1>1, <1>2, SessionFields
<1> HIDE DEF x
<1>6. Updates(m, x, o, s)
  BY <1>2, <1>5 DEF Updates, SameBook
<1>7. Well(x)
  <2>1. \A p \in 1 .. Len(x.processes) : x.processes[p] \in {"running", "deaf"} =>
            \/ s.process = p
            \/ p \in 1 .. Len(m.processes) /\ m.processes[p] \in {"running", "deaf"} /\ m.sessions[o].process # p
    BY <1>2, <1>5
  <2>2. /\ Len(m.processes) <= Len(x.processes) /\ x.killTimers \subseteq 1 .. Len(x.processes)
        /\ s.process # 0 => Reached(m, o)
    BY <1>1, <1>2, <1>5 DEF Well
  <2> QED
    BY <1>4, <1>5, <1>6, <2>1, <2>2, UpdateWell
<1>8. Moves(m, x, {})
  <2>1. Escalates(m) => Escalates(x)
    BY <1>5 DEF Escalates
  <2>2. \A l \in Terminals : Quiet(m, l) => Quiet(x, l)
    BY <1>5 DEF Quiet, SameBook
  <2> QED
    BY <1>2, <1>6, <2>1, <2>2, UpdateMoves
<1>9. Sound(m, x, {})
  BY <1>2, <1>5, <1>6, <1>7, <1>8, UpdateSound DEF SameBook
<1>10. KeepsHistory(m, x)
  BY <1>2, <1>5, <1>6, UpdateHistory DEF SameBook
<1>11. Sound(x, n, {}) /\ KeepsHistory(x, n)
  BY <1>7, TouchSound
<1> HIDE DEF n
<1>12. Sound(m, n, {}) /\ KeepsHistory(m, n)
  BY <1>9, <1>10, <1>11, SoundOn, KeepsHistoryOn
<1> QED
  BY <1>3, <1>12 DEF n

\* A capped history is a history of at most the limit.
LEMMA CappedFits ==
  ASSUME NEW h \in Text
  PROVE  Capped(h) \in Text /\ Len(Capped(h)) <= HistoryLimit
<1>0. Len(h) \in Nat /\ HistoryLimit \in Nat /\ HistoryLimit > 0 /\ h \in Seq(Nat)
  BY TerminalAssumption DEF Text
<1>1. CASE Len(h) <= HistoryLimit
  BY <1>1 DEF Capped
<1>2. CASE ~(Len(h) <= HistoryLimit)
  <2> DEFINE a == Len(h) - HistoryLimit + 1
  <2>1. a \in 1 .. Len(h) + 1 /\ Len(h) \in a - 1 .. Len(h) /\ Len(h) - a + 1 = HistoryLimit /\ a <= Len(h)
    BY <1>0, <1>2
  <2>2. Capped(h) = SubSeq(h, a, Len(h))
    BY <1>2 DEF Capped
  <2> HIDE DEF a
  <2>3. SubSeq(h, a, Len(h)) \in Seq(Nat) /\ Len(SubSeq(h, a, Len(h))) = Len(h) - a + 1
    BY <1>0, <2>1, SubSeqProperties
  <2> QED
    BY <1>0, <2>1, <2>2, <2>3 DEF Text
<1> QED
  BY <1>1, <1>2

\* The manager with another text to be persisted for terminal k.
WithPending(m, k, h) == [m EXCEPT !.pending[k] = h]

LEMMA PendingFields ==
  ASSUME NEW m \in Manager, NEW k \in Terminals, NEW h \in Text \cup {None}
  PROVE  LET n == WithPending(m, k, h)
         IN  /\ n \in Manager /\ n.table = m.table /\ n.sessions = m.sessions
             /\ n.processes = m.processes /\ n.killTimers = m.killTimers /\ n.polling = m.polling
             /\ n.writing = m.writing /\ n.detached = m.detached /\ n.untimely = m.untimely
             /\ n.pending = [m.pending EXCEPT ![k] = h]
<1> DEFINE n == WithPending(m, k, h)
           pe == [m.pending EXCEPT ![k] = h]
<1>1. pe \in [Terminals -> Text \cup {None}]
  BY ManagerFields
<1>2. n = [m EXCEPT !.pending = pe]
  BY DEF WithPending
<1> HIDE DEF n, pe
<1>3. /\ n \in Manager /\ n.table = m.table /\ n.sessions = m.sessions
      /\ n.processes = m.processes /\ n.killTimers = m.killTimers /\ n.polling = m.polling
      /\ n.writing = m.writing /\ n.detached = m.detached /\ n.untimely = m.untimely
      /\ n.pending = pe
  BY <1>1, <1>2 DEF Manager
<1> QED
  BY <1>3 DEF n, pe

\* Output: what the session shows is also what will be written.
LEMMA OutputSound ==
  ASSUME Well(mgr), NEW o \in 1 .. Len(mgr.sessions), Output(o),
         budget.outputs \in Nat, budget.outputs <= MaxOutputs
  PROVE  Sound(mgr, mgr', {}) /\ KeepsHistory(mgr, mgr')
<1> DEFINE k == mgr.sessions[o].terminal
           c == 2 * (MaxOutputs - budget.outputs)
           h == mgr.sessions[o].history \o <<c + 1, c + 2>>
           text == Capped(h)
           s == [mgr.sessions[o] EXCEPT !.history = text]
           y == WithSession(mgr, o, s)
           x == WithPending(y, k, text)
           n == Touch(x, o)
<1>1. /\ mgr \in Manager /\ SessionFit(mgr.sessions[o], Len(mgr.processes))
      /\ Len(mgr.sessions) \in Nat /\ Len(mgr.processes) \in Nat
      /\ mgr.killTimers \subseteq 1 .. Len(mgr.processes)
      /\ mgr.sessions[o].process # 0
      /\ Reached(mgr, o)
  BY ManagerFields DEF Well, Output
<1>2. mgr' = n
  <2>1. mgr' = Touch([mgr EXCEPT !.sessions[o].history = text, !.pending[k] = text], o)
    BY DEF Output
  <2>2. [mgr EXCEPT !.sessions[o].history = text, !.pending[k] = text] = x
    BY DEF WithPending, WithSession, WithSessions
  <2> QED
    BY <2>1, <2>2
<1>3. text \in Text /\ Len(text) <= HistoryLimit /\ text # None /\ k \in Terminals
  <2>1. c \in Nat /\ mgr.sessions[o].history \in Seq(Nat) /\ k \in Terminals
    BY <1>1, TerminalAssumption DEF SessionFit, Session, Text
  <2> HIDE DEF c, k
  <2>2. <<c + 1, c + 2>> \in Seq(Nat)
    BY <2>1
  <2>3. h \in Text
    BY <2>1, <2>2, ConcatProperties DEF Text
  <2> HIDE DEF h
  <2> QED
    BY <2>1, <2>3, CappedFits, TerminalAssumption DEF Text
<1> HIDE DEF text, n
<1>4. /\ s \in Session /\ s.process = mgr.sessions[o].process /\ s.terminal = k
      /\ s.status = mgr.sessions[o].status /\ s.history = text /\ s.busy = mgr.sessions[o].busy
  <2>1. mgr.sessions[o] \in Session
    BY <1>1 DEF SessionFit
  <2> QED
    BY <1>3, <2>1 DEF Session
<1> HIDE DEF s, k
<1>5. SessionFit(s, Len(mgr.processes))
  BY <1>1, <1>3, <1>4 DEF SessionFit
<1>6. /\ y \in Manager /\ y.sessions = [mgr.sessions EXCEPT ![o] = s] /\ SameBook(mgr, y)
      /\ y.processes = mgr.processes /\ y.killTimers = mgr.killTimers
  BY <1>1, <1>4, SessionFields
<1> HIDE DEF y
<1>7. /\ x \in Manager /\ x.table = y.table /\ x.sessions = y.sessions
      /\ x.processes = y.processes /\ x.killTimers = y.killTimers /\ x.polling = y.polling
      /\ x.writing = y.writing /\ x.detached = y.detached /\ x.untimely = y.untimely
      /\ x.pending = [y.pending EXCEPT ![k] = text]
  BY <1>3, <1>6, PendingFields
<1> HIDE DEF x
<1>8. Updates(mgr, x, o, s)
  BY <1>4, <1>6, <1>7 DEF Updates, SameBook, k
<1>9. /\ x.pending[k] = text
      /\ \A l \in Terminals : l # k => x.pending[l] = mgr.pending[l]
      /\ x.writing = mgr.writing /\ x.polling = mgr.polling
  <2>1. mgr.pending \in [Terminals -> Text \cup {None}]
    BY <1>1, ManagerFields
  <2> QED
    BY <1>3, <1>6, <1>7, <2>1 DEF SameBook
<1>10. Well(x)
  <2>1. \A p \in 1 .. Len(x.processes) : x.processes[p] \in {"running", "deaf"} =>
            \/ s.process = p
            \/ p \in 1 .. Len(mgr.processes) /\ mgr.processes[p] \in {"running", "deaf"} /\ mgr.sessions[o].process # p
    BY <1>4, <1>6, <1>7
  <2>2. Len(mgr.processes) <= Len(x.processes) /\ x.killTimers \subseteq 1 .. Len(x.processes)
    BY <1>1, <1>6, <1>7
  <2> QED
    BY <1>1, <1>5, <1>6, <1>7, <1>8, <2>1, <2>2, UpdateWell
<1>11. Moves(mgr, x, {})
  <2>1. Escalates(mgr) => Escalates(x)
    BY <1>6, <1>7 DEF Escalates
  <2>2. ASSUME NEW l \in Terminals, l \notin x.untimely, NoSession(mgr, l), Quiet(mgr, l)
        PROVE  Quiet(x, l)
    <3>1. l # k
      <4>1. x.untimely = mgr.untimely
        BY <1>8 DEF Updates
      <4> QED
        BY <1>1, <2>2, <4>1 DEF Reached, NoSession, k
    <3> QED
      BY <1>9, <2>2, <3>1 DEF Quiet
  <2> QED
    BY <1>4, <1>8, <2>1, <2>2, UpdateMoves
<1>12. Sound(mgr, x, {})
  BY <1>4, <1>8, <1>9, <1>10, <1>11, UpdateSound
<1>13. KeepsHistory(mgr, x)
  <2>0. /\ x.table = mgr.table /\ x.untimely = mgr.untimely /\ x.detached = mgr.detached
        /\ x.sessions[o] = s
        /\ \A q \in 1 .. Len(mgr.sessions) : q # o => x.sessions[q] = mgr.sessions[q]
        /\ \A q \in 1 .. Len(mgr.sessions) : x.sessions[q].terminal = mgr.sessions[q].terminal
    BY <1>8, UpdateFacts DEF Updates
  <2>1. \A l \in Terminals : Attached(mgr, l) => Attached(x, l)
    BY <2>0 DEF Attached
  <2>2. ASSUME NEW l \in Terminals, NEW d, FitAt(mgr, d, l) PROVE FitAt(x, d, l)
    <3>1. CASE l # k
      <4>1. Latest(x, d, l) = Latest(mgr, d, l)
        BY <1>9, <3>1 DEF Latest
      <4>2. \A q \in Elements(mgr.table) : x.sessions[q].terminal = l => x.sessions[q] = mgr.sessions[q]
        BY <1>4, <2>0, <3>1, WellLengths
      <4> QED
        BY <2>0, <2>2, <4>1, <4>2 DEF FitAt
    <3>2. CASE l = k
      <4>1. Latest(x, d, k) = text
        BY <1>3, <1>9 DEF Latest
      <4>2. ASSUME k \notin mgr.untimely, NEW q \in Elements(mgr.table), x.sessions[q].terminal = k
            PROVE  x.sessions[q].history = text
        <5>1. o \in Elements(mgr.table)
          BY <1>1, <4>2 DEF Reached, k
        <5>2. q \in 1 .. Len(mgr.sessions) /\ mgr.sessions[q].terminal = k
          BY <2>0, <4>2, WellLengths
        <5>3. q = o
          BY <5>1, <5>2 DEF Well, k
        <5> QED
          BY <1>4, <2>0, <5>3
      <4> QED
        BY <2>0, <2>2, <3>2, <4>1, <4>2 DEF FitAt
    <3> QED
      BY <3>1, <3>2
  <2> QED
    BY <2>1, <2>2 DEF KeepsHistory
<1>14. Sound(x, n, {}) /\ KeepsHistory(x, n)
  BY <1>10, TouchSound DEF n
<1> QED
  BY <1>2, <1>12, <1>13, <1>14, SoundOn, KeepsHistoryOn

\* n keeps of m's histories all but terminal k's, and k's session shows h.
Shows(m, n, k, h) ==
    /\ \A l \in Terminals : Attached(m, l) => Attached(n, l)
    /\ \A l \in Terminals : l # k => \A d : FitAt(m, d, l) => FitAt(n, d, l)
    /\ \A d : Attached(m, k) /\ Latest(m, d, k) = h => FitAt(n, d, k)

LEMMA ShowsOn ==
  ASSUME NEW m, NEW n, NEW p, NEW k \in Terminals, NEW h, Shows(m, n, k, h), KeepsHistory(n, p)
  PROVE  Shows(m, p, k, h)
  BY DEF Shows, KeepsHistory

\* The manager with another table and other sessions.
WithTable(m, S, t) == [m EXCEPT !.sessions = S, !.table = t]

LEMMA WithTableFields ==
  ASSUME NEW m \in Manager, NEW S \in Seq(Session), NEW t \in Seq(Nat)
  PROVE  LET n == WithTable(m, S, t)
         IN  /\ n \in Manager /\ n.sessions = S /\ n.table = t
             /\ n.processes = m.processes /\ n.killTimers = m.killTimers /\ n.polling = m.polling
             /\ n.pending = m.pending /\ n.writing = m.writing /\ n.detached = m.detached
             /\ n.untimely = m.untimely
  BY DEF Manager, WithTable

\* A new session of terminal k, which shows h.
Fresh(k, h) == [terminal |-> k, status |-> "starting", process |-> 0, history |-> h, busy |-> 0]

WithFresh(m, k, h) ==
    WithTable(m, Append(m.sessions, Fresh(k, h)), Append(m.table, Len(m.sessions) + 1))

\* It is in the map, the last one touched.
Joined(m, x, k, h, N) ==
    /\ Well(x) /\ Moves(m, x, {k}) /\ Shows(m, x, k, h) /\ (Polled(m) => Polled(x))
    /\ Len(x.sessions) = N /\ x.sessions[N].terminal = k
    /\ Len(x.table) > 0 /\ x.table[Len(x.table)] = N

LEMMA NewSession ==
  ASSUME NEW m, Well(m), NEW k \in Terminals, NoSession(m, k),
         NEW h \in Text, Len(h) <= HistoryLimit
  PROVE  Joined(m, WithFresh(m, k, h), k, h, Len(m.sessions) + 1)
<1> DEFINE N == Len(m.sessions) + 1
           s == Fresh(k, h)
           S == Append(m.sessions, s)
           t == Append(m.table, N)
           x == WithTable(m, S, t)
<1>1. /\ m \in Manager /\ m.sessions \in Seq(Session) /\ m.table \in Seq(Nat)
      /\ Len(m.sessions) \in Nat /\ Len(m.table) \in Nat /\ Len(m.processes) \in Nat
      /\ Elements(m.table) \subseteq 1 .. Len(m.sessions) /\ NoDups(m.table)
  BY ManagerFields DEF Well
<1>2. N \in Nat /\ N \notin 1 .. Len(m.sessions) /\ N \notin Elements(m.table)
  BY <1>1
<1>3. s \in Session /\ s.process = 0 /\ s.terminal = k /\ s.status = "starting"
      /\ s.history = h /\ s.busy = 0
  BY DEF Session, Fresh
<1> HIDE DEF s
<1>4. SessionFit(s, Len(m.processes))
  BY <1>1, <1>3 DEF SessionFit
<1>5. /\ S \in Seq(Session) /\ Len(S) = N /\ S[N] = s
      /\ \A q \in 1 .. Len(m.sessions) : S[q] = m.sessions[q]
  BY <1>1, <1>3, AppendElements
<1>6. /\ t \in Seq(Nat) /\ Len(t) > 0 /\ t[Len(t)] = N /\ NoDups(t)
      /\ Elements(t) = Elements(m.table) \cup {N}
  <2>1. /\ t \in Seq(Nat) /\ Len(t) = Len(m.table) + 1 /\ t[Len(m.table) + 1] = N /\ NoDups(t)
        /\ Elements(t) = Elements(m.table) \cup {N}
    BY <1>1, <1>2, AppendElements
  <2> HIDE DEF t
  <2> QED
    BY <1>1, <2>1
<1>7. x = WithFresh(m, k, h)
  BY DEF WithFresh, s
<1> HIDE DEF S, t
<1>8. /\ x \in Manager /\ x.sessions = S /\ x.table = t
      /\ x.processes = m.processes /\ x.killTimers = m.killTimers /\ x.polling = m.polling
      /\ x.pending = m.pending /\ x.writing = m.writing /\ x.detached = m.detached
      /\ x.untimely = m.untimely
  BY <1>1, <1>5, <1>6, WithTableFields
<1> HIDE DEF x
<1>9. 1 .. N = (1 .. Len(m.sessions)) \cup {N} /\ Elements(m.table) \subseteq 1 .. Len(m.sessions)
  BY <1>1
<1> HIDE DEF N
<1>10. Well(x)
  <2>1. \A q \in 1 .. N : SessionFit(S[q], Len(m.processes))
    BY <1>4, <1>5, <1>9 DEF Well
  <2>2. ASSUME NEW q \in Elements(t), NEW r \in Elements(t), S[q].terminal = S[r].terminal PROVE q = r
    <3>1. \A i \in Elements(m.table) : S[i] = m.sessions[i] /\ m.sessions[i].terminal # k
      BY <1>5, <1>9 DEF NoSession
    <3>2. S[N].terminal = k
      BY <1>3, <1>5
    <3> QED
      BY <1>6, <2>2, <3>1, <3>2 DEF Well
  <2>3. \A q \in 1 .. N : S[q].process # 0 => Reached(x, q)
    <3>1. \A q \in 1 .. Len(m.sessions) : m.sessions[q].process # 0 => Reached(m, q)
      BY DEF Well
    <3> QED
      BY <1>3, <1>5, <1>6, <1>8, <1>9, <3>1 DEF Reached
  <2>4. ASSUME NEW p \in 1 .. Len(m.processes), m.processes[p] \in {"running", "deaf"}
        PROVE  \E q \in 1 .. N : S[q].process = p
    <3>1. PICK q \in 1 .. Len(m.sessions) : m.sessions[q].process = p
      BY <2>4 DEF Well
    <3> QED
      BY <1>5, <1>9, <3>1
  <2>5. /\ m.killTimers \subseteq 1 .. Len(m.processes)
        /\ \A l \in Terminals : \A i \in 1 .. Len(m.detached[l]) : m.detached[l][i] # <<>>
    BY DEF Well
  <2>6. Elements(t) \subseteq 1 .. N
    BY <1>6, <1>9
  <2> QED
    BY <1>5, <1>6, <1>8, <2>1, <2>2, <2>3, <2>4, <2>5, <2>6 DEF Well
<1>11. Moves(m, x, {k})
  <2>1. ASSUME NEW l \in Terminals \ {k}, NoSession(m, l) PROVE NoSession(x, l)
    <3>1. \A q \in Elements(m.table) : S[q].terminal # l
      BY <1>5, <1>9, <2>1 DEF NoSession
    <3>2. S[N].terminal # l
      BY <1>3, <1>5, <2>1
    <3> QED
      BY <1>6, <1>8, <3>1, <3>2 DEF NoSession
  <2>2. \A q \in 1 .. Len(m.sessions) : Reached(m, q) => Reached(x, q)
    BY <1>5, <1>6, <1>8 DEF Reached
  <2>3. Len(m.sessions) <= Len(x.sessions)
    BY <1>1, <1>5, <1>8 DEF N
  <2>4. (Escalates(m) => Escalates(x)) /\ (\A l \in Terminals : Quiet(m, l) => Quiet(x, l))
    BY <1>8 DEF Escalates, Quiet
  <2> QED
    BY <1>5, <1>8, <2>1, <2>2, <2>3, <2>4 DEF Moves, Leaves
<1>12. Shows(m, x, k, h)
  <2>1. \A l \in Terminals : Attached(m, l) => Attached(x, l)
    BY <1>8 DEF Attached
  <2>2. \A d, l : Latest(x, d, l) = Latest(m, d, l)
    BY <1>8 DEF Latest
  <2>3. ASSUME NEW l \in Terminals, l # k, NEW d, FitAt(m, d, l) PROVE FitAt(x, d, l)
    <3>1. \A q \in Elements(t) : S[q].terminal = l => q \in Elements(m.table) /\ S[q] = m.sessions[q]
      BY <1>3, <1>5, <1>6, <1>9, <2>3
    <3> QED
      BY <1>8, <2>2, <2>3, <3>1 DEF FitAt
  <2>4. ASSUME NEW d, Attached(m, k), Latest(m, d, k) = h PROVE FitAt(x, d, k)
    <3>1. \A q \in Elements(m.table) : S[q] = m.sessions[q] /\ m.sessions[q].terminal # k
      BY <1>5, <1>9 DEF NoSession
    <3>2. \A q \in Elements(t) : S[q].terminal = k => S[q].history = h
      BY <1>3, <1>5, <1>6, <3>1
    <3> QED
      BY <1>8, <2>2, <2>4, <3>2 DEF FitAt, Attached
  <2> QED
    BY <2>1, <2>3, <2>4 DEF Shows
<1>13. Polled(m) => Polled(x)
  <2>1. \A q \in Elements(m.table) : S[q] = m.sessions[q]
    BY <1>5, <1>9
  <2>2. S[N].status # "running"
    BY <1>3, <1>5
  <2> QED
    BY <1>6, <1>8, <2>1, <2>2 DEF Polled
<1> QED
  BY <1>3, <1>5, <1>6, <1>7, <1>8, <1>10, <1>11, <1>12, <1>13 DEF Joined, N

LEMMA AddSessionSound ==
  ASSUME NEW m, Well(m), NEW k \in Terminals, NoSession(m, k),
         NEW h \in Text, Len(h) <= HistoryLimit
  PROVE  LET n == AddSession(m, k, h)
             N == Len(m.sessions) + 1
         IN  /\ Sound(m, n, {k}) /\ Shows(m, n, k, h)
             /\ Len(n.sessions) = N /\ N \in Elements(n.table) /\ N \in 1 .. Len(n.sessions)
             /\ n.sessions[N].terminal = k
<1> DEFINE N == Len(m.sessions) + 1
           x == WithFresh(m, k, h)
           n == Evict(x)
<1>0. AddSession(m, k, h) = n
  BY DEF AddSession, WithTable, WithFresh, Fresh
<1>4. N \in Nat /\ N \in 1 .. N
  BY WellLengths
<1>5. Joined(m, x, k, h, N)
  BY NewSession
<1> HIDE DEF x, N
<1>6. /\ Well(n) /\ Leads(x, n, {}) /\ Bounded(n)
      /\ Len(x.table) > 0 => x.table[Len(x.table)] \in Elements(n.table)
      /\ n.sessions = x.sessions /\ n.polling = x.polling
  BY <1>5, EvictKeeps DEF Joined
<1> HIDE DEF n
<1>7. Moves(m, n, {k})
  <2>1. Leads(x, n, {k})
    BY <1>6 DEF Leads
  <2> QED
    BY <1>5, <1>6, <2>1, LeadsMoves, MovesOn DEF Joined
<1>8. Polled(x) => Polled(n)
  <2>1. Elements(n.table) \subseteq Elements(x.table)
    BY <1>6 DEF Leads
  <2> QED
    BY <1>6, <2>1 DEF Polled
<1>9. Sound(m, n, {k})
  BY <1>5, <1>6, <1>7, <1>8 DEF Sound, Joined
<1>10. Shows(m, n, k, h)
  <2>1. KeepsHistory(x, n)
    BY <1>6 DEF Leads
  <2> QED
    BY <1>5, <2>1, ShowsOn DEF Joined
<1> QED
  BY <1>0, <1>4, <1>5, <1>6, <1>9, <1>10 DEF N, Joined

---------------------------------------------------------------------------
(* Closing the sessions of some terminals, one after the other.            *)

CloseOne(m, o) ==
    LET stopped == Stop(m, o) IN [stopped EXCEPT !.table = Without(@, {o})]

LEMMA CloseOneKeeps ==
  ASSUME NEW m, Well(m), NEW o \in 1 .. Len(m.sessions), NEW ks, m.sessions[o].terminal \in ks
  PROVE  LET n == CloseOne(m, o)
         IN  /\ Well(n) /\ Leads(m, n, ks) /\ (Bounded(m) => Bounded(n))
             /\ Elements(n.table) \subseteq Elements(m.table) \ {o}
             /\ Len(n.sessions) = Len(m.sessions)
<1> DEFINE y == Stop(m, o)
           t == Without(y.table, {o})
           n == [y EXCEPT !.table = t]
<1>1. /\ Well(y) /\ Leads(m, y, {}) /\ Spares(m, y, o) /\ y.sessions[o].process = 0
  BY StopKeeps
<1>2. CloseOne(m, o) = n
  BY DEF CloseOne
<1> HIDE DEF y
<1>3. /\ y \in Manager /\ y.table \in Seq(Nat) /\ Len(y.sessions) \in Nat /\ Len(m.sessions) \in Nat
      /\ Len(y.sessions) = Len(m.sessions)
      /\ NoDups(y.table) /\ Elements(y.table) \subseteq 1 .. Len(y.sessions)
      /\ y.sessions[o].terminal = m.sessions[o].terminal
  BY <1>1, ManagerFields, WellLengths DEF Well, Spares
<1>4. t \in Seq(Nat) /\ Elements(t) = Elements(y.table) \ {o} /\ NoDups(t)
  BY <1>3, WithoutElements
<1>5. n = [y EXCEPT !.table = t]
  OBVIOUS
<1> HIDE DEF t, n
<1>6. /\ n \in Manager /\ n.table = t /\ n.sessions = y.sessions /\ n.processes = y.processes
      /\ n.killTimers = y.killTimers /\ n.polling = y.polling /\ n.pending = y.pending
      /\ n.writing = y.writing /\ n.detached = y.detached /\ n.untimely = y.untimely
  BY <1>3, <1>4, <1>5, TableFields
<1>7. Well(n)
  <2>1. \A q \in 1 .. Len(y.sessions) : y.sessions[q].process # 0 => Reached(n, q)
    <3>1. \A q \in 1 .. Len(y.sessions) : y.sessions[q].process # 0 => Reached(y, q)
      BY <1>1 DEF Well
    <3> QED
      BY <1>1, <1>4, <1>6, <3>1 DEF Reached
  <2> QED
    BY <1>1, <1>4, <1>6, <2>1 DEF Well
<1>8. Leads(y, n, ks)
  <2>1. KeepsHistory(y, n)
    BY <1>4, <1>6 DEF KeepsHistory, Attached, FitAt, Latest
  <2>2. \A q \in 1 .. Len(y.sessions) :
           Reached(y, q) => Reached(n, q) \/ y.sessions[q].terminal \in ks
    BY <1>3, <1>4, <1>6 DEF Reached
  <2> QED
    BY <1>3, <1>4, <1>6, <2>1, <2>2 DEF Leads, Escalates, Quiet
<1>9. Leads(m, n, ks)
  <2>1. Leads(m, y, ks)
    BY <1>1 DEF Leads
  <2>2. Len(n.sessions) \in Nat
    BY <1>3, <1>6
  <2> QED
    BY <1>3, <1>8, <2>1, <2>2, LeadsOn
<1>10. Bounded(m) => Bounded(n)
  <2>1. InactiveSet(n) \subseteq InactiveSet(y)
    BY <1>4, <1>6 DEF InactiveSet
  <2>2. Bounded(m) => Bounded(y)
    BY <1>1 DEF Spares
  <2> QED
    BY <1>1, <2>1, <2>2, BoundedSubset
<1>11. Elements(n.table) \subseteq Elements(m.table) \ {o}
  <2>1. Elements(y.table) \subseteq Elements(m.table)
    BY <1>1 DEF Leads
  <2> QED
    BY <1>4, <1>6, <2>1
<1> QED
  BY <1>2, <1>3, <1>6, <1>7, <1>9, <1>10, <1>11

\* g says what is left after each of the first n sessions of os.
Closes(g, m, os, n) ==
    g = [i \in 0 .. n |-> IF i = 0 THEN m ELSE CloseOne(g[i - 1], os[i])]

LEMMA ClosesExists == ASSUME NEW m, NEW os, NEW n \in Nat PROVE \E g : Closes(g, m, os, n)
<1> DEFINE A == {k \in Nat : \E g : Closes(g, m, os, k)}
<1>1. 0 \in A
  <2> DEFINE g == [i \in 0 .. 0 |-> m]
  <2>1. Closes(g, m, os, 0)
    BY DEF Closes
  <2> HIDE DEF g
  <2> QED
    BY <2>1
<1>2. ASSUME NEW k \in Nat, k \in A PROVE k + 1 \in A
  <2>1. PICK g : Closes(g, m, os, k)
    BY <1>2
  <2>2. \A i \in 0 .. k : g[i] = IF i = 0 THEN m ELSE CloseOne(g[i - 1], os[i])
    BY <2>1 DEF Closes
  <2> DEFINE last == CloseOne(g[k], os[k + 1])
             h    == [i \in 0 .. k + 1 |-> IF i = k + 1 THEN last ELSE g[i]]
  <2>3. ASSUME NEW i \in 0 .. k + 1
        PROVE  h[i] = IF i = 0 THEN m ELSE CloseOne(h[i - 1], os[i])
    <3>1. CASE i = k + 1
      <4>1. i # 0 /\ i - 1 = k /\ k \in 0 .. k + 1 /\ k # k + 1
        BY <3>1
      <4>2. h[i] = last /\ h[k] = g[k]
        BY <3>1, <4>1
      <4> HIDE DEF h
      <4> QED
        BY <3>1, <4>1, <4>2
    <3>2. CASE i # k + 1
      <4>1. i \in 0 .. k /\ (i # 0 => i - 1 \in 0 .. k /\ i - 1 \in 0 .. k + 1 /\ i - 1 # k + 1)
        BY <3>2
      <4>2. h[i] = g[i] /\ (i # 0 => h[i - 1] = g[i - 1])
        BY <3>2, <4>1
      <4> HIDE DEF h
      <4> QED
        BY <2>2, <4>1, <4>2
    <3> QED
      BY <3>1, <3>2
  <2>4. h = [i \in 0 .. k + 1 |-> h[i]]
    OBVIOUS
  <2> HIDE DEF h
  <2>5. Closes(h, m, os, k + 1)
    BY <2>3, <2>4 DEF Closes
  <2> QED
    BY <2>5
<1> HIDE DEF A
<1>3. Nat \subseteq A
  BY <1>1, <1>2, Induction
<1> QED
  BY <1>3 DEF A

\* The sessions of the terminals ks, in the order they are closed.
SessionsAt(m, ks) ==
    Only(m.table, {o \in 1 .. Len(m.sessions) : m.sessions[o].terminal \in ks})

LEMMA ClosedIsLast ==
  ASSUME NEW m, NEW ks, Len(SessionsAt(m, ks)) \in Nat
  PROVE  \E g : /\ Closes(g, m, SessionsAt(m, ks), Len(SessionsAt(m, ks)))
                /\ Closed(m, ks) = g[Len(SessionsAt(m, ks))]
<1> DEFINE os == SessionsAt(m, ks)
           g  == CHOOSE g : Closes(g, m, os, Len(os))
<1>1. Closes(g, m, os, Len(os))
  BY ClosesExists
<1>2. Closed(m, ks) = g[Len(os)]
  BY DEF Closed, Closes, CloseOne, SessionsAt
<1> QED
  BY <1>1, <1>2

\* What is left when some of them are closed.
ClosedSome(m, n, ks, gone) ==
    /\ Well(n) /\ Leads(m, n, ks) /\ (Bounded(m) => Bounded(n))
    /\ Elements(n.table) \subseteq Elements(m.table) \ gone
    /\ Len(n.sessions) = Len(m.sessions)

LEMMA ClosedKeeps ==
  ASSUME NEW m, Well(m), NEW ks
  PROVE  LET n == Closed(m, ks)
         IN  /\ Well(n) /\ Leads(m, n, ks) /\ (Bounded(m) => Bounded(n))
             /\ \A k \in ks : NoSession(n, k)
<1> DEFINE S  == {o \in 1 .. Len(m.sessions) : m.sessions[o].terminal \in ks}
           os == SessionsAt(m, ks)
           L  == Len(os)
<1>1. /\ m.table \in Seq(Nat) /\ Elements(m.table) \subseteq 1 .. Len(m.sessions)
      /\ Len(m.sessions) \in Nat
  BY ManagerFields, WellLengths DEF Well
<1>2. os \in Seq(Nat) /\ Elements(os) = Elements(m.table) \cap S /\ L \in Nat
  <2>1. os = Only(m.table, S)
    BY DEF SessionsAt
  <2> HIDE DEF S, os
  <2>2. os \in Seq(Nat) /\ Elements(os) = Elements(m.table) \cap S
    BY <1>1, <2>1, OnlyElements
  <2> QED
    BY <2>2, LenProperties
<1>3. PICK g : Closes(g, m, os, L) /\ Closed(m, ks) = g[L]
  BY <1>2, ClosedIsLast
<1> HIDE DEF os, L
<1>4. \A i \in 0 .. L : g[i] = IF i = 0 THEN m ELSE CloseOne(g[i - 1], os[i])
  BY <1>3 DEF Closes
<1> DEFINE Part(i) == ClosedSome(m, g[i], ks, {os[j] : j \in 1 .. i})
           A == {i \in Nat : Part(i)}
<1>5. 0 \in A
  <2>1. g[0] = m
    BY <1>2, <1>4
  <2>2. {os[j] : j \in 1 .. 0} = {}
    OBVIOUS
  <2>3. Leads(m, m, ks)
    BY <1>1, LeadsNowhere
  <2> QED
    BY <2>1, <2>2, <2>3 DEF ClosedSome
<1>6. \A i \in 0 .. L - 1 : i \in A => i + 1 \in A
  <2> HIDE DEF Part
  <2> SUFFICES ASSUME NEW i \in 0 .. L - 1, Part(i) PROVE Part(i + 1)
    BY <1>2
  <2> DEFINE y == g[i]
             o == os[i + 1]
             n == CloseOne(y, o)
  <2>1. i + 1 \in 0 .. L /\ i + 1 # 0 /\ (i + 1) - 1 = i /\ i + 1 \in 1 .. L /\ i \in Nat
    BY <1>2
  <2>2. g[i + 1] = n
    BY <1>4, <2>1
  <2>3. o \in Elements(m.table) /\ o \in 1 .. Len(m.sessions) /\ m.sessions[o].terminal \in ks
    <3>1. o \in Elements(os)
      BY <2>1 DEF Elements, L
    <3> QED
      BY <1>2, <3>1
  <2>4. /\ Well(y) /\ Leads(m, y, ks) /\ (Bounded(m) => Bounded(y))
        /\ Elements(y.table) \subseteq Elements(m.table) \ {os[j] : j \in 1 .. i}
        /\ Len(y.sessions) = Len(m.sessions)
    BY DEF ClosedSome, Part
  <2> HIDE DEF y, o
  <2>5. y.sessions[o].terminal \in ks /\ o \in 1 .. Len(y.sessions)
    BY <2>3, <2>4 DEF Leads
  <2>6. /\ Well(n) /\ Leads(y, n, ks) /\ (Bounded(y) => Bounded(n))
        /\ Elements(n.table) \subseteq Elements(y.table) \ {o}
        /\ Len(n.sessions) = Len(y.sessions)
    BY <2>4, <2>5, CloseOneKeeps
  <2> HIDE DEF n
  <2>7. Leads(m, n, ks)
    BY <1>1, <2>4, <2>6, LeadsOn
  <2>8. \A j \in 1 .. i + 1 : j \in 1 .. i \/ j = i + 1
    BY <2>1
  <2>9. {os[j] : j \in 1 .. i + 1} \subseteq {os[j] : j \in 1 .. i} \cup {o}
    BY <2>8 DEF o
  <2>10. Elements(n.table) \subseteq Elements(m.table) \ {os[j] : j \in 1 .. i + 1}
    BY <2>4, <2>6, <2>9
  <2> QED
    BY <2>2, <2>4, <2>6, <2>7, <2>10 DEF ClosedSome, Part
<1> HIDE DEF A
<1>7. 0 .. L \subseteq A
  BY <1>2, <1>5, <1>6, BoundedInduction
<1>8. ClosedSome(m, Closed(m, ks), ks, {os[j] : j \in 1 .. L})
  <2>1. L \in 0 .. L
    BY <1>2
  <2> QED
    BY <1>3, <1>7, <2>1 DEF A
<1> DEFINE n == Closed(m, ks)
<1>9. /\ Well(n) /\ Leads(m, n, ks) /\ (Bounded(m) => Bounded(n))
      /\ Elements(n.table) \subseteq Elements(m.table) \ (Elements(m.table) \cap S)
  <2>1. {os[j] : j \in 1 .. L} = Elements(m.table) \cap S
    BY <1>2 DEF Elements, L
  <2> QED
    BY <1>8, <2>1 DEF ClosedSome
<1>10. ASSUME NEW k \in ks PROVE NoSession(n, k)
  <2> SUFFICES ASSUME NEW o \in Elements(n.table), n.sessions[o].terminal = k PROVE FALSE
    BY DEF NoSession
  <2>1. o \in Elements(m.table) /\ o \notin S /\ o \in 1 .. Len(m.sessions)
    BY <1>1, <1>9
  <2>2. m.sessions[o].terminal = n.sessions[o].terminal
    BY <1>9, <2>1 DEF Leads
  <2> QED
    BY <2>1, <2>2
<1> QED
  BY <1>9, <1>10

---------------------------------------------------------------------------
(* Timers, writes, polls and the end of the server.                        *)

LEMMA TerminateSound ==
  ASSUME Well(mgr), NEW p \in 1 .. Len(mgr.processes), Terminate(p)
  PROVE  Sound(mgr, mgr', {}) /\ KeepsHistory(mgr, mgr')
<1> DEFINE P == [mgr.processes EXCEPT ![p] = "dead"]
<1>1. /\ mgr \in Manager /\ mgr.processes \in Seq(Process)
      /\ Len(mgr.processes) \in Nat
  BY ManagerFields DEF Well
<1>2. mgr' = OnlyProcesses(mgr, P)
  BY DEF Terminate, OnlyProcesses
<1>3. /\ P \in Seq(Process) /\ Len(P) = Len(mgr.processes)
      /\ P[p] = "dead" /\ \A q \in 1 .. Len(mgr.processes) : q # p => P[q] = mgr.processes[q]
  <2>1. "dead" \in Process
    BY DEF Process
  <2> QED
    BY <1>1, <2>1, ExceptSeq
<1> HIDE DEF P
<1>4. /\ mgr' \in Manager /\ mgr'.sessions = mgr.sessions /\ SameBook(mgr, mgr')
      /\ mgr'.processes = P /\ mgr'.killTimers = mgr.killTimers
  BY <1>1, <1>2, <1>3, OnlyProcessesFields
<1>5. Escalates(mgr) => Escalates(mgr')
  BY <1>3, <1>4 DEF Escalates
<1>6. \A q \in 1 .. Len(mgr.processes) : mgr'.processes[q] \in {"running", "deaf"} => mgr.processes[q] \in {"running", "deaf"}
  BY <1>3, <1>4
<1>7. Sound(mgr, mgr', {})
  BY <1>3, <1>4, <1>5, <1>6, BookSound DEF SameBook, Quiet
<1>8. KeepsHistory(mgr, mgr')
  BY <1>4 DEF KeepsHistory, Attached, FitAt, Latest, SameBook
<1> QED
  BY <1>7, <1>8

LEMMA KillSound ==
  ASSUME Well(mgr), NEW p \in 1 .. Len(mgr.processes), Kill(p)
  PROVE  Sound(mgr, mgr', {}) /\ KeepsHistory(mgr, mgr')
<1> DEFINE P == [mgr.processes EXCEPT ![p] = "dead"]
           K == mgr.killTimers \ {p}
<1>1. /\ mgr \in Manager /\ mgr.processes \in Seq(Process)
      /\ Len(mgr.processes) \in Nat /\ K \in SUBSET Nat
  BY ManagerFields DEF Well
<1>2. mgr' = WithProcesses(mgr, P, K)
  BY DEF Kill, WithProcesses
<1>3. /\ P \in Seq(Process) /\ Len(P) = Len(mgr.processes)
      /\ P[p] = "dead" /\ \A q \in 1 .. Len(mgr.processes) : q # p => P[q] = mgr.processes[q]
  <2>1. "dead" \in Process
    BY DEF Process
  <2> QED
    BY <1>1, <2>1, ExceptSeq
<1> HIDE DEF P
<1>4. /\ mgr' \in Manager /\ mgr'.sessions = mgr.sessions /\ SameBook(mgr, mgr')
      /\ mgr'.processes = P /\ mgr'.killTimers = K
  BY <1>1, <1>2, <1>3, ProcessesFields
<1>5. Escalates(mgr) => Escalates(mgr')
  BY <1>3, <1>4 DEF Escalates
<1>6. \A q \in 1 .. Len(mgr.processes) : mgr'.processes[q] \in {"running", "deaf"} => mgr.processes[q] \in {"running", "deaf"}
  BY <1>3, <1>4
<1>7. Sound(mgr, mgr', {})
  BY <1>3, <1>4, <1>5, <1>6, BookSound DEF SameBook, Quiet
<1>8. KeepsHistory(mgr, mgr')
  BY <1>4 DEF KeepsHistory, Attached, FitAt, Latest, SameBook
<1> QED
  BY <1>7, <1>8

LEMMA KillFailsSound ==
  ASSUME Well(mgr), NEW p \in 1 .. Len(mgr.processes), KillFails(p)
  PROVE  Sound(mgr, mgr', {}) /\ KeepsHistory(mgr, mgr')
<1> DEFINE v == IF mgr.processes[p] = "signalled" THEN "missed" ELSE mgr.processes[p]
           P == [mgr.processes EXCEPT ![p] = v]
           K == mgr.killTimers \ {p}
<1>1. /\ mgr \in Manager /\ mgr.processes \in Seq(Process)
      /\ Len(mgr.processes) \in Nat /\ K \in SUBSET Nat
  BY ManagerFields DEF Well
<1>2. mgr' = WithProcesses(mgr, P, K)
  BY DEF KillFails, WithProcesses
<1>3. v \in Process /\ v # "signalled" /\ (v \in {"running", "deaf"} => v = mgr.processes[p])
  BY <1>1, ElementOfSeq DEF Process
<1> HIDE DEF v
<1>4. /\ P \in Seq(Process) /\ Len(P) = Len(mgr.processes)
      /\ P[p] = v /\ \A q \in 1 .. Len(mgr.processes) : q # p => P[q] = mgr.processes[q]
  BY <1>1, <1>3, ExceptSeq
<1> HIDE DEF P
<1>5. /\ mgr' \in Manager /\ mgr'.sessions = mgr.sessions /\ SameBook(mgr, mgr')
      /\ mgr'.processes = P /\ mgr'.killTimers = K
  BY <1>1, <1>2, <1>4, ProcessesFields
<1>6. Escalates(mgr) => Escalates(mgr')
  BY <1>3, <1>4, <1>5 DEF Escalates
<1>7. \A q \in 1 .. Len(mgr.processes) :
         mgr'.processes[q] \in {"running", "deaf"} => mgr.processes[q] \in {"running", "deaf"}
  BY <1>3, <1>4, <1>5
<1>8. Sound(mgr, mgr', {})
  BY <1>4, <1>5, <1>6, <1>7, BookSound DEF SameBook, Quiet
<1>9. KeepsHistory(mgr, mgr')
  BY <1>5 DEF KeepsHistory, Attached, FitAt, Latest, SameBook
<1> QED
  BY <1>8, <1>9

\* What is left of a sequence when its first element is taken.
LEMMA TailElements ==
  ASSUME NEW X, NEW q \in Seq(X), q # <<>>
  PROVE  /\ Head(q) = q[1] /\ Head(q) \in X /\ Tail(q) \in Seq(X)
         /\ Len(q) > 1 \/ Len(q) = 1
         /\ Len(q) > 1 => Tail(q) # <<>> /\ Tail(q)[Len(Tail(q))] = q[Len(q)]
         /\ Len(q) = 1 => Tail(q) = <<>>
<1> DEFINE t == Tail(q)
<1>1. Len(q) \in Nat /\ Len(q) # 0 /\ Head(q) = q[1]
  BY LenProperties, EmptySeq
<1>2. /\ Head(q) \in X /\ t \in Seq(X) /\ Len(t) = Len(q) - 1
      /\ \A i \in 1 .. Len(t) : t[i] = q[i + 1]
  BY HeadTailProperties
<1> HIDE DEF t
<1>3. Len(<<>>) = 0
  OBVIOUS
<1>4. Len(q) > 1 => t # <<>> /\ t[Len(t)] = q[Len(q)]
  <2> SUFFICES ASSUME Len(q) > 1 PROVE t # <<>> /\ t[Len(t)] = q[Len(q)]
    OBVIOUS
  <2>1. Len(t) \in 1 .. Len(t) /\ Len(t) + 1 = Len(q) /\ Len(t) # 0
    BY <1>1, <1>2
  <2>2. t[Len(t)] = q[Len(t) + 1]
    BY <1>2, <2>1
  <2> QED
    BY <1>3, <2>1, <2>2
<1>5. Len(q) = 1 => t = <<>>
  <2>1. Len(q) = 1 => Len(t) = 0
    BY <1>2
  <2> QED
    BY <1>2, <2>1, EmptySeq
<1>6. Len(q) > 1 \/ Len(q) = 1
  <2> DEFINE l == Len(q)
  <2>1. l \in Nat /\ l # 0
    BY <1>1
  <2> HIDE DEF l
  <2>2. l > 1 \/ l = 1
    BY <2>1
  <2> QED
    BY <2>2 DEF l
<1> QED
  BY <1>1, <1>2, <1>4, <1>5, <1>6 DEF t

\* The manager with other texts to be persisted and other writes begun.
WithWrites(m, pe, wr) == [m EXCEPT !.pending = pe, !.writing = wr]

Pendings == [Terminals -> Text \cup {None}]

Writings == [Terminals -> Seq(WriteTask)]

LEMMA WritesFields ==
  ASSUME NEW m \in Manager, NEW pe \in Pendings, NEW wr \in Writings
  PROVE  LET n == WithWrites(m, pe, wr)
         IN  /\ n \in Manager /\ n.table = m.table /\ n.sessions = m.sessions
             /\ n.processes = m.processes /\ n.killTimers = m.killTimers /\ n.polling = m.polling
             /\ n.detached = m.detached /\ n.untimely = m.untimely
             /\ n.pending = pe /\ n.writing = wr
  BY DEF Manager, WithWrites, Pendings, Writings

\* The text that waits for its timer is the last that is written.
LEMMA PersistTimerSound ==
  ASSUME Well(mgr), NEW k \in Terminals, PersistTimer(k)
  PROVE  Sound(mgr, mgr', {}) /\ KeepsHistory(mgr, mgr')
<1> DEFINE h  == mgr.pending[k]
           w  == [text |-> h, awaited |-> FALSE]
           pe == [mgr.pending EXCEPT ![k] = None]
           q  == Append(mgr.writing[k], w)
           wr == [mgr.writing EXCEPT ![k] = q]
<1>1. /\ mgr \in Manager
      /\ mgr.pending \in [Terminals -> Text \cup {None}]
      /\ mgr.writing \in [Terminals -> Seq(WriteTask)]
      /\ mgr.writing[k] \in Seq(WriteTask)
  BY ManagerFields DEF Well
<1>2. h # None /\ mgr' = WithWrites(mgr, pe, wr)
  BY DEF PersistTimer, WithWrites
<1>3. h \in Text
  BY <1>1, <1>2
<1>4. w \in WriteTask /\ w.text = h
  BY <1>3 DEF WriteTask
<1> HIDE DEF w
<1>5. q \in Seq(WriteTask) /\ q # <<>> /\ q[Len(q)] = w
  <2>1. q \in Seq(WriteTask) /\ Len(q) = Len(mgr.writing[k]) + 1 /\ q[Len(mgr.writing[k]) + 1] = w /\ q # <<>>
    BY <1>1, <1>4, AppendElements
  <2> QED
    BY <2>1
<1> HIDE DEF q
<1>6. /\ pe \in [Terminals -> Text \cup {None}] /\ wr \in [Terminals -> Seq(WriteTask)]
      /\ pe[k] = None /\ wr[k] = q
      /\ \A l \in Terminals : l # k => pe[l] = mgr.pending[l] /\ wr[l] = mgr.writing[l]
  BY <1>1, <1>5
<1> HIDE DEF pe, wr
<1>7. /\ mgr' \in Manager
      /\ mgr'.table = mgr.table /\ mgr'.sessions = mgr.sessions /\ mgr'.untimely = mgr.untimely
      /\ mgr'.detached = mgr.detached /\ mgr'.polling = mgr.polling
      /\ mgr'.processes = mgr.processes /\ mgr'.killTimers = mgr.killTimers
      /\ mgr'.pending = pe /\ mgr'.writing = wr
  <2> DEFINE n == WithWrites(mgr, pe, wr)
  <2>1. pe \in Pendings /\ wr \in Writings
    BY <1>1, <1>6 DEF Pendings, Writings
  <2>2. /\ n \in Manager
        /\ n.table = mgr.table /\ n.sessions = mgr.sessions /\ n.untimely = mgr.untimely
        /\ n.detached = mgr.detached /\ n.polling = mgr.polling
        /\ n.processes = mgr.processes /\ n.killTimers = mgr.killTimers
        /\ n.pending = pe /\ n.writing = wr
    BY <1>1, <2>1, WritesFields
  <2> QED
    BY <1>2, <2>2
<1>8. \A l \in Terminals : Quiet(mgr, l) => Quiet(mgr', l)
  BY <1>2, <1>6, <1>7 DEF Quiet
<1>9. Sound(mgr, mgr', {})
  BY <1>7, <1>8, BookSound DEF Escalates
<1>10. ASSUME NEW l \in Terminals, NEW d PROVE Latest(mgr', d, l) = Latest(mgr, d, l)
  <2>1. CASE l = k
    BY <1>2, <1>4, <1>5, <1>6, <1>7, <2>1 DEF Latest
  <2>2. CASE l # k
    BY <1>6, <1>7, <2>2 DEF Latest
  <2> QED
    BY <2>1, <2>2
<1>11. KeepsHistory(mgr, mgr')
  BY <1>7, <1>10 DEF KeepsHistory, Attached, FitAt
<1> QED
  BY <1>9, <1>11

\* A write that lands leaves the last of them the last.
LEMMA WriteTakenSound ==
  ASSUME Well(mgr), NEW k \in Terminals, mgr.writing[k] # <<>>,
         mgr' = [mgr EXCEPT !.writing[k] = Tail(@)]
  PROVE  LET h == Head(mgr.writing[k]).text
         IN  /\ Sound(mgr, mgr', {}) /\ h \in Text /\ ~Quiet(mgr, k)
             /\ \A l \in Terminals : l # k => \A d : FitAt(mgr, d, l) => FitAt(mgr', d, l)
             /\ \A d : FitAt(mgr, d, k) => FitAt(mgr', h, k)
<1> DEFINE q  == mgr.writing[k]
           pe == mgr.pending
           wr == [mgr.writing EXCEPT ![k] = Tail(q)]
<1>1. /\ mgr \in Manager
      /\ mgr.pending \in [Terminals -> Text \cup {None}]
      /\ mgr.writing \in [Terminals -> Seq(WriteTask)]
      /\ q \in Seq(WriteTask)
  BY ManagerFields DEF Well
<1>2. q # <<>> /\ mgr' = WithWrites(mgr, pe, wr)
  BY <1>1 DEF WithWrites, Manager
<1> HIDE DEF q, pe
<1>3. /\ Head(q) = q[1] /\ Head(q) \in WriteTask /\ Tail(q) \in Seq(WriteTask)
      /\ Len(q) > 1 \/ Len(q) = 1
      /\ Len(q) > 1 => Tail(q) # <<>> /\ Tail(q)[Len(Tail(q))] = q[Len(q)]
      /\ Len(q) = 1 => Tail(q) = <<>>
  BY <1>1, <1>2, TailElements
<1>4. Head(q).text \in Text
  BY <1>3 DEF WriteTask
<1>5. /\ wr \in [Terminals -> Seq(WriteTask)] /\ wr[k] = Tail(q)
      /\ \A l \in Terminals : l # k => wr[l] = mgr.writing[l]
  BY <1>1, <1>2, <1>3, <1>4
<1> HIDE DEF wr
<1>6. /\ mgr' \in Manager
      /\ mgr'.table = mgr.table /\ mgr'.sessions = mgr.sessions /\ mgr'.untimely = mgr.untimely
      /\ mgr'.detached = mgr.detached /\ mgr'.polling = mgr.polling
      /\ mgr'.processes = mgr.processes /\ mgr'.killTimers = mgr.killTimers
      /\ mgr'.pending = mgr.pending /\ mgr'.writing = wr
  <2> DEFINE n == WithWrites(mgr, pe, wr)
  <2>1. pe \in Pendings /\ wr \in Writings
    BY <1>1, <1>5 DEF Pendings, Writings, pe
  <2>2. /\ n \in Manager
        /\ n.table = mgr.table /\ n.sessions = mgr.sessions /\ n.untimely = mgr.untimely
        /\ n.detached = mgr.detached /\ n.polling = mgr.polling
        /\ n.processes = mgr.processes /\ n.killTimers = mgr.killTimers
        /\ n.pending = pe /\ n.writing = wr
    BY <1>1, <2>1, WritesFields
  <2> QED
    BY <1>2, <2>2 DEF pe
<1>7. ~Quiet(mgr, k)
  BY <1>2 DEF Quiet, q
<1>8. \A l \in Terminals : Quiet(mgr, l) => Quiet(mgr', l)
  BY <1>5, <1>6, <1>7 DEF Quiet
<1>9. Sound(mgr, mgr', {})
  BY <1>6, <1>8, BookSound DEF Escalates
<1>10. \A l \in Terminals : l # k => \A d : Latest(mgr', d, l) = Latest(mgr, d, l)
  BY <1>5, <1>6 DEF Latest
<1> DEFINE h == Head(q).text
<1>11. ASSUME NEW d PROVE Latest(mgr', h, k) = Latest(mgr, d, k)
  <2>1. CASE Len(q) > 1
    <3>1. mgr'.writing[k] = Tail(q) /\ mgr.writing[k] = q /\ mgr'.pending[k] = mgr.pending[k]
      BY <1>5, <1>6 DEF q
    <3>2. Tail(q) # <<>> /\ Tail(q)[Len(Tail(q))] = q[Len(q)]
      BY <1>3, <2>1
    <3> QED
      BY <1>2, <3>1, <3>2 DEF Latest
  <2>2. CASE Len(q) = 1
    <3>1. Contents(h) = q[Len(q)].text
      <4>1. h # None
        BY <1>4, TerminalAssumption DEF Text
      <4> QED
        BY <1>3, <2>2, <4>1 DEF Contents
    <3> QED
      BY <1>2, <1>3, <1>5, <1>6, <2>2, <3>1 DEF Latest, q
  <2> QED
    BY <1>3, <2>1, <2>2
<1> HIDE DEF h
<1>12. \A l \in Terminals : l # k => \A d : FitAt(mgr, d, l) => FitAt(mgr', d, l)
  BY <1>6, <1>10 DEF FitAt
<1>13. \A d : FitAt(mgr, d, k) => FitAt(mgr', h, k)
  BY <1>6, <1>11 DEF FitAt
<1> QED
  BY <1>4, <1>7, <1>9, <1>12, <1>13 DEF h, q

\* A write the manager has forgotten is over.
LEMMA DetachedTakenSound ==
  ASSUME Well(mgr), NEW k \in Terminals, NEW i \in 1 .. Len(mgr.detached[k]),
         mgr' = WithoutDetached(mgr, k, i), k \in mgr.untimely
  PROVE  /\ Sound(mgr, mgr', {}) /\ k \in mgr'.untimely
         /\ Head(mgr.detached[k][i]).text \in Text
         /\ \A l \in Terminals : l # k => \A d : FitAt(mgr, d, l) => FitAt(mgr', d, l)
<1> DEFINE chains == mgr.detached[k]
           chain  == chains[i]
           cut    == [chains EXCEPT ![i] = Tail(chain)]
           dropped == SubSeq(chains, 1, i - 1) \o SubSeq(chains, i + 1, Len(chains))
           rest   == IF Len(chain) > 1 THEN cut ELSE dropped
           de     == [mgr.detached EXCEPT ![k] = rest]
<1>1. /\ mgr \in Manager /\ mgr.detached \in [Terminals -> Seq(Seq(WriteTask))]
      /\ chains \in Seq(Seq(WriteTask)) /\ chain \in Seq(WriteTask)
      /\ \A j \in 1 .. Len(chains) : chains[j] # <<>>
  BY ManagerFields DEF Well
<1>2. mgr' = [mgr EXCEPT !.detached = de]
  BY <1>1 DEF WithoutDetached, Manager
<1> HIDE DEF chain
<1>3. /\ Head(chain) \in WriteTask /\ Tail(chain) \in Seq(WriteTask)
      /\ Len(chain) > 1 => Tail(chain) # <<>>
  <2>1. chain # <<>>
    BY <1>1 DEF chain
  <2> QED
    BY <1>1, <2>1, TailElements
<1>4. Head(chain).text \in Text
  BY <1>3 DEF WriteTask
<1> HIDE DEF chains
<1>5. i \in 1 .. Len(chains) /\ Len(chains) \in Nat
  BY <1>1, LenProperties DEF chains
<1>6. Len(chain) > 1 => cut \in Seq(Seq(WriteTask)) /\ \A j \in 1 .. Len(cut) : cut[j] # <<>>
  <2> DEFINE tl == Tail(chain)
  <2>1. tl \in Seq(WriteTask) /\ (Len(chain) > 1 => tl # <<>>)
    BY <1>3
  <2> HIDE DEF tl
  <2>2. /\ [chains EXCEPT ![i] = tl] \in Seq(Seq(WriteTask))
        /\ Len([chains EXCEPT ![i] = tl]) = Len(chains)
        /\ [chains EXCEPT ![i] = tl][i] = tl
        /\ \A j \in 1 .. Len(chains) : j # i => [chains EXCEPT ![i] = tl][j] = chains[j]
    BY <1>1, <1>5, <2>1, ExceptSeq
  <2>3. cut = [chains EXCEPT ![i] = tl]
    BY DEF tl
  <2> HIDE DEF cut
  <2> QED
    BY <1>1, <2>1, <2>2, <2>3
<1>7. dropped \in Seq(Seq(WriteTask)) /\ \A j \in 1 .. Len(dropped) : dropped[j] # <<>>
  <2> DEFINE a == SubSeq(chains, 1, i - 1)
             b == SubSeq(chains, i + 1, Len(chains))
  <2>1. /\ a \in Seq(Seq(WriteTask)) /\ Len(a) = i - 1
        /\ \A j \in 1 .. Len(a) : a[j] = chains[j]
    BY <1>1, <1>5
  <2>2. /\ b \in Seq(Seq(WriteTask)) /\ Len(b) = Len(chains) - i
        /\ \A j \in 1 .. Len(b) : b[j] = chains[j + i]
    BY <1>1, <1>5
  <2> HIDE DEF a, b
  <2>3. /\ a \o b \in Seq(Seq(WriteTask)) /\ Len(a \o b) = Len(a) + Len(b)
        /\ \A j \in 1 .. Len(a) + Len(b) :
             (a \o b)[j] = IF j <= Len(a) THEN a[j] ELSE b[j - Len(a)]
    BY <2>1, <2>2, ConcatProperties
  <2>4. dropped = a \o b
    BY DEF a, b
  <2> HIDE DEF dropped
  <2>5. ASSUME NEW j \in 1 .. Len(dropped) PROVE dropped[j] # <<>>
    <3>1. CASE j <= Len(a)
      <4>1. j \in 1 .. Len(a) /\ j \in 1 .. Len(chains) /\ j \in 1 .. Len(a) + Len(b)
        BY <1>5, <2>1, <2>2, <2>3, <2>4, <3>1
      <4>2. dropped[j] = chains[j]
        BY <2>1, <2>3, <2>4, <3>1, <4>1
      <4> QED
        BY <1>1, <4>1, <4>2
    <3>2. CASE ~(j <= Len(a))
      <4> DEFINE h == j - Len(a)
      <4>1. h \in 1 .. Len(b) /\ h + i \in 1 .. Len(chains) /\ j \in 1 .. Len(a) + Len(b)
        BY <1>5, <2>1, <2>2, <2>3, <2>4, <3>2
      <4>2. dropped[j] = b[h]
        BY <2>3, <2>4, <3>2, <4>1
      <4> HIDE DEF h
      <4>3. dropped[j] = chains[h + i]
        BY <2>2, <4>1, <4>2
      <4> QED
        BY <1>1, <4>1, <4>3
    <3> QED
      BY <3>1, <3>2
  <2> QED
    BY <2>3, <2>4, <2>5
<1>8. rest \in Seq(Seq(WriteTask)) /\ \A j \in 1 .. Len(rest) : rest[j] # <<>>
  <2> HIDE DEF cut, dropped
  <2> QED
    BY <1>6, <1>7
<1> HIDE DEF rest
<1>9. /\ de \in [Terminals -> Seq(Seq(WriteTask))] /\ de[k] = rest
      /\ \A l \in Terminals : l # k => de[l] = mgr.detached[l]
  BY <1>1, <1>2, <1>4, <1>8
<1> HIDE DEF de
<1>10. /\ mgr' \in Manager
       /\ mgr'.table = mgr.table /\ mgr'.sessions = mgr.sessions /\ mgr'.untimely = mgr.untimely
       /\ mgr'.polling = mgr.polling
       /\ mgr'.processes = mgr.processes /\ mgr'.killTimers = mgr.killTimers
       /\ mgr'.pending = mgr.pending /\ mgr'.writing = mgr.writing /\ mgr'.detached = de
  BY <1>1, <1>2, <1>9 DEF Manager
<1>11. Well(mgr')
  <2>1. \A l \in Terminals : \A j \in 1 .. Len(de[l]) : de[l][j] # <<>>
    <3> SUFFICES ASSUME NEW l \in Terminals, NEW j \in 1 .. Len(de[l]) PROVE de[l][j] # <<>>
      OBVIOUS
    <3>1. CASE l = k
      BY <1>8, <1>9, <3>1
    <3>2. CASE l # k
      <4>1. \A h \in 1 .. Len(mgr.detached[l]) : mgr.detached[l][h] # <<>>
        BY DEF Well
      <4>2. de[l] = mgr.detached[l]
        BY <1>9, <3>2
      <4> QED
        BY <4>1, <4>2
    <3> QED
      BY <3>1, <3>2
  <2> QED
    BY <1>10, <2>1 DEF Well, Reached
<1>12. Sound(mgr, mgr', {})
  <2>1. Moves(mgr, mgr', {})
    BY <1>10, WellLengths DEF Moves, Leaves, NoSession, Reached, Quiet, Escalates
  <2>2. InactiveSet(mgr') = InactiveSet(mgr)
    BY <1>10 DEF InactiveSet
  <2> QED
    BY <1>10, <1>11, <2>1, <2>2 DEF Sound, Bounded, Polled
<1>13. \A l \in Terminals : l # k => \A d : FitAt(mgr, d, l) => FitAt(mgr', d, l)
  BY <1>9, <1>10 DEF FitAt, Latest
<1> QED
  BY <1>4, <1>10, <1>12, <1>13 DEF chain, chains

LEMMA PollSound ==
  ASSUME Well(mgr), Poll
  PROVE  Sound(mgr, mgr', {}) /\ KeepsHistory(mgr, mgr')
<1> DEFINE v == Running(mgr) # {}
<1>1. mgr \in Manager /\ mgr' = [mgr EXCEPT !.polling = v]
  BY DEF Well, Poll
<1>2. v \in BOOLEAN
  OBVIOUS
<1> HIDE DEF v
<1>3. /\ mgr' \in Manager
      /\ mgr'.table = mgr.table /\ mgr'.sessions = mgr.sessions /\ mgr'.untimely = mgr.untimely
      /\ mgr'.processes = mgr.processes /\ mgr'.killTimers = mgr.killTimers
      /\ mgr'.pending = mgr.pending /\ mgr'.writing = mgr.writing /\ mgr'.detached = mgr.detached
      /\ mgr'.polling = v
  BY <1>1, <1>2 DEF Manager
<1>4. Polled(mgr')
  <2> SUFFICES ASSUME NEW o \in Elements(mgr.table), mgr.sessions[o].status = "running"
               PROVE  v
    BY <1>3 DEF Polled
  <2>1. PICK j \in 1 .. Len(mgr.table) : mgr.table[j] = o
    BY DEF Elements
  <2>2. o \in Running(mgr)
    BY <2>1 DEF Running
  <2> QED
    BY <2>2 DEF v
<1>5. Well(mgr')
  BY <1>3 DEF Well, Reached
<1>6. Sound(mgr, mgr', {})
  <2>1. Moves(mgr, mgr', {})
    BY <1>3, WellLengths DEF Moves, Leaves, NoSession, Reached, Quiet, Escalates
  <2>2. InactiveSet(mgr') = InactiveSet(mgr)
    BY <1>3 DEF InactiveSet
  <2> QED
    BY <1>4, <1>5, <2>1, <2>2 DEF Sound, Bounded
<1>7. KeepsHistory(mgr, mgr')
  BY <1>3 DEF KeepsHistory, Attached, FitAt, Latest
<1> QED
  BY <1>6, <1>7

\* The manager is disposed of: the sessions are closed, and what was in use is
\* forgotten with the rest.
LEMMA DisposeLeaves ==
  ASSUME Well(mgr), Dispose, \A k \in Terminals : Attached(mgr, k)
  PROVE  /\ Well(mgr') /\ (Bounded(mgr) => Bounded(mgr')) /\ Polled(mgr')
         /\ Leaves(mgr, mgr', {})
         /\ \A k \in Terminals : NoSession(mgr', k) /\ Attached(mgr', k) /\ Quiet(mgr', k)
<1> DEFINE m  == Closed(mgr, Terminals)
           pe == [k \in Terminals |-> None]
           wr == [k \in Terminals |-> <<>>]
           de == [k \in Terminals |-> IF m.writing[k] = <<>> THEN m.detached[k]
                                      ELSE Append(m.detached[k], m.writing[k])]
           un == m.untimely \cup InUse(mgr)
<1>1. /\ Well(m) /\ Leads(mgr, m, Terminals) /\ (Bounded(mgr) => Bounded(m))
      /\ \A k \in Terminals : NoSession(m, k)
  BY ClosedKeeps
<1> HIDE DEF m
<1>2. m \in Manager
  BY <1>1 DEF Well
<1>3. mgr' = [m EXCEPT !.killTimers = {}, !.polling = FALSE, !.pending = pe, !.writing = wr,
                       !.detached = de, !.untimely = un]
  BY <1>2 DEF Dispose, m, Manager
<1>4. pe \in [Terminals -> Text \cup {None}] /\ wr \in [Terminals -> Seq(WriteTask)]
  OBVIOUS
<1>5. un \in SUBSET Terminals
  BY <1>2, ManagerFields DEF InUse
<1>6. de \in [Terminals -> Seq(Seq(WriteTask))]
  <2> SUFFICES ASSUME NEW k \in Terminals
               PROVE  /\ Append(m.detached[k], m.writing[k]) \in Seq(Seq(WriteTask))
                      /\ m.detached[k] \in Seq(Seq(WriteTask))
    OBVIOUS
  <2>1. m.detached[k] \in Seq(Seq(WriteTask)) /\ m.writing[k] \in Seq(WriteTask)
    BY <1>2, ManagerFields
  <2> QED
    BY <2>1, AppendProperties
<1>7. \A k \in Terminals : de[k] = IF m.writing[k] = <<>> THEN m.detached[k]
                                   ELSE Append(m.detached[k], m.writing[k])
  OBVIOUS
<1>8. \A k \in Terminals : pe[k] = None /\ wr[k] = <<>>
  OBVIOUS
<1> HIDE DEF pe, wr, de, un
<1>9. /\ mgr' \in Manager
      /\ mgr'.table = m.table /\ mgr'.sessions = m.sessions /\ mgr'.processes = m.processes
      /\ mgr'.killTimers = {} /\ mgr'.polling = FALSE /\ mgr'.pending = pe /\ mgr'.writing = wr
      /\ mgr'.detached = de /\ mgr'.untimely = un
  BY <1>2, <1>3, <1>4, <1>5, <1>6 DEF Manager
<1>10. \A o \in Elements(m.table) : FALSE
  <2>1. \A o \in Elements(m.table) : m.sessions[o].terminal \in Terminals
    BY <1>1 DEF Well, SessionFit, Session
  <2> QED
    BY <1>1, <2>1 DEF NoSession
<1>11. Well(mgr')
  <2>1. \A k \in Terminals : \A j \in 1 .. Len(de[k]) : de[k][j] # <<>>
    <3> SUFFICES ASSUME NEW k \in Terminals, NEW j \in 1 .. Len(de[k]) PROVE de[k][j] # <<>>
      OBVIOUS
    <3>1. CASE m.writing[k] = <<>>
      BY <1>1, <1>7, <3>1 DEF Well
    <3>2. CASE m.writing[k] # <<>>
      <4> DEFINE s == m.detached[k]
                 x == m.writing[k]
      <4>1. s \in Seq(Seq(WriteTask)) /\ x \in Seq(WriteTask) /\ x # <<>>
        BY <1>2, <3>2, ManagerFields
      <4>2. de[k] = Append(s, x) /\ \A i \in 1 .. Len(s) : s[i] # <<>>
        BY <1>1, <1>7, <3>2 DEF Well
      <4> HIDE DEF s, x
      <4>3. /\ Len(Append(s, x)) = Len(s) + 1 /\ Append(s, x)[Len(s) + 1] = x /\ Len(s) \in Nat
            /\ \A i \in 1 .. Len(s) : Append(s, x)[i] = s[i]
        BY <4>1, AppendElements, LenProperties
      <4>4. j \in 1 .. Len(s) \/ j = Len(s) + 1
        BY <4>2, <4>3
      <4> QED
        BY <4>1, <4>2, <4>3, <4>4
    <3> QED
      BY <3>1, <3>2
  <2>2. \A o \in 1 .. Len(m.sessions) : m.sessions[o].process # 0 => Reached(mgr', o)
    BY <1>1, <1>9 DEF Well, Reached, un
  <2> QED
    BY <1>1, <1>9, <2>1, <2>2 DEF Well
<1>12. (Bounded(mgr) => Bounded(mgr')) /\ Polled(mgr')
  BY <1>1, <1>9, <1>10 DEF Bounded, InactiveSet, Polled
<1>13. \A k \in Terminals : NoSession(mgr', k) /\ Quiet(mgr', k)
  BY <1>1, <1>8, <1>9 DEF NoSession, Quiet
<1>14. ASSUME NEW k \in Terminals PROVE Attached(mgr', k)
  <2> SUFFICES ASSUME k \notin un PROVE de[k] = <<>>
    BY <1>9 DEF Attached
  <2>1. Quiet(mgr, k)
    BY DEF un, InUse, Quiet
  <2>2. m.writing[k] = <<>>
    BY <1>1, <2>1 DEF Leads, Quiet
  <2>3. Attached(m, k)
    BY <1>1 DEF Leads, KeepsHistory
  <2> QED
    BY <1>7, <2>2, <2>3 DEF Attached, un
<1>15. Leaves(mgr, mgr', {})
  <2>1. mgr.untimely \subseteq mgr'.untimely
    BY <1>1, <1>9 DEF Leads, un
  <2>2. ASSUME NEW o \in 1 .. Len(mgr.sessions), o \in Working, Reached(mgr, o)
        PROVE  Reached(mgr', o)
    <3> DEFINE k == mgr.sessions[o].terminal
    <3>1. mgr'.sessions[o].terminal = k
      BY <1>1, <1>9 DEF Leads
    <3>2. CASE o \in Elements(mgr.table)
      <4>1. SessionOf(mgr, k) = o /\ k \in Terminals /\ o # 0
        <5>1. SessionOf(mgr, k) = o
          BY <3>2, SessionOfHeld
        <5>2. mgr.sessions[o] \in Session
          BY <2>2 DEF Well, SessionFit
        <5> QED
          BY <5>1, <5>2, <2>2 DEF Session
      <4>2. k \in InUse(mgr)
        BY <2>2, <4>1 DEF InUse, Working
      <4> QED
        BY <1>9, <3>1, <4>2 DEF Reached, un
    <3>3. CASE k \in mgr.untimely
      BY <1>9, <2>1, <3>1, <3>3 DEF Reached
    <3> QED
      BY <2>2, <3>2, <3>3 DEF Reached
  <2>3. /\ Len(mgr.sessions) <= Len(mgr'.sessions)
        /\ \A o \in 1 .. Len(mgr.sessions) :
             /\ mgr'.sessions[o].terminal = mgr.sessions[o].terminal
             /\ mgr.sessions[o].process = 0 => mgr'.sessions[o].process = 0
    BY <1>1, <1>9 DEF Leads
  <2> QED
    BY <1>13, <2>1, <2>2, <2>3 DEF Leaves
<1> QED
  BY <1>11, <1>12, <1>13, <1>14, <1>15

\* close lets go of the sessions of the terminals ks.
LEMMA CloseSound ==
  ASSUME NEW m, Well(m), NEW ks
  PROVE  LET n == Watch(Closed(m, ks))
         IN  /\ Sound(m, n, ks) /\ KeepsHistory(m, n)
             /\ \A k \in Terminals : Quiet(m, k) => Quiet(n, k)
             /\ \A k \in ks : NoSession(n, k)
<1> DEFINE y == Closed(m, ks)
           n == Watch(y)
<1>1. /\ Well(y) /\ Leads(m, y, ks) /\ (Bounded(m) => Bounded(y))
      /\ \A k \in ks : NoSession(y, k)
  BY ClosedKeeps
<1> HIDE DEF y
<1>2. /\ Well(n) /\ Leads(y, n, {}) /\ Polled(n) /\ n.table = y.table /\ n.sessions = y.sessions
  BY <1>1, WatchKeeps
<1>3. Sound(y, n, {})
  BY <1>1, WatchSound
<1> HIDE DEF n
<1>4. Moves(m, n, ks)
  <2>1. Moves(m, y, ks)
    BY <1>1, LeadsMoves
  <2>2. Moves(y, n, ks)
    BY <1>3 DEF Sound, Moves, Leaves
  <2> QED
    BY <1>1, <1>2, <2>1, <2>2, MovesOn
<1>5. KeepsHistory(m, n)
  BY <1>1, <1>2, KeepsHistoryOn DEF Leads
<1>6. /\ \A k \in Terminals : Quiet(m, k) => Quiet(n, k)
      /\ \A k \in ks : NoSession(n, k)
  BY <1>1, <1>2 DEF Leads, NoSession
<1>7. Bounded(m) => Bounded(n)
  BY <1>1, <1>3 DEF Sound
<1> QED
  BY <1>2, <1>4, <1>5, <1>6, <1>7 DEF Sound, n, y

---------------------------------------------------------------------------
(* The inductive invariant.                                                *)

\* What the record j of an operation that holds thread t's lock says is so in the
\* manager m, of which the terminals gone were closed with their history.
Fits(t, j, m, gone) ==
    /\ j.targets \subseteq TerminalsOf(t)
    /\ j.step \in {"clean", "spawn"} =>
         /\ j.session \in 1 .. Len(m.sessions)
         /\ ThreadOf[m.sessions[j.session].terminal] = t
         /\ Reached(m, j.session)
    /\ j.step \notin {"clean", "spawn"} => j.session = 0
    /\ j.step = "spawn" => m.sessions[j.session].process = 0
    /\ j.step = "read" => j.kind \in {"open", "openMoved"}
    /\ j.step \in {"flush", "read", "delete"} => \A k \in j.targets : NoSession(m, k)
    /\ j.step \in {"flush", "read"} /\ j.kind \in {"open", "openMoved"} => j.targets \cap gone = {}

\* The operation is about to read or delete the file of terminal k.
Claims(j, k) == k \in j.targets /\ j.step \in {"read", "delete"}

\* Terminal k's file will say what its session shows; while an operation reads or
\* deletes it, and as long as it is deleted, nobody writes it.
HistoryFit(k) ==
    /\ Promised(mgr, disk[k], k, unsaved)
    /\ k \notin mgr.untimely =>
         /\ \A t \in Threads : Claims(job[t], k) => Quiet(mgr, k)
         /\ k \in deleted => Quiet(mgr, k) /\ NoSession(mgr, k) /\ disk[k] = None

Budget == [operations : Nat, outputs : Nat, polls : Nat, disposals : Nat, faults : Nat]

QueueFit(t) ==
    \A i \in 1 .. Len(waiting[t]) : waiting[t][i].targets \subseteq TerminalsOf(t)

TypeInv ==
    /\ disk \in [Terminals -> Text \cup {None}]
    /\ waiting \in [Threads -> Seq(Operation)]
    /\ job \in [Threads -> Job \cup {Idle}]
    /\ checks \subseteq [terminal : Terminals, process : Nat]
    /\ deleted \subseteq Terminals
    /\ unsaved \subseteq Terminals
    /\ budget \in Budget
    /\ budget.outputs <= MaxOutputs /\ budget.disposals <= MaxDisposals

Inv ==
    /\ TypeInv
    /\ Well(mgr)
    /\ Bounded(mgr)
    /\ Polled(mgr)
    /\ \A t \in Threads : QueueFit(t)
    /\ \A t \in Threads : Fits(t, job[t], mgr, deleted)
    /\ \A k \in Terminals : HistoryFit(k)
    /\ budget.disposals = MaxDisposals => Escalates(mgr)

\* What happens on other terminals leaves an operation's record right.
LEMMA FitsStays ==
  ASSUME NEW t, NEW j, NEW m, NEW n, NEW ks \in SUBSET Terminals, NEW gone, NEW later,
         Well(m), Well(n), Leaves(m, n, ks), ks \cap TerminalsOf(t) = {},
         j.session \in Working, Fits(t, j, m, gone),
         \A k \in TerminalsOf(t) : k \in later => k \in gone
  PROVE  Fits(t, j, n, later)
<1>1. Len(m.sessions) \in Nat /\ Len(n.sessions) \in Nat /\ Len(m.sessions) <= Len(n.sessions)
  BY WellLengths DEF Leaves
<1>2. /\ j.targets \subseteq TerminalsOf(t)
      /\ j.step \notin {"clean", "spawn"} => j.session = 0
      /\ j.step = "read" => j.kind \in {"open", "openMoved"}
      /\ j.step \in {"flush", "read"} /\ j.kind \in {"open", "openMoved"} => j.targets \cap gone = {}
  BY DEF Fits
<1>3. j.step \in {"flush", "read", "delete"} => \A k \in j.targets : NoSession(n, k)
  <2>1. j.targets \subseteq Terminals \ ks
    BY <1>2 DEF TerminalsOf
  <2> QED
    BY <2>1 DEF Fits, Leaves
<1>4. ASSUME j.step \in {"clean", "spawn"}
      PROVE  /\ j.session \in 1 .. Len(n.sessions)
             /\ ThreadOf[n.sessions[j.session].terminal] = t
             /\ Reached(n, j.session)
             /\ j.step = "spawn" => n.sessions[j.session].process = 0
  <2>1. /\ j.session \in 1 .. Len(m.sessions) /\ Reached(m, j.session)
        /\ ThreadOf[m.sessions[j.session].terminal] = t
        /\ j.step = "spawn" => m.sessions[j.session].process = 0
    BY <1>4 DEF Fits
  <2>2. m.sessions[j.session].terminal \notin ks
    BY <2>1 DEF TerminalsOf
  <2> QED
    BY <1>1, <2>1, <2>2 DEF Leaves
<1>5. j.step \in {"flush", "read"} /\ j.kind \in {"open", "openMoved"} => j.targets \cap later = {}
  BY <1>2
<1> QED
  BY <1>2, <1>3, <1>4, <1>5 DEF Fits

\* Another thread's operation claims none of this thread's terminals.
LEMMA ClaimsAreOwn ==
  ASSUME NEW t, NEW k \in TerminalsOf(t), NEW u, u # t, NEW j, NEW m, NEW gone, Fits(u, j, m, gone)
  PROVE  ~Claims(j, k)
  BY DEF Claims, Fits, TerminalsOf

\* What happens on other terminals leaves the history of terminal k right.
LEMMA HistoryStays ==
  ASSUME NEW k \in Terminals, HistoryFit(k), NEW ks, k \notin ks, Leaves(mgr, mgr', ks),
         \A t \in Threads : Fits(t, job[t], mgr, deleted),
         Promised(mgr', disk'[k], k, unsaved'),
         k \in deleted' => k \in deleted,
         disk'[k] = disk[k] \/ k \in mgr'.untimely \/ ~Quiet(mgr, k),
         \A t \in Threads : Claims(job'[t], k) => Claims(job[t], k)
  PROVE  HistoryFit(k)'
<1> SUFFICES ASSUME k \notin mgr'.untimely
             PROVE  /\ \A t \in Threads : Claims(job'[t], k) => Quiet(mgr', k)
                    /\ k \in deleted' => Quiet(mgr', k) /\ NoSession(mgr', k) /\ disk'[k] = None
  BY DEF HistoryFit
<1>1. k \notin mgr.untimely
  BY DEF Leaves
<1>2. ASSUME NEW t \in Threads, Claims(job'[t], k) PROVE Quiet(mgr', k)
  <2>1. Claims(job[t], k)
    BY <1>2
  <2>2. NoSession(mgr, k)
    BY <2>1 DEF Claims, Fits
  <2>3. Quiet(mgr, k)
    BY <1>1, <2>1 DEF HistoryFit
  <2> QED
    BY <2>2, <2>3 DEF Leaves
<1>3. ASSUME k \in deleted' PROVE Quiet(mgr', k) /\ NoSession(mgr', k) /\ disk'[k] = None
  <2>1. Quiet(mgr, k) /\ NoSession(mgr, k) /\ disk[k] = None
    BY <1>1, <1>3 DEF HistoryFit
  <2> QED
    BY <2>1 DEF Leaves
<1> QED
  BY <1>2, <1>3

\* A failure takes from what is left of the bounds, and not from the disposals.
LEMMA Spending ==
  ASSUME TypeInv, budget' = budget \/ Fault
  PROVE  /\ budget' \in Budget /\ budget'.outputs <= MaxOutputs
         /\ budget'.disposals <= MaxDisposals /\ budget'.disposals = budget.disposals
<1>1. /\ budget \in Budget /\ budget.outputs <= MaxOutputs
      /\ budget.disposals <= MaxDisposals
  BY DEF TypeInv
<1>2. CASE Fault
  <2>1. budget.faults > 0 /\ budget' = [budget EXCEPT !.faults = budget.faults - 1]
    BY <1>2 DEF Fault
  <2>2. budget.faults - 1 \in Nat
    BY <1>1, <2>1 DEF Budget
  <2> QED
    BY <1>1, <2>1, <2>2 DEF Budget
<1> QED
  BY <1>1, <1>2

\* A step of none of the operations: the records stay as they are.
LEMMA JobsStay ==
  ASSUME Inv, UNCHANGED <<job, deleted>>, Well(mgr'), Leaves(mgr, mgr', {})
  PROVE  \A t \in Threads : Fits(t, job'[t], mgr', deleted')
<1> SUFFICES ASSUME NEW t \in Threads PROVE Fits(t, job[t], mgr', deleted)
  OBVIOUS
<1>1. Well(mgr) /\ Fits(t, job[t], mgr, deleted)
  BY DEF Inv
<1>2. job[t].session \in Working
  BY DEF Working
<1> QED
  BY <1>1, <1>2, FitsStays

LEMMA AloneKeeps ==
  ASSUME Inv, UNCHANGED <<job, deleted>>, TypeInv', \A t \in Threads : QueueFit(t)',
         Well(mgr'), Bounded(mgr'), Polled(mgr'), Leaves(mgr, mgr', {}),
         \A k \in Terminals : Promised(mgr', disk'[k], k, unsaved'),
         \A k \in Terminals : disk'[k] = disk[k] \/ k \in mgr'.untimely \/ ~Quiet(mgr, k),
         budget'.disposals = MaxDisposals => Escalates(mgr')
  PROVE  Inv'
<1>1. \A t \in Threads : Fits(t, job'[t], mgr', deleted')
  BY JobsStay
<1>2. ASSUME NEW k \in Terminals PROVE HistoryFit(k)'
  <2>1. HistoryFit(k) /\ \A t \in Threads : Fits(t, job[t], mgr, deleted)
    BY DEF Inv
  <2>2. /\ k \in deleted' => k \in deleted
        /\ \A t \in Threads : Claims(job'[t], k) => Claims(job[t], k)
    OBVIOUS
  <2>3. k \notin {}
    OBVIOUS
  <2> QED
    BY <2>1, <2>2, <2>3, HistoryStays
<1> QED
  BY <1>1, <1>2 DEF Inv

\* ... in which histories and files are left alone.
LEMMA WorksKeep ==
  ASSUME Inv, Works, UNCHANGED <<disk, unsaved>>, Sound(mgr, mgr', {}), KeepsHistory(mgr, mgr'), TypeInv',
         budget'.disposals = budget.disposals
  PROVE  Inv'
<1>1. /\ UNCHANGED <<job, deleted>> /\ \A t \in Threads : QueueFit(t)'
      /\ Well(mgr') /\ Bounded(mgr') /\ Polled(mgr') /\ Leaves(mgr, mgr', {})
      /\ budget'.disposals = MaxDisposals => Escalates(mgr')
  BY DEF Inv, Works, Sound, Moves, QueueFit
<1>2. \A k \in Terminals : Promised(mgr', disk'[k], k, unsaved')
  BY PromiseKept DEF KeepsHistory, Inv, HistoryFit
<1> QED
  BY <1>1, <1>2, AloneKeeps

---------------------------------------------------------------------------
(* Every step keeps the invariant: the steps of no operation.              *)

LEMMA RequestKeeps == ASSUME Inv, NEW op \in Operation, Request(op) PROVE Inv'
<1>0. TypeInv
  BY DEF Inv
<1>1. PICK t \in Threads : /\ op.targets \subseteq TerminalsOf(t)
                           /\ waiting' = [waiting EXCEPT ![t] = Append(@, op)]
  BY DEF Request
<1>2. UNCHANGED <<mgr, disk, job, checks, deleted, unsaved>> /\ budget.operations > 0
      /\ budget' = [budget EXCEPT !.operations = @ - 1]
  BY DEF Request
<1> DEFINE q == waiting[t]
           w == Append(q, op)
<1>3. q \in Seq(Operation) /\ waiting \in [Threads -> Seq(Operation)]
  BY <1>0 DEF TypeInv
<1>4. waiting' = [waiting EXCEPT ![t] = w]
  BY <1>1
<1> HIDE DEF q
<1>5. /\ w \in Seq(Operation) /\ Len(w) = Len(q) + 1 /\ w[Len(q) + 1] = op /\ Len(q) \in Nat
      /\ \A i \in 1 .. Len(q) : w[i] = q[i]
  BY <1>3, AppendElements, LenProperties
<1> HIDE DEF w
<1>6. /\ waiting' \in [Threads -> Seq(Operation)] /\ waiting'[t] = w
      /\ \A u \in Threads : u # t => waiting'[u] = waiting[u]
  BY <1>3, <1>4, <1>5
<1>7. TypeInv'
  <2>1. budget \in Budget
    BY <1>0 DEF TypeInv
  <2>2. budget.operations - 1 \in Nat
    BY <1>2, <2>1 DEF Budget
  <2>3. /\ budget' \in Budget
        /\ budget'.outputs = budget.outputs /\ budget'.disposals = budget.disposals
    BY <1>2, <2>1, <2>2 DEF Budget
  <2> QED
    BY <1>0, <1>2, <1>6, <2>3 DEF TypeInv
<1>8. ASSUME NEW u \in Threads PROVE QueueFit(u)'
  <2>0. QueueFit(u)
    BY DEF Inv
  <2>1. CASE u # t
    BY <1>6, <2>0, <2>1 DEF QueueFit, TerminalsOf
  <2>2. CASE u = t
    <3> SUFFICES ASSUME NEW i \in 1 .. Len(w) PROVE w[i].targets \subseteq TerminalsOf(t)
      BY <1>6, <2>2 DEF QueueFit, TerminalsOf
    <3>1. i \in 1 .. Len(q) \/ i = Len(q) + 1
      BY <1>5
    <3> QED
      BY <1>1, <1>5, <2>0, <2>2, <3>1 DEF QueueFit, q
  <2> QED
    BY <2>1, <2>2
<1> QED
  BY <1>2, <1>7, <1>8 DEF Inv, HistoryFit, Promised, FitAt, Latest, Quiet, NoSession

LEMMA OutputKeeps == ASSUME Inv, NEW o \in 1 .. Len(mgr.sessions), Output(o) PROVE Inv'
<1>1. TypeInv /\ Well(mgr)
  BY DEF Inv
<1>2. Sound(mgr, mgr', {}) /\ KeepsHistory(mgr, mgr')
  BY <1>1, OutputSound DEF TypeInv, Budget
<1>3. Works /\ UNCHANGED <<disk, checks, unsaved>> /\ budget' = [budget EXCEPT !.outputs = @ - 1]
      /\ budget.outputs > 0
  BY DEF Output
<1>4. budget' \in Budget
      /\ budget'.outputs <= MaxOutputs /\ budget'.disposals = budget.disposals
  <2>1. /\ budget \in Budget
        /\ budget.outputs <= MaxOutputs
    BY <1>1 DEF TypeInv
  <2>2. budget.outputs \in Nat /\ MaxOutputs \in Nat
    BY <2>1, TerminalAssumption DEF Budget
  <2>3. budget.outputs - 1 \in Nat /\ budget.outputs - 1 <= MaxOutputs
    BY <1>3, <2>1, <2>2
  <2>4. /\ budget' \in Budget
        /\ budget'.outputs = budget.outputs - 1 /\ budget'.disposals = budget.disposals
    BY <1>3, <2>1, <2>3 DEF Budget
  <2> QED
    BY <2>3, <2>4
<1>5. TypeInv'
  BY <1>1, <1>3, <1>4 DEF TypeInv, Works
<1> QED
  BY <1>2, <1>3, <1>4, <1>5, WorksKeep

\* Steps that change the manager and nothing else.
LEMMA OthersKeep ==
  ASSUME Inv, Works, UNCHANGED <<disk, checks, unsaved, budget>>, Sound(mgr, mgr', {}), KeepsHistory(mgr, mgr')
  PROVE  Inv'
<1>1. TypeInv'
  BY DEF Inv, TypeInv, Works
<1> QED
  BY <1>1, WorksKeep

LEMMA ExitKeeps == ASSUME Inv, NEW o \in 1 .. Len(mgr.sessions), Exit(o) PROVE Inv'
<1>1. Sound(mgr, mgr', {}) /\ KeepsHistory(mgr, mgr')
  BY ExitSound DEF Inv
<1>2. Works /\ UNCHANGED <<disk, checks, unsaved, budget>>
  BY DEF Exit
<1> QED
  BY <1>1, <1>2, OthersKeep

LEMMA TerminateKeeps == ASSUME Inv, NEW p \in 1 .. Len(mgr.processes), Terminate(p) PROVE Inv'
<1>1. Sound(mgr, mgr', {}) /\ KeepsHistory(mgr, mgr')
  BY TerminateSound DEF Inv
<1>2. Works /\ UNCHANGED <<disk, checks, unsaved, budget>>
  BY DEF Terminate
<1> QED
  BY <1>1, <1>2, OthersKeep

LEMMA KillKeeps == ASSUME Inv, NEW p \in 1 .. Len(mgr.processes), Kill(p) PROVE Inv'
<1>1. Sound(mgr, mgr', {}) /\ KeepsHistory(mgr, mgr')
  BY KillSound DEF Inv
<1>2. Works /\ UNCHANGED <<disk, checks, unsaved, budget>>
  BY DEF Kill
<1> QED
  BY <1>1, <1>2, OthersKeep

LEMMA KillFailsKeeps == ASSUME Inv, NEW p \in 1 .. Len(mgr.processes), KillFails(p) PROVE Inv'
<1>1. TypeInv /\ Sound(mgr, mgr', {}) /\ KeepsHistory(mgr, mgr')
  BY KillFailsSound DEF Inv
<1>2. Works /\ UNCHANGED <<disk, checks, unsaved>> /\ Fault
  BY DEF KillFails
<1>3. TypeInv' /\ budget'.disposals = budget.disposals
  BY <1>1, <1>2, Spending DEF TypeInv, Works
<1> QED
  BY <1>1, <1>2, <1>3, WorksKeep

LEMMA PersistTimerKeeps == ASSUME Inv, NEW k \in Terminals, PersistTimer(k) PROVE Inv'
<1>1. Sound(mgr, mgr', {}) /\ KeepsHistory(mgr, mgr')
  BY PersistTimerSound DEF Inv
<1>2. Works /\ UNCHANGED <<disk, checks, unsaved, budget>>
  BY DEF PersistTimer
<1> QED
  BY <1>1, <1>2, OthersKeep

\* A write is over: it changes at most the file, and not what that will say in the end.
LEMMA LandingKeeps ==
  ASSUME Inv, Works, checks' = checks, budget' = budget \/ Fault, Sound(mgr, mgr', {}),
         unsaved' \subseteq Terminals, disk' \in [Terminals -> Text \cup {None}],
         \A l \in Terminals :
            Promised(mgr, disk[l], l, unsaved) => Promised(mgr', disk'[l], l, unsaved'),
         \A l \in Terminals : disk'[l] = disk[l] \/ l \in mgr'.untimely \/ ~Quiet(mgr, l)
  PROVE  Inv'
<1>0. TypeInv
  BY DEF Inv
<1>1. TypeInv' /\ budget'.disposals = budget.disposals
  BY <1>0, Spending DEF TypeInv, Works
<1>2. /\ UNCHANGED <<job, deleted>> /\ \A t \in Threads : QueueFit(t)'
      /\ Well(mgr') /\ Bounded(mgr') /\ Polled(mgr') /\ Leaves(mgr, mgr', {})
      /\ budget'.disposals = MaxDisposals => Escalates(mgr')
  BY <1>1 DEF Inv, Works, Sound, Moves, QueueFit
<1>3. \A k \in Terminals : Promised(mgr', disk'[k], k, unsaved')
  BY DEF Inv, HistoryFit
<1> QED
  BY <1>1, <1>2, <1>3, AloneKeeps

LEMMA WriteLandsKeeps == ASSUME Inv, NEW k \in Terminals, WriteLands(k) PROVE Inv'
<1> DEFINE h == Head(mgr.writing[k]).text
<1>1. TypeInv /\ Well(mgr)
  BY DEF Inv
<1>2. /\ Works /\ checks' = checks /\ budget' = budget
      /\ disk' = [disk EXCEPT ![k] = h] /\ unsaved' = unsaved \ {k}
  BY DEF WriteLands
<1>3. /\ Sound(mgr, mgr', {}) /\ h \in Text /\ ~Quiet(mgr, k)
      /\ \A l \in Terminals : l # k => \A d : FitAt(mgr, d, l) => FitAt(mgr', d, l)
      /\ \A d : FitAt(mgr, d, k) => FitAt(mgr', h, k)
  BY <1>1, WriteTakenSound DEF WriteLands
<1> HIDE DEF h
<1>4. /\ disk' \in [Terminals -> Text \cup {None}] /\ disk'[k] = h
      /\ \A l \in Terminals : l # k => disk'[l] = disk[l]
      /\ unsaved' \subseteq Terminals
  BY <1>1, <1>2, <1>3 DEF TypeInv
<1>5. ASSUME NEW l \in Terminals, Promised(mgr, disk[l], l, unsaved)
      PROVE  Promised(mgr', disk'[l], l, unsaved')
  <2>1. CASE l = k
    BY <1>3, <1>4, <1>5, <2>1 DEF Promised
  <2>2. CASE l # k
    BY <1>2, <1>3, <1>4, <1>5, <2>2, PromiseKept
  <2> QED
    BY <2>1, <2>2
<1>6. \A l \in Terminals : disk'[l] = disk[l] \/ l \in mgr'.untimely \/ ~Quiet(mgr, l)
  BY <1>3, <1>4
<1> QED
  BY <1>2, <1>3, <1>4, <1>5, <1>6, LandingKeeps

\* Terminals with detached writes were evicted while in use.
LEMMA DetachedUntimely ==
  ASSUME Inv, NEW k \in Terminals, NEW i \in 1 .. Len(mgr.detached[k])
  PROVE  k \in mgr.untimely
<1>1. mgr.detached[k] # <<>>
  <2>1. Len(<<>>) = 0
    OBVIOUS
  <2>2. CASE mgr.detached[k] = <<>>
    <3>1. i \in 1 .. 0
      BY <2>1, <2>2
    <3> QED
      BY <3>1
  <2> QED
    BY <2>2
<1>2. Attached(mgr, k)
  BY PromiseAttached DEF Inv, HistoryFit
<1> QED
  BY <1>1, <1>2 DEF Attached

\* Nothing is promised of the file of a terminal evicted while in use.
LEMMA UntimelyPromise ==
  ASSUME NEW m, NEW k \in m.untimely, NEW d, NEW u
  PROVE  Promised(m, d, k, u)
  BY DEF Promised, FitAt

\* A detached write is over, whatever has become of the file.
LEMMA DetachedOver ==
  ASSUME Inv, NEW k \in Terminals, NEW i \in 1 .. Len(mgr.detached[k]),
         mgr' = WithoutDetached(mgr, k, i), Works, checks' = checks, budget' = budget \/ Fault,
         disk' \in [Terminals -> Text \cup {None}],
         \A l \in Terminals : l # k => disk'[l] = disk[l],
         unsaved' \subseteq Terminals, \A l \in Terminals : l # k => (l \in unsaved' <=> l \in unsaved)
  PROVE  Inv'
<1>1. k \in mgr.untimely
  BY DetachedUntimely
<1>2. /\ Sound(mgr, mgr', {}) /\ k \in mgr'.untimely
      /\ \A l \in Terminals : l # k => \A d : FitAt(mgr, d, l) => FitAt(mgr', d, l)
  BY <1>1, DetachedTakenSound DEF Inv
<1>3. ASSUME NEW l \in Terminals, Promised(mgr, disk[l], l, unsaved)
      PROVE  Promised(mgr', disk'[l], l, unsaved')
  <2>1. CASE l = k
    BY <1>2, <2>1, UntimelyPromise
  <2>2. CASE l # k
    BY <1>2, <1>3, <2>2, PromiseKept
  <2> QED
    BY <2>1, <2>2
<1>4. \A l \in Terminals : disk'[l] = disk[l] \/ l \in mgr'.untimely \/ ~Quiet(mgr, l)
  BY <1>2
<1> QED
  BY <1>2, <1>3, <1>4, LandingKeeps

LEMMA DetachedWriteLandsKeeps ==
  ASSUME Inv, NEW k \in Terminals, NEW i \in 1 .. Len(mgr.detached[k]), DetachedWriteLands(k, i)
  PROVE  Inv'
<1> DEFINE h == Head(mgr.detached[k][i]).text
<1>1. TypeInv /\ Well(mgr)
  BY DEF Inv
<1>2. /\ Works /\ checks' = checks /\ budget' = budget /\ mgr' = WithoutDetached(mgr, k, i)
      /\ disk' = [disk EXCEPT ![k] = h] /\ unsaved' = unsaved \ {k}
  BY DEF DetachedWriteLands
<1>3. h \in Text
  BY <1>1, DetachedUntimely, <1>2, DetachedTakenSound
<1> HIDE DEF h
<1>4. /\ disk' \in [Terminals -> Text \cup {None}]
      /\ \A l \in Terminals : l # k => disk'[l] = disk[l]
      /\ unsaved' \subseteq Terminals
      /\ \A l \in Terminals : l # k => (l \in unsaved' <=> l \in unsaved)
  BY <1>1, <1>2, <1>3 DEF TypeInv
<1> QED
  BY <1>2, <1>4, DetachedOver

\* A write that fails loses what it was to write, and what comes after it does not.
LEMMA WriteFailsKeeps == ASSUME Inv, NEW k \in Terminals, WriteFails(k) PROVE Inv'
<1>1. TypeInv /\ Well(mgr)
  BY DEF Inv
<1>2. /\ Works /\ checks' = checks /\ Fault /\ unsaved' = unsaved \cup {k}
      /\ disk' = disk \/ disk' = [disk EXCEPT ![k] = <<>>]
  BY DEF WriteFails
<1>3. /\ disk' \in [Terminals -> Text \cup {None}]
      /\ \A l \in Terminals : l # k => disk'[l] = disk[l]
      /\ unsaved' \subseteq Terminals
      /\ \A l \in Terminals : l # k => (l \in unsaved' <=> l \in unsaved)
  <2>1. <<>> \in Text
    BY DEF Text
  <2> QED
    BY <1>1, <1>2, <2>1 DEF TypeInv
<1>4. CASE mgr.writing[k] # <<>> /\ mgr' = [mgr EXCEPT !.writing[k] = Tail(@)]
  <2> DEFINE h == Head(mgr.writing[k]).text
  <2>1. /\ Sound(mgr, mgr', {}) /\ ~Quiet(mgr, k)
        /\ \A l \in Terminals : l # k => \A d : FitAt(mgr, d, l) => FitAt(mgr', d, l)
        /\ \A d : FitAt(mgr, d, k) => FitAt(mgr', h, k)
    BY <1>1, <1>4, WriteTakenSound
  <2> HIDE DEF h
  <2>2. ASSUME NEW l \in Terminals, Promised(mgr, disk[l], l, unsaved)
        PROVE  Promised(mgr', disk'[l], l, unsaved')
    <3>1. CASE l = k
      BY <1>2, <2>1, <2>2, <3>1 DEF Promised
    <3>2. CASE l # k
      BY <1>3, <2>1, <2>2, <3>2, PromiseKept
    <3> QED
      BY <3>1, <3>2
  <2>3. \A l \in Terminals : disk'[l] = disk[l] \/ l \in mgr'.untimely \/ ~Quiet(mgr, l)
    BY <1>3, <2>1
  <2> QED
    BY <1>2, <1>3, <2>1, <2>2, <2>3, LandingKeeps
<1>5. ASSUME NEW i \in 1 .. Len(mgr.detached[k]), mgr' = WithoutDetached(mgr, k, i) PROVE Inv'
  BY <1>2, <1>3, <1>5, DetachedOver
<1> QED
  BY <1>4, <1>5 DEF WriteFails

LEMMA PollKeeps == ASSUME Inv, Poll PROVE Inv'
<1>1. TypeInv /\ Well(mgr) /\ mgr \in Manager
  BY DEF Inv, Well
<1>2. Sound(mgr, mgr', {}) /\ KeepsHistory(mgr, mgr')
  BY <1>1, PollSound
<1>3. Works /\ UNCHANGED <<disk, unsaved>> /\ budget' = [budget EXCEPT !.polls = @ - 1] /\ budget.polls > 0
  BY DEF Poll
<1>4. budget' \in Budget
      /\ budget'.outputs = budget.outputs /\ budget'.disposals = budget.disposals
  <2>1. budget \in Budget
    BY <1>1 DEF TypeInv
  <2>2. budget.polls - 1 \in Nat
    BY <1>3, <2>1 DEF Budget
  <2> QED
    BY <1>3, <2>1, <2>2 DEF Budget
<1>5. checks' \subseteq [terminal : Terminals, process : Nat]
  <2>1. \A o \in Running(mgr) : mgr.sessions[o] \in Session
    <3> SUFFICES ASSUME NEW o \in Running(mgr) PROVE mgr.sessions[o] \in Session
      OBVIOUS
    <3>1. o \in Elements(mgr.table)
      BY DEF Running, Elements
    <3> QED
      BY <1>1, <3>1 DEF Well, SessionFit
  <2>2. \A o \in Running(mgr) :
           mgr.sessions[o].terminal \in Terminals /\ mgr.sessions[o].process \in Nat
    BY <2>1 DEF Session
  <2> QED
    BY <2>2 DEF Poll
<1>6. TypeInv'
  BY <1>1, <1>3, <1>4, <1>5 DEF TypeInv, Works
<1> QED
  BY <1>2, <1>3, <1>4, <1>6, WorksKeep

LEMMA AnswerKeeps == ASSUME Inv, NEW c \in checks, NEW children \in BOOLEAN, Answer(c, children) PROVE Inv'
<1> DEFINE o == SessionOf(mgr, c.terminal)
           b == IF children THEN c.process ELSE 0
<1>1. TypeInv /\ Well(mgr)
  BY DEF Inv
<1>2. Works /\ UNCHANGED <<disk, unsaved, budget>> /\ checks' = checks \ {c}
  BY DEF Answer
<1>3. TypeInv'
  BY <1>1, <1>2 DEF TypeInv, Works
<1>4. Sound(mgr, mgr', {}) /\ KeepsHistory(mgr, mgr')
  <2>1. CASE o # 0 /\ AboutItsProcess(o, c) /\ mgr' # mgr
    <3>1. mgr' = Touch([mgr EXCEPT !.sessions[o].busy = b], o)
      BY <2>1 DEF Answer
    <3>2. o \in 1 .. Len(mgr.sessions)
      BY <1>1, <2>1, SessionOfFacts
    <3>3. b \in {0, mgr.sessions[o].process}
      BY <2>1 DEF AboutItsProcess
    <3> HIDE DEF o, b
    <3> QED
      BY <1>1, <3>1, <3>2, <3>3, AnswerSound
  <2>2. CASE mgr' = mgr
    BY <1>1, <2>2, SoundNowhere DEF KeepsHistory
  <2>3. (o # 0 /\ AboutItsProcess(o, c)) \/ mgr' = mgr
    BY DEF Answer
  <2> QED
    BY <2>1, <2>2, <2>3
<1> QED
  BY <1>2, <1>3, <1>4, WorksKeep

LEMMA DisposeKeeps == ASSUME Inv, Dispose PROVE Inv'
<1>1. TypeInv /\ Well(mgr)
  BY DEF Inv
<1>2. Works /\ UNCHANGED <<disk, checks, unsaved>> /\ budget' = [budget EXCEPT !.disposals = @ - 1]
      /\ budget.disposals > 0
  BY DEF Dispose
<1>3. \A k \in Terminals : Attached(mgr, k)
  BY PromiseAttached DEF Inv, HistoryFit
<1>4. /\ Well(mgr') /\ (Bounded(mgr) => Bounded(mgr')) /\ Polled(mgr')
      /\ Leaves(mgr, mgr', {})
      /\ \A k \in Terminals : NoSession(mgr', k) /\ Attached(mgr', k) /\ Quiet(mgr', k)
  BY <1>1, <1>3, DisposeLeaves
<1>5. \A k \in Terminals : Promised(mgr', disk'[k], k, unsaved')
  BY <1>4, PromiseOfFit DEF FitAt, Attached, NoSession
<1>6. budget' \in Budget
      /\ budget'.outputs <= MaxOutputs /\ budget'.disposals < MaxDisposals
  <2>1. /\ budget \in Budget
        /\ budget.disposals <= MaxDisposals
    BY <1>1 DEF TypeInv
  <2>2. budget.disposals \in Nat /\ MaxDisposals \in Nat
    BY <2>1, TerminalAssumption DEF Budget
  <2>3. budget.disposals - 1 \in Nat /\ budget.disposals - 1 < MaxDisposals
    BY <1>2, <2>1, <2>2
  <2>4. /\ budget' \in Budget
        /\ budget'.disposals = budget.disposals - 1 /\ budget'.outputs = budget.outputs
    BY <1>2, <2>1, <2>3 DEF Budget
  <2> QED
    BY <1>1, <2>3, <2>4 DEF TypeInv
<1>7. TypeInv' /\ budget'.disposals # MaxDisposals
  <2>1. budget'.disposals \in Nat /\ MaxDisposals \in Nat
    BY <1>6, TerminalAssumption DEF Budget
  <2>2. budget'.disposals <= MaxDisposals /\ budget'.disposals # MaxDisposals
    BY <1>6, <2>1
  <2> QED
    BY <1>1, <1>2, <1>6, <2>2 DEF TypeInv, Works
<1>8. UNCHANGED <<job, deleted>> /\ \A t \in Threads : QueueFit(t)'
  BY <1>2 DEF Inv, Works, QueueFit
<1>9. \A k \in Terminals : disk'[k] = disk[k]
  BY <1>2
<1>10. Bounded(mgr')
  BY <1>4 DEF Inv
<1> QED
  BY <1>4, <1>5, <1>7, <1>8, <1>9, <1>10, AloneKeeps

---------------------------------------------------------------------------
(* ... and the steps of an operation.                                      *)

\* Thread t's lock holder makes a step that concerns the terminals ks of its
\* thread.
LEMMA StepKeeps ==
  ASSUME Inv, NEW t \in Threads, NEW ks \in SUBSET TerminalsOf(t),
         Sound(mgr, mgr', ks),
         \A k \in Terminals : k \notin TerminalsOf(t) =>
            /\ k \in deleted' => k \in deleted
            /\ disk'[k] = disk[k]
            /\ Promised(mgr', disk'[k], k, unsaved'),
         \A u \in Threads : u # t => job'[u] = job[u],
         Fits(t, job'[t], mgr', deleted'),
         \A k \in TerminalsOf(t) : HistoryFit(k)',
         \A u \in Threads : QueueFit(u)',
         TypeInv', budget'.disposals = budget.disposals
  PROVE  Inv'
<1>1. Well(mgr) /\ Well(mgr') /\ Leaves(mgr, mgr', ks)
  BY DEF Inv, Sound, Moves
<1>2. ks \subseteq Terminals
  BY DEF TerminalsOf
<1>3. ASSUME NEW u \in Threads PROVE Fits(u, job'[u], mgr', deleted')
  <2>1. CASE u = t
    BY <2>1
  <2>2. CASE u # t
    <3>1. ks \cap TerminalsOf(u) = {} /\ \A k \in TerminalsOf(u) : k \in deleted' => k \in deleted
      BY <2>2 DEF TerminalsOf
    <3>2. Fits(u, job[u], mgr, deleted) /\ job[u].session \in Working
      BY DEF Inv, Working
    <3>3. Fits(u, job[u], mgr', deleted')
      BY <1>1, <1>2, <3>1, <3>2, FitsStays
    <3> QED
      BY <2>2, <3>3
  <2> QED
    BY <2>1, <2>2
<1>4. ASSUME NEW k \in Terminals PROVE HistoryFit(k)'
  <2>1. CASE k \in TerminalsOf(t)
    BY <2>1
  <2>2. CASE k \notin TerminalsOf(t)
    <3>1. HistoryFit(k) /\ \A u \in Threads : Fits(u, job[u], mgr, deleted)
      BY DEF Inv
    <3>2. ASSUME NEW u \in Threads, Claims(job'[u], k) PROVE Claims(job[u], k)
      <4>1. CASE u = t
        BY <2>2, <3>2, <4>1 DEF Claims, Fits
      <4>2. CASE u # t
        BY <3>2, <4>2
      <4> QED
        BY <4>1, <4>2
    <3>3. k \notin ks
      BY <2>2
    <3> QED
      BY <1>1, <2>2, <3>1, <3>2, <3>3, HistoryStays
  <2> QED
    BY <2>1, <2>2
<1>5. Bounded(mgr') /\ Polled(mgr') /\ (budget'.disposals = MaxDisposals => Escalates(mgr'))
  BY DEF Inv, Sound, Moves
<1> QED
  BY <1>1, <1>3, <1>4, <1>5 DEF Inv

\* The history of one of the thread's terminals that the step is not about.
LEMMA OwnHistory ==
  ASSUME Inv, NEW t \in Threads, NEW ks, NEW k \in TerminalsOf(t), k \notin ks,
         Leaves(mgr, mgr', ks), Promised(mgr', disk'[k], k, unsaved'),
         k \in deleted' => k \in deleted,
         disk'[k] = disk[k] \/ k \in mgr'.untimely \/ ~Quiet(mgr, k),
         \A u \in Threads : u # t => job'[u] = job[u],
         ~Claims(job'[t], k)
  PROVE  HistoryFit(k)'
<1>1. HistoryFit(k) /\ \A u \in Threads : Fits(u, job[u], mgr, deleted)
  BY DEF Inv, TerminalsOf
<1>2. \A u \in Threads : Claims(job'[u], k) => Claims(job[u], k)
  OBVIOUS
<1>3. k \in Terminals
  BY DEF TerminalsOf
<1> QED
  BY <1>1, <1>2, <1>3, HistoryStays

\* ... of one it is about.
LEMMA TakenHistory ==
  ASSUME Inv, NEW t \in Threads, NEW k \in TerminalsOf(t), Promised(mgr', disk'[k], k, unsaved'),
         \A u \in Threads : u # t => job'[u] = job[u],
         k \notin mgr'.untimely =>
            /\ Claims(job'[t], k) => Quiet(mgr', k)
            /\ k \in deleted' => Quiet(mgr', k) /\ NoSession(mgr', k) /\ disk'[k] = None
  PROVE  HistoryFit(k)'
<1>1. ASSUME NEW u \in Threads, Claims(job'[u], k) PROVE u = t
  <2> SUFFICES ASSUME u # t PROVE FALSE
    OBVIOUS
  <2>1. Claims(job[u], k) /\ Fits(u, job[u], mgr, deleted)
    BY <1>1 DEF Inv
  <2> QED
    BY <2>1, ClaimsAreOwn
<1> QED
  BY <1>1 DEF HistoryFit

\* An operation that enters takes the first place of its queue.
LEMMA EntersFacts ==
  ASSUME Inv, NEW t \in Threads, waiting[t] # <<>>, Enters(t)
  PROVE  /\ Head(waiting[t]) \in Operation
         /\ Head(waiting[t]).targets \subseteq TerminalsOf(t)
         /\ \A u \in Threads : QueueFit(u)'
         /\ waiting' \in [Threads -> Seq(Operation)]
         /\ job[t] = Idle /\ disk' = disk /\ checks' = checks /\ unsaved' = unsaved /\ budget' = budget
<1> DEFINE q == waiting[t]
<1>1. /\ waiting \in [Threads -> Seq(Operation)] /\ q \in Seq(Operation) /\ q # <<>>
      /\ \A u \in Threads : QueueFit(u)
  BY DEF Inv, TypeInv
<1>2. waiting' = [waiting EXCEPT ![t] = Tail(q)]
  BY DEF Enters
<1>3. \A i \in 1 .. Len(q) : q[i].targets \subseteq TerminalsOf(t)
  BY <1>1 DEF QueueFit
<1> HIDE DEF q
<1> DEFINE r == Tail(q)
<1>4. /\ Head(q) = q[1] /\ Head(q) \in Operation /\ r \in Seq(Operation)
      /\ Len(q) \in Nat /\ Len(q) # 0 /\ Len(r) = Len(q) - 1
      /\ \A i \in 1 .. Len(r) : r[i] = q[i + 1]
  BY <1>1, HeadTailProperties, LenProperties, EmptySeq
<1> HIDE DEF r
<1>5. Head(q).targets \subseteq TerminalsOf(t)
  <2>1. 1 \in 1 .. Len(q)
    BY <1>4
  <2> QED
    BY <1>3, <1>4, <2>1
<1>6. \A i \in 1 .. Len(r) : r[i].targets \subseteq TerminalsOf(t)
  <2>1. \A i \in 1 .. Len(r) : i + 1 \in 1 .. Len(q)
    BY <1>4
  <2> QED
    BY <1>3, <1>4, <2>1
<1>7. /\ waiting' \in [Threads -> Seq(Operation)] /\ waiting'[t] = r
      /\ \A u \in Threads : u # t => waiting'[u] = waiting[u]
  BY <1>1, <1>2, <1>4 DEF r
<1>8. ASSUME NEW u \in Threads PROVE QueueFit(u)'
  <2>1. CASE u = t
    BY <1>6, <1>7, <2>1 DEF QueueFit, TerminalsOf
  <2>2. CASE u # t
    BY <1>1, <1>7, <2>2 DEF QueueFit, TerminalsOf
  <2> QED
    BY <2>1, <2>2
<1> QED
  BY <1>4, <1>5, <1>7, <1>8 DEF Enters, q

\* Thread t's operation has the record j from here on.
Turns(t, j) == job' = [job EXCEPT ![t] = j]

LEMMA TurnFacts ==
  ASSUME TypeInv, NEW t \in Threads, NEW j \in Job \cup {Idle}, Turns(t, j)
  PROVE  /\ job' \in [Threads -> Job \cup {Idle}] /\ job'[t] = j
         /\ \A u \in Threads : u # t => job'[u] = job[u]
  BY DEF TypeInv, Turns

\* Terminal k's history, of which the file d is left and the last write failed if k is
\* in u, is right when the operation has the record j.
Agrees(j, m, gone, d, u, k) ==
    /\ Promised(m, d, k, u)
    /\ k \notin m.untimely =>
         /\ Claims(j, k) => Quiet(m, k)
         /\ k \in gone => Quiet(m, k) /\ NoSession(m, k) /\ d = None

Queues == waiting \in [Threads -> Seq(Operation)] /\ \A u \in Threads : QueueFit(u)

\* The operation makes a step that concerns the terminals ks.
LEMMA StepOn ==
  ASSUME Inv, NEW t \in Threads, NEW j \in Job \cup {Idle}, Turns(t, j), Queues',
         checks' = checks, budget' = budget \/ Fault,
         disk' \in [Terminals -> Text \cup {None}], deleted' \subseteq Terminals,
         NEW ks \in SUBSET TerminalsOf(t), Sound(mgr, mgr', ks),
         \A k \in Terminals \ ks :
            /\ disk'[k] = disk[k]
            /\ k \in deleted' => k \in deleted
            /\ \A d : FitAt(mgr, d, k) => FitAt(mgr', d, k)
            /\ ~Claims(j, k),
         \A k \in ks : Agrees(j, mgr', deleted', disk'[k], unsaved', k),
         unsaved' \subseteq unsaved, unsaved \subseteq unsaved' \cup ks,
         Fits(t, j, mgr', deleted')
  PROVE  Inv'
<1>1. TypeInv /\ Leaves(mgr, mgr', ks)
  BY DEF Inv, Sound, Moves
<1>2. /\ job' \in [Threads -> Job \cup {Idle}] /\ job'[t] = j
      /\ \A u \in Threads : u # t => job'[u] = job[u]
  BY <1>1, TurnFacts
<1>3. TypeInv' /\ budget'.disposals = budget.disposals
  BY <1>1, <1>2, Spending DEF TypeInv, Queues
<1>4. ASSUME NEW k \in Terminals \ ks PROVE Promised(mgr', disk'[k], k, unsaved')
  <2>1. Promised(mgr, disk[k], k, unsaved) /\ disk'[k] = disk[k]
    BY DEF Inv, HistoryFit
  <2> QED
    BY <2>1, PromiseKept
<1>5. ASSUME NEW k \in TerminalsOf(t) PROVE HistoryFit(k)'
  <2>1. CASE k \in ks
    <3>1. /\ Promised(mgr', disk'[k], k, unsaved')
          /\ k \notin mgr'.untimely =>
               /\ Claims(job'[t], k) => Quiet(mgr', k)
               /\ k \in deleted' => Quiet(mgr', k) /\ NoSession(mgr', k) /\ disk'[k] = None
      BY <1>2, <2>1 DEF Agrees
    <3> QED
      BY <1>2, <3>1, TakenHistory
  <2>2. CASE k \notin ks
    <3>1. k \in Terminals \ ks
      BY <2>2 DEF TerminalsOf
    <3> QED
      BY <1>1, <1>2, <1>4, <2>2, <3>1, OwnHistory
  <2> QED
    BY <2>1, <2>2
<1>6. \A k \in Terminals : k \notin TerminalsOf(t) => k \in Terminals \ ks
  OBVIOUS
<1>7. \A k \in Terminals : k \notin TerminalsOf(t) =>
         /\ k \in deleted' => k \in deleted
         /\ disk'[k] = disk[k]
         /\ Promised(mgr', disk'[k], k, unsaved')
  BY <1>4, <1>6
<1>8. Fits(t, job'[t], mgr', deleted') /\ \A u \in Threads : QueueFit(u)'
  BY <1>2 DEF Queues
<1> QED
  BY <1>2, <1>3, <1>5, <1>7, <1>8, StepKeeps

LEMMA IdleFits ==
  ASSUME NEW t, NEW m, NEW gone
  PROVE  Idle \in Job \cup {Idle} /\ Fits(t, Idle, m, gone) /\ \A k : ~Claims(Idle, k)
  BY DEF Fits, Claims, Idle

LEMMA OneTarget ==
  ASSUME NEW op \in Operation, op.kind \notin CloseKinds, NEW k \in op.targets
  PROVE  op.targets = {k}
  BY DEF Operation

LEMMA OperationFacts ==
  ASSUME NEW op \in Operation
  PROVE  op.kind \in Kinds /\ op.targets \subseteq Terminals
  BY DEF Operation, TerminalsOf, Kinds, CloseKinds

\* An operation that is over before its first await.
LEMMA PassKeeps ==
  ASSUME Inv, NEW t \in Threads, waiting[t] # <<>>, Enters(t), Release(t),
         mgr' = mgr, deleted' \subseteq deleted
  PROVE  Inv'
<1>1. TypeInv /\ Well(mgr)
  BY DEF Inv
<1>2. Queues' /\ UNCHANGED <<checks, unsaved, budget>> /\ disk' = disk
  BY EntersFacts DEF Queues
<1>3. Turns(t, Idle)
  BY DEF Release, Turns
<1>4. Sound(mgr, mgr', {})
  BY <1>1, SoundNowhere
<1>5. \A k \in Terminals \ {} :
         /\ disk'[k] = disk[k]
         /\ k \in deleted' => k \in deleted
         /\ \A d : FitAt(mgr, d, k) => FitAt(mgr', d, k)
         /\ ~Claims(Idle, k)
  BY <1>2, IdleFits
<1>6. disk' \in [Terminals -> Text \cup {None}] /\ deleted' \subseteq Terminals
  BY <1>1, <1>2 DEF TypeInv
<1>7. Idle \in Job \cup {Idle} /\ Fits(t, Idle, mgr', deleted')
  BY IdleFits
<1>8. {} \in SUBSET TerminalsOf(t) /\ \A k \in {} : Agrees(Idle, mgr', deleted', disk'[k], unsaved', k)
  OBVIOUS
<1> QED
  BY <1>2, <1>3, <1>4, <1>5, <1>6, <1>7, <1>8, StepOn

LEMMA OpenNewKeeps ==
  ASSUME Inv, NEW t \in Threads, waiting[t] # <<>>, NEW op, op = Head(waiting[t]),
         NEW k \in op.targets, OpenNew(t, op, k)
  PROVE  Inv'
<1> DEFINE j == [kind |-> op.kind, targets |-> op.targets, session |-> 0, step |-> "flush"]
<1>1. TypeInv /\ Well(mgr)
  BY DEF Inv
<1>2. Enters(t) /\ op.kind \in {"open", "openMoved"} /\ SessionOf(mgr, k) = 0
      /\ deleted' = deleted \ {k} /\ mgr' = mgr
  BY DEF OpenNew
<1>3. Turns(t, j)
  BY DEF OpenNew, Await, Turns
<1>4. /\ op \in Operation /\ op.targets \subseteq TerminalsOf(t)
      /\ Queues' /\ UNCHANGED <<checks, unsaved, budget>> /\ disk' = disk
  BY <1>2, EntersFacts DEF Queues
<1>5. op.targets = {k}
  BY <1>2, <1>4, OneTarget DEF CloseKinds
<1>6. j \in Job
  BY <1>4, OperationFacts DEF Job, Steps
<1>7. NoSession(mgr, k)
  BY <1>1, <1>2, SessionOfFacts
<1>8. Fits(t, j, mgr', deleted') /\ \A l : ~Claims(j, l)
  BY <1>2, <1>4, <1>5, <1>7 DEF Fits, Claims
<1> HIDE DEF j
<1>9. Sound(mgr, mgr', {})
  BY <1>1, <1>2, SoundNowhere
<1>10. \A l \in Terminals \ {} :
         /\ disk'[l] = disk[l]
         /\ l \in deleted' => l \in deleted
         /\ \A d : FitAt(mgr, d, l) => FitAt(mgr', d, l)
         /\ ~Claims(j, l)
  BY <1>2, <1>4, <1>8
<1>11. disk' \in [Terminals -> Text \cup {None}] /\ deleted' \subseteq Terminals
  BY <1>1, <1>2, <1>4 DEF TypeInv
<1>12. {} \in SUBSET TerminalsOf(t) /\ \A l \in {} : Agrees(j, mgr', deleted', disk'[l], unsaved', l)
  OBVIOUS
<1> QED
  BY <1>3, <1>4, <1>6, <1>8, <1>9, <1>10, <1>11, <1>12, StepOn

LEMMA AttachKeeps ==
  ASSUME Inv, NEW t \in Threads, waiting[t] # <<>>, NEW op, NEW k, Attach(t, op, k)
  PROVE  Inv'
<1>1. Enters(t) /\ Release(t) /\ mgr' = mgr /\ deleted' \subseteq deleted
  BY DEF Attach
<1> QED
  BY <1>1, PassKeeps

LEMMA RefusedKeeps ==
  ASSUME Inv, NEW t \in Threads, waiting[t] # <<>>, NEW op, Refused(t, op)
  PROVE  Inv'
<1>1. Enters(t) /\ Release(t) /\ mgr' = mgr /\ deleted' \subseteq deleted
  BY DEF Refused
<1> QED
  BY <1>1, PassKeeps

\* m has all of the manager's histories but terminal k's.
Keeping(m, n, k) ==
    /\ \A l \in Terminals : Attached(m, l) => Attached(n, l)
    /\ \A l \in Terminals : l # k => \A d : FitAt(m, d, l) => FitAt(n, d, l)

\* The operation empties the history of its terminal, after what led to m.
LEMMA ResetKeeps ==
  ASSUME Inv, NEW t \in Threads, waiting[t] # <<>>, NEW op, op = Head(waiting[t]), Enters(t),
         NEW k \in op.targets, op.kind \notin CloseKinds,
         NEW m, NEW o \in Elements(m.table), m.sessions[o].terminal = k,
         Sound(mgr, m, {k}), Keeping(mgr, m, k),
         mgr' = Reset(m, o), Await(t, op, o, "clean"),
         deleted' \subseteq deleted, k \in deleted' => k \in mgr'.untimely
  PROVE  Inv'
<1> DEFINE j == [kind |-> op.kind, targets |-> op.targets, session |-> o, step |-> "clean"]
           n == Reset(m, o)
<1>1. TypeInv /\ Well(mgr) /\ Well(m)
  BY DEF Inv, Sound
<1>2. /\ op \in Operation /\ op.targets \subseteq TerminalsOf(t)
      /\ Queues' /\ UNCHANGED <<checks, unsaved, budget>> /\ disk' = disk
  BY EntersFacts DEF Queues
<1>3. Turns(t, j)
  BY DEF Await, Turns
<1>4. op.targets = {k} /\ k \in TerminalsOf(t) /\ k \in Terminals
  BY <1>2, OneTarget DEF TerminalsOf
<1>5. o \in 1 .. Len(m.sessions) /\ Reached(m, o) /\ o \in Nat
  <2>1. o \in 1 .. Len(m.sessions) /\ Len(m.sessions) \in Nat
    BY <1>1, WellLengths
  <2>2. Reached(m, o)
    BY DEF Reached
  <2>3. o \in Nat
    BY <2>1
  <2> QED
    BY <2>1, <2>2, <2>3
<1>6. j \in Job
  BY <1>2, <1>5, OperationFacts DEF Job, Steps
<1>7. /\ Sound(m, n, {k}) /\ Empties(m, n, k)
      /\ n.table = m.table /\ Len(n.sessions) = Len(m.sessions) /\ n.sessions[o].terminal = k
  BY <1>1, <1>5, ResetSound
<1>8. mgr' = n
  OBVIOUS
<1> HIDE DEF n
<1>9. Sound(mgr, n, {k})
  BY <1>1, <1>7, SoundOn
<1>10. Fits(t, j, n, deleted') /\ \A l : ~Claims(j, l)
  <2>1. Reached(n, o)
    BY <1>7 DEF Reached
  <2>2. ThreadOf[k] = t
    BY <1>4 DEF TerminalsOf
  <2> QED
    BY <1>2, <1>5, <1>7, <2>1, <2>2 DEF Fits, Claims
<1> HIDE DEF j
<1>11. ASSUME NEW l \in Terminals \ {k}
       PROVE  /\ disk'[l] = disk[l]
              /\ l \in deleted' => l \in deleted
              /\ \A d : FitAt(mgr, d, l) => FitAt(n, d, l)
              /\ ~Claims(j, l)
  BY <1>2, <1>7, <1>10 DEF Keeping, Empties
<1>12. Agrees(j, n, deleted', disk'[k], unsaved', k)
  <2>1. Attached(mgr, k)
    BY <1>4, PromiseAttached DEF Inv, HistoryFit
  <2>2. Promised(n, disk'[k], k, unsaved')
    BY <1>4, <1>7, <2>1, PromiseOfFit DEF Keeping, Empties
  <2> QED
    BY <1>8, <1>10, <2>2 DEF Agrees
<1>13. disk' \in [Terminals -> Text \cup {None}] /\ deleted' \subseteq Terminals
  BY <1>1, <1>2 DEF TypeInv
<1>14. {k} \in SUBSET TerminalsOf(t) /\ j \in Job \cup {Idle}
  BY <1>4, <1>6
<1>15. \A l \in {k} : Agrees(j, mgr', deleted', disk'[l], unsaved', l)
  BY <1>8, <1>12
<1>16. \A l \in Terminals \ {k} :
          /\ disk'[l] = disk[l]
          /\ l \in deleted' => l \in deleted
          /\ \A d : FitAt(mgr, d, l) => FitAt(mgr', d, l)
          /\ ~Claims(j, l)
  BY <1>8, <1>11
<1>17. Sound(mgr, mgr', {k}) /\ Fits(t, j, mgr', deleted')
  BY <1>8, <1>9, <1>10
<1> QED
  BY <1>2, <1>3, <1>13, <1>14, <1>15, <1>16, <1>17, StepOn

\* What leaves every history alone leaves all others alone.
LEMMA KeepingHistory ==
  ASSUME NEW m, NEW n, NEW k, Sound(m, n, {}), KeepsHistory(m, n)
  PROVE  Sound(m, n, {k}) /\ Keeping(m, n, k)
<1>1. Sound(m, n, {k})
  BY SoundWider
<1> QED
  BY <1>1 DEF KeepsHistory, Keeping

\* A session of the manager, stopped or as it is, is still the terminal's.
LEMMA StoppedSession ==
  ASSUME NEW k, Well(mgr), NEW o, o = SessionOf(mgr, k), o # 0
  PROVE  LET m == Stop(mgr, o)
         IN  /\ o \in Elements(m.table) /\ m.sessions[o].terminal = k
             /\ Sound(mgr, m, {k}) /\ Keeping(mgr, m, k)
<1> DEFINE m == Stop(mgr, o)
<1>1. /\ o \in Elements(mgr.table) /\ o \in 1 .. Len(mgr.sessions)
      /\ mgr.sessions[o].terminal = k
  BY SessionOfFacts
<1>2. Well(m) /\ Leads(mgr, m, {}) /\ Spares(mgr, m, o)
  BY <1>1, StopKeeps
<1>3. Sound(mgr, m, {}) /\ KeepsHistory(mgr, m)
  BY <1>1, StopSound
<1> HIDE DEF m
<1>4. Sound(mgr, m, {k}) /\ Keeping(mgr, m, k)
  BY <1>3, KeepingHistory
<1>5. o \in Elements(m.table) /\ m.sessions[o].terminal = k
  BY <1>1, <1>2 DEF Spares
<1> QED
  BY <1>4, <1>5 DEF m

LEMMA ReopenKeeps ==
  ASSUME Inv, NEW t \in Threads, waiting[t] # <<>>, NEW op, op = Head(waiting[t]),
         NEW k \in op.targets, Reopen(t, op, k)
  PROVE  Inv'
<1> DEFINE o == SessionOf(mgr, k)
           m == IF op.kind = "openMoved" THEN Stop(mgr, o) ELSE mgr
<1>1. Well(mgr)
  BY DEF Inv
<1>2. /\ Enters(t) /\ o # 0 /\ op.kind \notin CloseKinds
      /\ mgr' = Reset(m, o) /\ Await(t, op, o, "clean") /\ deleted' = deleted \ {k}
  BY DEF Reopen, CloseKinds
<1>3. o \in Elements(mgr.table) /\ mgr.sessions[o].terminal = k
  BY <1>1, <1>2, SessionOfFacts
<1>4. Sound(mgr, mgr, {k}) /\ Keeping(mgr, mgr, k)
  BY <1>1, SoundNowhere DEF Keeping
<1>5. /\ o \in Elements(m.table) /\ m.sessions[o].terminal = k
      /\ Sound(mgr, m, {k}) /\ Keeping(mgr, m, k)
  <2>1. CASE op.kind = "openMoved"
    BY <1>1, <1>2, <2>1, StoppedSession
  <2>2. CASE op.kind # "openMoved"
    BY <1>3, <1>4, <2>2
  <2> QED
    BY <2>1, <2>2
<1>6. deleted' \subseteq deleted /\ (k \in deleted' => k \in mgr'.untimely)
  BY <1>2
<1> HIDE DEF o, m
<1> QED
  BY <1>2, <1>5, <1>6, ResetKeeps

LEMMA RestartKeeps ==
  ASSUME Inv, NEW t \in Threads, waiting[t] # <<>>, NEW op, op = Head(waiting[t]),
         NEW k \in op.targets, Restart(t, op, k)
  PROVE  Inv'
<1> DEFINE o == SessionOf(mgr, k)
           N == Len(mgr.sessions) + 1
           m == AddSession(mgr, k, <<>>)
           s == Stop(mgr, o)
<1>1. Well(mgr)
  BY DEF Inv
<1>2. /\ Enters(t) /\ op.kind \notin CloseKinds /\ deleted' = deleted \ {k}
      /\ o = 0 => mgr' = Reset(m, N) /\ Await(t, op, N, "clean")
      /\ o # 0 => mgr' = Reset(s, o) /\ Await(t, op, o, "clean")
  BY DEF Restart, CloseKinds
<1>3. deleted' \subseteq deleted /\ (k \in deleted' => k \in mgr'.untimely)
  BY <1>2
<1>4. k \in Terminals
  BY <1>2, EntersFacts DEF TerminalsOf
<1>5. CASE o # 0
  <2>1. /\ o \in Elements(s.table) /\ s.sessions[o].terminal = k
        /\ Sound(mgr, s, {k}) /\ Keeping(mgr, s, k)
    BY <1>1, <1>5, StoppedSession
  <2> HIDE DEF o, s
  <2> QED
    BY <1>2, <1>3, <1>5, <2>1, ResetKeeps
<1>6. CASE o = 0
  <2>1. NoSession(mgr, k)
    BY <1>1, <1>6, SessionOfFacts
  <2>2. <<>> \in Text /\ Len(<<>>) <= HistoryLimit
    BY TerminalAssumption DEF Text
  <2>3. /\ Sound(mgr, m, {k}) /\ Shows(mgr, m, k, <<>>)
        /\ N \in Elements(m.table) /\ m.sessions[N].terminal = k
    BY <1>1, <1>4, <2>1, <2>2, AddSessionSound
  <2> HIDE DEF o, m, N
  <2>4. Keeping(mgr, m, k)
    BY <2>3 DEF Shows, Keeping
  <2> QED
    BY <1>2, <1>3, <1>6, <2>3, <2>4, ResetKeeps
<1> QED
  BY <1>5, <1>6

LEMMA ClearKeeps ==
  ASSUME Inv, NEW t \in Threads, waiting[t] # <<>>, NEW op, op = Head(waiting[t]),
         NEW k \in op.targets, Clear(t, op, k)
  PROVE  Inv'
<1> DEFINE o == SessionOf(mgr, k)
           m == Touch(mgr, o)
<1>1. Well(mgr)
  BY DEF Inv
<1>2. /\ Enters(t) /\ o # 0 /\ op.kind \notin CloseKinds
      /\ mgr' = Reset(m, o) /\ Await(t, op, o, "clean") /\ deleted' = deleted
  BY DEF Clear, CloseKinds
<1>3. o \in Elements(mgr.table) /\ mgr.sessions[o].terminal = k /\ o \in 1 .. Len(mgr.sessions)
  BY <1>1, <1>2, SessionOfFacts
<1>4. Sound(mgr, m, {}) /\ KeepsHistory(mgr, m)
  BY <1>1, TouchSound
<1>5. o \in Elements(m.table) /\ m.sessions[o].terminal = k /\ m.untimely = mgr.untimely /\ Well(m)
  BY <1>1, <1>3, TouchKeeps
<1> HIDE DEF o, m
<1>6. Sound(mgr, m, {k}) /\ Keeping(mgr, m, k)
  BY <1>4, KeepingHistory
<1>7. k \in deleted' => k \in mgr'.untimely
  <2>1. k \in Terminals
    BY <1>2, EntersFacts DEF TerminalsOf
  <2>2. k \in deleted => k \in mgr.untimely
    BY <1>3, <2>1 DEF Inv, HistoryFit, NoSession
  <2>3. m.untimely \subseteq mgr'.untimely
    <3>1. o \in 1 .. Len(m.sessions) /\ Reached(m, o)
      BY <1>5, WellLengths DEF Reached
    <3>2. Sound(m, Reset(m, o), {k})
      BY <1>5, <3>1, ResetSound
    <3> QED
      BY <1>2, <3>2 DEF Sound, Moves, Leaves
  <2> QED
    BY <1>2, <1>5, <2>2, <2>3
<1>8. deleted' \subseteq deleted
  BY <1>2
<1> QED
  BY <1>2, <1>5, <1>6, <1>7, <1>8, ResetKeeps

LEMMA CloseKeeps ==
  ASSUME Inv, NEW t \in Threads, waiting[t] # <<>>, NEW op, op = Head(waiting[t]), Close(t, op)
  PROVE  Inv'
<1> DEFINE j  == [kind |-> op.kind, targets |-> op.targets, session |-> 0, step |-> "flush"]
           ks == op.targets
           n  == Watch(Closed(mgr, ks))
<1>1. TypeInv /\ Well(mgr)
  BY DEF Inv
<1>2. Enters(t) /\ op.kind \in CloseKinds /\ mgr' = n /\ deleted' = deleted
  BY DEF Close
<1>3. Turns(t, j)
  BY DEF Close, Await, Turns
<1>4. /\ op \in Operation /\ ks \subseteq TerminalsOf(t)
      /\ Queues' /\ UNCHANGED <<checks, unsaved, budget>> /\ disk' = disk
  BY <1>2, EntersFacts DEF Queues
<1>5. j \in Job
  BY <1>4, OperationFacts DEF Job, Steps
<1>6. /\ Sound(mgr, n, ks) /\ KeepsHistory(mgr, n)
      /\ \A k \in Terminals : Quiet(mgr, k) => Quiet(n, k)
      /\ \A k \in ks : NoSession(n, k)
  BY <1>1, CloseSound
<1> HIDE DEF n
<1>7. Fits(t, j, n, deleted') /\ \A l : ~Claims(j, l)
  BY <1>2, <1>4, <1>6 DEF Fits, Claims, CloseKinds
<1>8. ks \subseteq Terminals
  BY <1>4 DEF TerminalsOf
<1> HIDE DEF j, ks
<1>9. ASSUME NEW k \in Terminals PROVE \A d : FitAt(mgr, d, k) => FitAt(n, d, k)
  BY <1>6 DEF KeepsHistory
<1>10. ASSUME NEW k \in ks PROVE Agrees(j, n, deleted', disk'[k], unsaved', k)
  <2>1. HistoryFit(k)
    BY <1>8 DEF Inv
  <2>2. k \notin n.untimely => k \notin mgr.untimely
    BY <1>6 DEF Sound, Moves, Leaves
  <2>3. Promised(n, disk'[k], k, unsaved')
    BY <1>4, <1>8, <1>9, <2>1, PromiseKept DEF HistoryFit
  <2>4. k \in deleted' /\ k \notin n.untimely => Quiet(n, k) /\ NoSession(n, k) /\ disk'[k] = None
    BY <1>2, <1>4, <1>6, <1>8, <2>1, <2>2 DEF HistoryFit
  <2> QED
    BY <1>7, <2>3, <2>4 DEF Agrees
<1>11. \A k \in Terminals \ ks :
          /\ disk'[k] = disk[k]
          /\ k \in deleted' => k \in deleted
          /\ \A d : FitAt(mgr, d, k) => FitAt(mgr', d, k)
          /\ ~Claims(j, k)
  BY <1>2, <1>4, <1>7, <1>9
<1>12. disk' \in [Terminals -> Text \cup {None}] /\ deleted' \subseteq Terminals
  BY <1>1, <1>2, <1>4 DEF TypeInv
<1>13. /\ ks \in SUBSET TerminalsOf(t) /\ j \in Job \cup {Idle}
       /\ Sound(mgr, mgr', ks) /\ Fits(t, j, mgr', deleted')
       /\ \A k \in ks : Agrees(j, mgr', deleted', disk'[k], unsaved', k)
  BY <1>2, <1>4, <1>5, <1>6, <1>7, <1>10
<1> QED
  BY <1>3, <1>4, <1>11, <1>12, <1>13, StepOn

LEMMA FlushPendingKeeps == ASSUME Inv, NEW t \in Threads, FlushPending(t) PROVE Inv'
<1>1. TypeInv /\ Well(mgr) /\ mgr \in Manager
  BY DEF Inv, Well
<1>2. PICK k \in job[t].targets : mgr.pending[k] # None /\ mgr' = WriteNow(mgr, k, mgr.pending[k])
  BY DEF FlushPending
<1>3. k \in Terminals
  BY DEF Inv, Fits, TerminalsOf
<1>4. mgr.pending[k] \in Text
  BY <1>1, <1>2, <1>3, ManagerFields
<1>5. Sound(mgr, mgr', {}) /\ KeepsHistory(mgr, mgr')
  BY <1>1, <1>2, <1>3, <1>4, WriteNowSound
<1>6. Works /\ UNCHANGED <<disk, checks, unsaved, budget>>
  BY DEF FlushPending, At, Works
<1> QED
  BY <1>5, <1>6, OthersKeep

\* The record of an operation that goes on.
GoesOn(j, o, step) == [j EXCEPT !.session = o, !.step = step]

LEMMA GoesOnFacts ==
  ASSUME TypeInv, NEW t \in Threads, job[t].step # "none", NEW o \in Nat, NEW step \in Steps
  PROVE  LET j == GoesOn(job[t], o, step)
         IN  /\ j \in Job \cup {Idle} /\ j.kind = job[t].kind /\ j.targets = job[t].targets
             /\ j.session = o /\ j.step = step
<1>1. job[t] \in Job
  BY DEF TypeInv, Idle
<1> QED
  BY <1>1 DEF Job, GoesOn

LEMMA ProceedTurns ==
  ASSUME NEW t \in Threads, NEW o, NEW step, Proceed(t, o, step)
  PROVE  Turns(t, GoesOn(job[t], o, step))
  BY DEF Proceed, Turns, GoesOn

\* The queues are left alone by an operation that holds the lock.
LEMMA QueuesStay == ASSUME Inv, UNCHANGED waiting PROVE Queues'
  BY DEF Inv, TypeInv, Queues, QueueFit, TerminalsOf

\* Nothing is on its way to the files any more: the operation is over, or goes on
\* to read or delete them.
LEMMA FlushDoneKeeps == ASSUME Inv, NEW t \in Threads, FlushDone(t) PROVE Inv'
<1> DEFINE ks == job[t].targets
<1>1. TypeInv /\ Well(mgr) /\ Fits(t, job[t], mgr, deleted)
  BY DEF Inv
<1>2. /\ UNCHANGED <<waiting, budget, disk, checks, deleted, unsaved>> /\ job[t].step = "flush"
      /\ \A k \in ks : Flushed(mgr, k)
  BY DEF FlushDone, At
<1>3. Queues'
  BY <1>2, QueuesStay
<1>4. ks \subseteq TerminalsOf(t) /\ ks \subseteq Terminals /\ \A k \in ks : NoSession(mgr, k)
  BY <1>1, <1>2 DEF Fits, TerminalsOf
<1>5. disk' \in [Terminals -> Text \cup {None}] /\ deleted' \subseteq Terminals
  BY <1>1, <1>2 DEF TypeInv
<1>6. CASE mgr' = mgr /\ \E step \in {"read", "delete"} :
              /\ Proceed(t, 0, step)
              /\ step = "read" => job[t].kind \in {"open", "openMoved"}
  <2>1. PICK step \in {"read", "delete"} :
           Proceed(t, 0, step) /\ (step = "read" => job[t].kind \in {"open", "openMoved"})
    BY <1>6
  <2> DEFINE j == GoesOn(job[t], 0, step)
  <2>2. Turns(t, j)
    BY <2>1, ProceedTurns
  <2>3. /\ j \in Job \cup {Idle} /\ j.kind = job[t].kind /\ j.targets = ks
        /\ j.session = 0 /\ j.step = step
    <3>1. step \in Steps /\ 0 \in Nat
      BY DEF Steps
    <3> QED
      BY <1>1, <1>2, <3>1, GoesOnFacts
  <2> HIDE DEF j
  <2>4. Fits(t, j, mgr', deleted')
    BY <1>1, <1>2, <1>4, <1>6, <2>1, <2>3 DEF Fits
  <2>5. ASSUME NEW k \in ks PROVE Agrees(j, mgr', deleted', disk'[k], unsaved', k)
    <3>1. HistoryFit(k)
      BY <1>4 DEF Inv
    <3>2. Quiet(mgr, k)
      BY <1>2 DEF Flushed, Quiet
    <3> QED
      BY <1>2, <1>6, <3>1, <3>2 DEF Agrees, HistoryFit
  <2>6. Sound(mgr, mgr', ks)
    BY <1>1, <1>6, SoundNowhere
  <2>7. \A k \in Terminals \ ks :
           /\ disk'[k] = disk[k]
           /\ k \in deleted' => k \in deleted
           /\ \A d : FitAt(mgr, d, k) => FitAt(mgr', d, k)
           /\ ~Claims(j, k)
    BY <1>2, <1>6, <2>3 DEF Claims
  <2> HIDE DEF ks
  <2> QED
    BY <1>2, <1>3, <1>4, <1>5, <2>2, <2>3, <2>4, <2>5, <2>6, <2>7, StepOn
<1>7. CASE Release(t) /\ mgr' = Watch(mgr)
  <2>1. Turns(t, Idle)
    BY <1>7 DEF Release, Turns
  <2>2. Sound(mgr, mgr', {}) /\ KeepsHistory(mgr, mgr')
    BY <1>1, <1>7, WatchSound
  <2>3. \A k \in Terminals \ {} :
           /\ disk'[k] = disk[k]
           /\ k \in deleted' => k \in deleted
           /\ \A d : FitAt(mgr, d, k) => FitAt(mgr', d, k)
           /\ ~Claims(Idle, k)
    BY <1>2, <2>2, IdleFits DEF KeepsHistory
  <2>4. Idle \in Job \cup {Idle} /\ Fits(t, Idle, mgr', deleted')
    BY IdleFits
  <2>5. {} \in SUBSET TerminalsOf(t) /\ \A k \in {} : Agrees(Idle, mgr', deleted', disk'[k], unsaved', k)
    OBVIOUS
  <2> QED
    BY <1>2, <1>3, <1>5, <2>1, <2>2, <2>3, <2>4, <2>5, StepOn
<1>8. \/ mgr' = mgr /\ \E step \in {"read", "delete"} :
            /\ Proceed(t, 0, step)
            /\ step = "read" => job[t].kind \in {"open", "openMoved"}
      \/ Release(t) /\ mgr' = Watch(mgr)
  <2>1. CASE job[t].kind \in {"open", "openMoved"}
    BY <2>1 DEF FlushDone
  <2>2. CASE job[t].kind = "closeDelete"
    BY <2>2 DEF FlushDone
  <2>3. CASE job[t].kind \notin {"open", "openMoved", "closeDelete"}
    BY <2>3 DEF FlushDone
  <2> QED
    BY <2>1, <2>2, <2>3
<1> QED
  BY <1>6, <1>7, <1>8

\* A session is started with what was read of its terminal's file.
LEMMA ReadHistoryKeeps == ASSUME Inv, NEW t \in Threads, ReadHistory(t) PROVE Inv'
<1>1. TypeInv /\ Well(mgr) /\ Fits(t, job[t], mgr, deleted)
  BY DEF Inv
<1> DEFINE N == Len(mgr.sessions) + 1
<1>2. PICK k \in job[t].targets :
         LET h == Capped(Contents(disk[k])) IN
         /\ disk' = [disk EXCEPT ![k] = IF @ = None THEN None ELSE h]
         /\ mgr' = BeginStart(AddSession(mgr, k, h), N)
         /\ unsaved' = unsaved \ {k}
  BY DEF ReadHistory
<1>3. /\ UNCHANGED <<waiting, budget, checks, deleted>> /\ job[t].step = "read"
      /\ Proceed(t, N, "spawn")
  BY DEF ReadHistory, At
<1>4. Queues'
  BY <1>3, QueuesStay
<1>5. /\ k \in TerminalsOf(t) /\ k \in Terminals /\ ThreadOf[k] = t /\ NoSession(mgr, k)
      /\ k \notin deleted
  BY <1>1, <1>3 DEF Fits, TerminalsOf
<1> DEFINE c == Contents(disk[k])
           h == Capped(c)
           m == AddSession(mgr, k, h)
           n == BeginStart(m, N)
           j == GoesOn(job[t], N, "spawn")
<1>6. <<>> \in Text
  BY DEF Text
<1>7. c \in Text /\ disk[k] \in Text \cup {None}
  BY <1>1, <1>5, <1>6 DEF TypeInv, Contents
<1> HIDE DEF c
<1>8. h \in Text /\ Len(h) <= HistoryLimit /\ (disk[k] = None => h = <<>>)
  <2>1. h \in Text /\ Len(h) <= HistoryLimit
    BY <1>7, CappedFits
  <2>2. ASSUME disk[k] = None PROVE h = <<>>
    <3>1. c = <<>> /\ Len(<<>>) = 0 /\ Len(c) <= HistoryLimit
      BY <2>2, TerminalAssumption DEF c, Contents
    <3> QED
      BY <3>1 DEF Capped
  <2> QED
    BY <2>1, <2>2
<1>9. mgr' = n /\ disk' = [disk EXCEPT ![k] = IF @ = None THEN None ELSE h]
  BY <1>2 DEF c
<1> HIDE DEF h
<1>10. /\ disk' \in [Terminals -> Text \cup {None}] /\ Contents(disk'[k]) = h
       /\ \A l \in Terminals : l # k => disk'[l] = disk[l]
  <2>1. /\ disk' \in [Terminals -> Text \cup {None}]
        /\ disk'[k] = IF disk[k] = None THEN None ELSE h
        /\ \A l \in Terminals : l # k => disk'[l] = disk[l]
    BY <1>1, <1>5, <1>8, <1>9 DEF TypeInv
  <2>2. h # None
    BY <1>8, TerminalAssumption DEF Text
  <2> QED
    BY <1>8, <2>1, <2>2 DEF Contents
<1>11. /\ Sound(mgr, m, {k}) /\ Shows(mgr, m, k, h)
       /\ Len(m.sessions) = N /\ N \in Elements(m.table) /\ N \in 1 .. Len(m.sessions)
       /\ m.sessions[N].terminal = k
  BY <1>1, <1>5, <1>8, AddSessionSound
<1>12. N \in Nat
  BY <1>1, WellLengths
<1> HIDE DEF m, N
<1>13. /\ Sound(m, n, {}) /\ KeepsHistory(m, n)
       /\ Len(n.sessions) = Len(m.sessions) /\ n.sessions[N].process = 0
       /\ N \in Elements(m.table) => N \in Elements(n.table)
  BY <1>11, BeginStartSound DEF Sound
<1>14. Turns(t, j)
  BY <1>3, ProceedTurns
<1>15. /\ j \in Job \cup {Idle} /\ j.kind = job[t].kind /\ j.targets = job[t].targets
       /\ j.session = N /\ j.step = "spawn"
  BY <1>1, <1>3, <1>12, GoesOnFacts DEF Steps
<1> HIDE DEF n, j
<1>16. Sound(mgr, n, {k}) /\ Shows(mgr, n, k, h)
  <2>1. Sound(m, n, {k})
    BY <1>13, SoundWider
  <2> QED
    BY <1>1, <1>5, <1>11, <1>13, <2>1, SoundOn, ShowsOn
<1>17. Fits(t, j, n, deleted')
  <2>1. n.sessions[N].terminal = k /\ N \in 1 .. Len(n.sessions) /\ Reached(n, N)
    BY <1>11, <1>13 DEF Sound, Moves, Leaves, Reached
  <2> QED
    BY <1>1, <1>5, <1>13, <1>15, <2>1 DEF Fits
<1>18. Promised(n, disk'[k], k, unsaved')
  <2> SUFFICES ASSUME k \notin n.untimely PROVE FitAt(n, disk'[k], k)
    BY PromiseOfFit DEF FitAt
  <2>1. k \notin mgr.untimely
    BY <1>16 DEF Sound, Moves, Leaves
  <2>2. Attached(mgr, k) /\ Quiet(mgr, k)
    <3>1. HistoryFit(k) /\ Claims(job[t], k)
      BY <1>2, <1>3, <1>5 DEF Inv, Claims
    <3> QED
      BY <2>1, <3>1, PromiseAttached DEF HistoryFit
  <2>3. Latest(mgr, disk'[k], k) = h
    BY <1>10, <2>2 DEF Latest, Quiet
  <2> QED
    BY <1>16, <2>2, <2>3 DEF Shows
<1>19. \A l \in {k} : Agrees(j, mgr', deleted', disk'[l], unsaved', l)
  BY <1>3, <1>5, <1>9, <1>15, <1>18 DEF Agrees, Claims
<1>20. \A l \in Terminals \ {k} :
          /\ disk'[l] = disk[l]
          /\ l \in deleted' => l \in deleted
          /\ \A d : FitAt(mgr, d, l) => FitAt(mgr', d, l)
          /\ ~Claims(j, l)
  BY <1>3, <1>9, <1>10, <1>15, <1>16 DEF Shows, Claims
<1>21. deleted' \subseteq Terminals /\ {k} \in SUBSET TerminalsOf(t)
  BY <1>1, <1>3, <1>5 DEF TypeInv
<1>22. Sound(mgr, mgr', {k}) /\ Fits(t, j, mgr', deleted')
  BY <1>9, <1>16, <1>17
<1>23. UNCHANGED <<checks, budget>> /\ unsaved' \subseteq unsaved /\ unsaved \subseteq unsaved' \cup {k}
  BY <1>2, <1>3
<1> QED
  BY <1>4, <1>10, <1>14, <1>15, <1>19, <1>20, <1>21, <1>22, <1>23, StepOn

\* A step that leaves all files and histories alone, after which the operation is
\* about to spawn, or over.
LEMMA PlainKeeps ==
  ASSUME Inv, NEW t \in Threads, UNCHANGED <<waiting, disk, checks, deleted, unsaved>>,
         budget' = budget \/ Fault, NEW j \in Job \cup {Idle}, j.step \in {"spawn", "none"}, Turns(t, j),
         NEW ks \in SUBSET TerminalsOf(t), Sound(mgr, mgr', ks), KeepsHistory(mgr, mgr'),
         Fits(t, j, mgr', deleted'),
         \A k \in ks : k \in deleted => k \in mgr'.untimely
  PROVE  Inv'
<1>1. TypeInv
  BY DEF Inv
<1>2. Queues'
  BY QueuesStay
<1>3. \A k \in Terminals \ ks :
         /\ disk'[k] = disk[k]
         /\ k \in deleted' => k \in deleted
         /\ \A d : FitAt(mgr, d, k) => FitAt(mgr', d, k)
         /\ ~Claims(j, k)
  BY DEF KeepsHistory, Claims
<1>4. ASSUME NEW k \in ks PROVE Agrees(j, mgr', deleted', disk'[k], unsaved', k)
  <2>1. k \in Terminals
    BY DEF TerminalsOf
  <2>2. Promised(mgr', disk'[k], k, unsaved')
    BY <2>1, PromiseKept DEF KeepsHistory, Inv, HistoryFit
  <2> QED
    BY <2>2 DEF Agrees, Claims
<1>5. disk' \in [Terminals -> Text \cup {None}] /\ deleted' \subseteq Terminals
  BY <1>1 DEF TypeInv
<1> QED
  BY <1>2, <1>3, <1>4, <1>5, StepOn

LEMMA CleanedKeeps == ASSUME Inv, NEW t \in Threads, Cleaned(t) PROVE Inv'
<1> DEFINE o == job[t].session
           n == BeginStart(mgr, o)
           j == GoesOn(job[t], o, "spawn")
<1>1. TypeInv /\ Well(mgr) /\ Fits(t, job[t], mgr, deleted)
  BY DEF Inv
<1>2. /\ UNCHANGED <<waiting, budget, disk, checks, deleted, unsaved>> /\ job[t].step = "clean"
      /\ \/ Release(t) /\ mgr' = mgr
         \/ mgr' = n /\ Proceed(t, o, "spawn")
  BY DEF Cleaned, At
<1>3. {} \in SUBSET TerminalsOf(t) /\ \A k \in {} : k \in deleted => k \in mgr'.untimely
  OBVIOUS
<1>4. CASE Release(t) /\ mgr' = mgr
  <2>1. Turns(t, Idle) /\ Idle.step \in {"spawn", "none"}
    BY <1>4 DEF Release, Turns, Idle
  <2>2. Sound(mgr, mgr', {}) /\ KeepsHistory(mgr, mgr')
    BY <1>1, <1>4, SoundNowhere DEF KeepsHistory
  <2>3. Idle \in Job \cup {Idle} /\ Fits(t, Idle, mgr', deleted')
    BY IdleFits
  <2> QED
    BY <1>2, <1>3, <2>1, <2>2, <2>3, PlainKeeps
<1>5. CASE mgr' = n /\ Proceed(t, o, "spawn")
  <2>1. o \in 1 .. Len(mgr.sessions) /\ Reached(mgr, o) /\ ThreadOf[mgr.sessions[o].terminal] = t
    BY <1>1, <1>2 DEF Fits
  <2>2. o \in Nat /\ o \in Working
    BY <1>1, <2>1, WellLengths DEF Working
  <2>3. Turns(t, j)
    BY <1>5, ProceedTurns
  <2>4. /\ j \in Job \cup {Idle} /\ j.kind = job[t].kind /\ j.targets = job[t].targets
        /\ j.session = o /\ j.step = "spawn"
    BY <1>1, <1>2, <2>2, GoesOnFacts DEF Steps
  <2> HIDE DEF j, o
  <2>5. /\ Sound(mgr, n, {}) /\ KeepsHistory(mgr, n)
        /\ Len(n.sessions) = Len(mgr.sessions) /\ n.sessions[o].process = 0
    BY <1>1, <2>1, BeginStartSound
  <2> HIDE DEF n
  <2>6. Reached(n, o) /\ n.sessions[o].terminal = mgr.sessions[o].terminal
    BY <2>1, <2>2, <2>5 DEF Sound, Moves, Leaves
  <2>7. Fits(t, j, n, deleted')
    BY <1>1, <2>1, <2>4, <2>5, <2>6 DEF Fits
  <2> QED
    BY <1>2, <1>3, <1>5, <2>3, <2>4, <2>5, <2>7, PlainKeeps
<1> QED
  BY <1>2, <1>4, <1>5

LEMMA SpawnedKeeps == ASSUME Inv, NEW t \in Threads, Spawned(t) \/ SpawnedDeaf(t) PROVE Inv'
<1> DEFINE o == job[t].session
           k == mgr.sessions[o].terminal
<1>1. TypeInv /\ Well(mgr) /\ Fits(t, job[t], mgr, deleted)
  BY DEF Inv
<1>2. /\ UNCHANGED <<waiting, disk, checks, deleted, unsaved>> /\ (budget' = budget \/ Fault)
      /\ job[t].step = "spawn" /\ Release(t)
      /\ \/ \E shell \in {"running", "deaf"} : mgr' = Started(mgr, o, shell)
         \/ mgr' = StartFailed(mgr, o)
  BY DEF Spawned, SpawnedDeaf, At
<1>3. /\ o \in 1 .. Len(mgr.sessions) /\ Reached(mgr, o) /\ mgr.sessions[o].process = 0
      /\ ThreadOf[k] = t
  BY <1>1, <1>2 DEF Fits
<1>4. k \in TerminalsOf(t)
  BY <1>1, <1>3 DEF Well, SessionFit, Session, TerminalsOf
<1>5. Sound(mgr, mgr', {k}) /\ KeepsHistory(mgr, mgr')
  <2>1. CASE \E shell \in {"running", "deaf"} : mgr' = Started(mgr, o, shell)
    BY <1>1, <1>3, <2>1, StartedSound
  <2>2. CASE mgr' = StartFailed(mgr, o)
    <3>1. Sound(mgr, mgr', {}) /\ KeepsHistory(mgr, mgr')
      BY <1>1, <1>3, <2>2, StartFailedSound
    <3> QED
      BY <3>1, SoundWider
  <2> QED
    BY <1>2, <2>1, <2>2
<1>6. k \in deleted => k \in mgr'.untimely
  <2>1. k \in deleted => k \in mgr.untimely
    BY <1>3, <1>4 DEF Inv, HistoryFit, NoSession, Reached, TerminalsOf
  <2> QED
    BY <1>5, <2>1 DEF Sound, Moves, Leaves
<1> HIDE DEF k
<1>7. Turns(t, Idle) /\ Idle.step \in {"spawn", "none"}
  BY <1>2 DEF Release, Turns, Idle
<1>8. Idle \in Job \cup {Idle} /\ Fits(t, Idle, mgr', deleted')
  BY IdleFits
<1>9. {k} \in SUBSET TerminalsOf(t) /\ \A l \in {k} : l \in deleted => l \in mgr'.untimely
  BY <1>4, <1>6
<1> QED
  BY <1>2, <1>5, <1>7, <1>8, <1>9, PlainKeeps

\* An operation ends that has removed the files ks of its terminals.
LEMMA DeletionKeeps ==
  ASSUME Inv, NEW t \in Threads, NEW ks \in SUBSET job[t].targets,
         UNCHANGED <<waiting, checks, unsaved>>, budget' = budget \/ Fault,
         job[t].step = "delete", Release(t),
         disk' = [k \in Terminals |-> IF k \in ks THEN None ELSE disk[k]],
         deleted' = deleted \cup ks, mgr' = Watch(mgr)
  PROVE  Inv'
<1>1. TypeInv /\ Well(mgr) /\ Fits(t, job[t], mgr, deleted)
  BY DEF Inv
<1>2. UNCHANGED <<waiting, checks, unsaved>>
  OBVIOUS
<1>3. Queues'
  BY <1>2, QueuesStay
<1>4. /\ ks \in SUBSET TerminalsOf(t) /\ ks \subseteq Terminals
      /\ \A k \in ks : NoSession(mgr, k) /\ Claims(job[t], k)
  BY <1>1, <1>2 DEF Fits, TerminalsOf, Claims
<1>5. Turns(t, Idle) /\ Idle \in Job \cup {Idle} /\ Fits(t, Idle, mgr', deleted')
  BY <1>2, IdleFits DEF Release, Turns
<1>6. Sound(mgr, mgr', {}) /\ KeepsHistory(mgr, mgr')
  BY <1>1, <1>2, WatchSound
<1>7. Sound(mgr, mgr', ks)
  BY <1>6, SoundWider
<1>8. \A k \in Terminals \ ks :
         /\ disk'[k] = disk[k]
         /\ k \in deleted' => k \in deleted
         /\ \A d : FitAt(mgr, d, k) => FitAt(mgr', d, k)
         /\ ~Claims(Idle, k)
  BY <1>2, <1>6, IdleFits DEF KeepsHistory
<1>9. disk' \in [Terminals -> Text \cup {None}] /\ deleted' \subseteq Terminals
  BY <1>1, <1>2, <1>4 DEF TypeInv
<1>10. ASSUME NEW k \in ks PROVE Agrees(Idle, mgr', deleted', disk'[k], unsaved', k)
  <2>1. k \in Terminals /\ HistoryFit(k) /\ NoSession(mgr, k) /\ Claims(job[t], k) /\ disk'[k] = None
    BY <1>2, <1>4 DEF Inv
  <2>2. NoSession(mgr', k)
    BY <1>6, <2>1 DEF Sound, Moves, Leaves
  <2>3. Promised(mgr', disk'[k], k, unsaved')
    <3>1. Attached(mgr', k)
      BY <1>6, <2>1, PromiseAttached DEF HistoryFit, KeepsHistory
    <3> QED
      BY <2>2, <3>1, PromiseOfFit DEF FitAt, Attached, NoSession
  <2>4. k \notin mgr'.untimely => Quiet(mgr', k)
    <3>1. k \notin mgr'.untimely => k \notin mgr.untimely
      BY <1>6 DEF Sound, Moves, Leaves
    <3>2. k \notin mgr'.untimely => Quiet(mgr, k)
      BY <2>1, <3>1 DEF HistoryFit
    <3> QED
      BY <1>6, <2>1, <3>2 DEF Sound, Moves, Leaves
  <2> QED
    BY <2>1, <2>2, <2>3, <2>4, IdleFits DEF Agrees
<1> QED
  BY <1>2, <1>3, <1>4, <1>5, <1>7, <1>8, <1>9, <1>10, StepOn

LEMMA DeleteHistoryKeeps ==
  ASSUME Inv, NEW t \in Threads, DeleteHistory(t) \/ DeleteFails(t)
  PROVE  Inv'
<1>1. CASE DeleteHistory(t)
  BY <1>1, DeletionKeeps DEF DeleteHistory, At
<1>2. CASE DeleteFails(t)
  <2>1. PICK ks \in SUBSET job[t].targets :
           /\ disk' = [k \in Terminals |-> IF k \in ks THEN None ELSE disk[k]]
           /\ deleted' = deleted \cup ks
    BY <1>2 DEF DeleteFails
  <2> QED
    BY <1>2, <2>1, DeletionKeeps DEF DeleteFails
<1> QED
  BY <1>1, <1>2

LEMMA ReadFailsKeeps == ASSUME Inv, NEW t \in Threads, ReadFails(t) PROVE Inv'
<1>1. /\ UNCHANGED <<waiting, disk, checks, deleted, unsaved>> /\ (budget' = budget \/ Fault)
      /\ Release(t) /\ mgr' = mgr
  BY DEF ReadFails
<1>2. Turns(t, Idle) /\ Idle.step \in {"spawn", "none"}
  BY <1>1 DEF Release, Turns, Idle
<1>3. Sound(mgr, mgr', {}) /\ KeepsHistory(mgr, mgr')
  BY <1>1, SoundNowhere DEF Inv, KeepsHistory
<1>4. Idle \in Job \cup {Idle} /\ Fits(t, Idle, mgr', deleted')
  BY IdleFits
<1>5. {} \in SUBSET TerminalsOf(t) /\ \A k \in {} : k \in deleted => k \in mgr'.untimely
  OBVIOUS
<1> QED
  BY <1>1, <1>2, <1>3, <1>4, <1>5, PlainKeeps

---------------------------------------------------------------------------
(* The invariant holds, and what follows from it.                          *)

\* The manager starts with no session, no process and nothing to write.
LEMMA InitInv == ASSUME Init PROVE Inv
<1>1. /\ mgr.table = <<>> /\ mgr.sessions = <<>> /\ mgr.processes = <<>> /\ mgr.killTimers = {}
      /\ mgr.polling = FALSE /\ mgr.untimely = {}
      /\ mgr.pending = [k \in Terminals |-> None]
      /\ mgr.writing = [k \in Terminals |-> <<>>] /\ mgr.detached = [k \in Terminals |-> <<>>]
  BY DEF Init
<1>2. Len(<<>>) = 0 /\ Elements(<<>>) = {} /\ NoDups(<<>>)
  BY DEF Elements, NoDups
<1>3. mgr \in Manager
  <2>1. /\ <<>> \in Seq(Nat) /\ <<>> \in Seq(Session)
        /\ <<>> \in Seq(Process)
        /\ <<>> \in Seq(WriteTask) /\ <<>> \in Seq(Seq(WriteTask))
    OBVIOUS
  <2>2. /\ [k \in Terminals |-> None] \in [Terminals -> Text \cup {None}]
        /\ [k \in Terminals |-> <<>>] \in [Terminals -> Seq(WriteTask)]
        /\ [k \in Terminals |-> <<>>] \in [Terminals -> Seq(Seq(WriteTask))]
    BY <2>1
  <2>3. FALSE \in BOOLEAN /\ {} \in SUBSET Nat /\ {} \in SUBSET Terminals
    OBVIOUS
  <2> DEFINE pe == [k \in Terminals |-> None]
             wr == [k \in Terminals |-> <<>>]
  <2>4. mgr = [table |-> <<>>, sessions |-> <<>>, processes |-> <<>>, killTimers |-> {},
               polling |-> FALSE, pending |-> pe, writing |-> wr, detached |-> wr, untimely |-> {}]
    BY DEF Init
  <2>5. /\ pe \in [Terminals -> Text \cup {None}]
        /\ wr \in [Terminals -> Seq(WriteTask)] /\ wr \in [Terminals -> Seq(Seq(WriteTask))]
    BY <2>2
  <2> HIDE DEF pe, wr
  <2> QED
    BY <2>1, <2>3, <2>4, <2>5 DEF Manager
<1>4. Well(mgr)
  <2>1. \A k \in Terminals : mgr.detached[k] = <<>>
    BY <1>1
  <2>2. 1 .. 0 = {}
    OBVIOUS
  <2> QED
    BY <1>1, <1>2, <1>3, <2>1, <2>2 DEF Well
<1>5. Bounded(mgr) /\ Polled(mgr) /\ Escalates(mgr)
  <2>1. InactiveSet(mgr) = {}
    BY <1>1, <1>2 DEF InactiveSet
  <2>2. Bounded(mgr)
    BY <2>1, FS_EmptySet, TerminalAssumption DEF Bounded
  <2>3. 1 .. 0 = {}
    OBVIOUS
  <2> QED
    BY <1>1, <1>2, <2>2, <2>3 DEF Polled, Escalates
<1>6. /\ disk = [k \in Terminals |-> None] /\ waiting = [t \in Threads |-> <<>>]
      /\ job = [t \in Threads |-> Idle] /\ checks = {} /\ deleted = {}
      /\ unsaved = {}
      /\ budget = [operations |-> MaxOperations, outputs |-> MaxOutputs,
                   polls |-> MaxPolls, disposals |-> MaxDisposals, faults |-> MaxFaults]
  BY DEF Init
<1>7. TypeInv
  <2>1. <<>> \in Seq(Operation)
    OBVIOUS
  <2>2. /\ budget \in Budget
        /\ budget.outputs <= MaxOutputs /\ budget.disposals <= MaxDisposals
    BY <1>6, TerminalAssumption DEF Budget
  <2> QED
    BY <1>6, <2>1, <2>2 DEF TypeInv
<1>8. \A t \in Threads : QueueFit(t)
  <2>1. 1 .. 0 = {}
    OBVIOUS
  <2> QED
    BY <1>2, <1>6, <2>1 DEF QueueFit
<1>9. \A t \in Threads : Fits(t, job[t], mgr, deleted)
  BY <1>6, IdleFits
<1>10. \A k \in Terminals : HistoryFit(k)
  BY <1>1, <1>2, <1>6, IdleFits DEF HistoryFit, Promised, FitAt
<1> QED
  BY <1>4, <1>5, <1>7, <1>8, <1>9, <1>10 DEF Inv

LEMMA BeginKeeps ==
  ASSUME Inv, NEW t \in Threads, waiting[t] # <<>>, Begin(t, Head(waiting[t]))
  PROVE  Inv'
<1> DEFINE op == Head(waiting[t])
<1> HIDE DEF op
<1>1. op = Head(waiting[t]) /\ Begin(t, op)
  BY DEF op
<1>2. CASE \E k \in op.targets : OpenNew(t, op, k)
  BY <1>1, <1>2, OpenNewKeeps
<1>3. CASE \E k \in op.targets : Reopen(t, op, k)
  BY <1>1, <1>3, ReopenKeeps
<1>4. CASE \E k \in op.targets : Attach(t, op, k)
  BY <1>1, <1>4, AttachKeeps
<1>5. CASE \E k \in op.targets : Restart(t, op, k)
  BY <1>1, <1>5, RestartKeeps
<1>6. CASE \E k \in op.targets : Clear(t, op, k)
  BY <1>1, <1>6, ClearKeeps
<1>7. CASE Close(t, op)
  BY <1>1, <1>7, CloseKeeps
<1>8. CASE Refused(t, op)
  BY <1>1, <1>8, RefusedKeeps
<1> QED
  BY <1>1, <1>2, <1>3, <1>4, <1>5, <1>6, <1>7, <1>8 DEF Begin

LEMMA NextKeeps == ASSUME Inv, Next PROVE Inv'
<1>1. ASSUME NEW op \in Operation, Request(op) PROVE Inv'
  BY <1>1, RequestKeeps
<1>2. ASSUME NEW t \in Threads, Step(t) PROVE Inv'
  <2>1. CASE waiting[t] # <<>> /\ Begin(t, Head(waiting[t]))
    BY <2>1, BeginKeeps
  <2>2. CASE FlushPending(t)
    BY <2>2, FlushPendingKeeps
  <2>3. CASE FlushDone(t)
    BY <2>3, FlushDoneKeeps
  <2>4. CASE ReadHistory(t)
    BY <2>4, ReadHistoryKeeps
  <2>5. CASE Cleaned(t)
    BY <2>5, CleanedKeeps
  <2>6. CASE Spawned(t) \/ SpawnedDeaf(t)
    BY <2>6, SpawnedKeeps
  <2>7. CASE DeleteHistory(t) \/ DeleteFails(t)
    BY <2>7, DeleteHistoryKeeps
  <2>8. CASE ReadFails(t)
    BY <2>8, ReadFailsKeeps
  <2> QED
    BY <1>2, <2>1, <2>2, <2>3, <2>4, <2>5, <2>6, <2>7, <2>8 DEF Step
<1>3. ASSUME NEW k \in Terminals, Writes(k) PROVE Inv'
  <2>1. CASE PersistTimer(k)
    BY <2>1, PersistTimerKeeps
  <2>2. CASE WriteLands(k)
    BY <2>2, WriteLandsKeeps
  <2>3. CASE \E i \in 1 .. Len(mgr.detached[k]) : DetachedWriteLands(k, i)
    BY <2>3, DetachedWriteLandsKeeps
  <2>4. CASE WriteFails(k)
    BY <2>4, WriteFailsKeeps
  <2> QED
    BY <1>3, <2>1, <2>2, <2>3, <2>4 DEF Writes
<1>4. ASSUME NEW o \in 1 .. Len(mgr.sessions), Output(o) \/ Exit(o) PROVE Inv'
  BY <1>4, OutputKeeps, ExitKeeps
<1>5. ASSUME NEW p \in 1 .. Len(mgr.processes), Terminate(p) \/ Kill(p) \/ KillFails(p) PROVE Inv'
  BY <1>5, TerminateKeeps, KillKeeps, KillFailsKeeps
<1>6. CASE Poll
  BY <1>6, PollKeeps
<1>7. ASSUME NEW c \in checks, NEW children \in BOOLEAN, Answer(c, children) PROVE Inv'
  BY <1>7, AnswerKeeps
<1>8. CASE Dispose
  BY <1>8, DisposeKeeps
<1> QED
  BY <1>1, <1>2, <1>3, <1>4, <1>5, <1>6, <1>7, <1>8 DEF Next

LEMMA StepKeepsInv == Inv /\ [Next]_vars => Inv'
<1>1. ASSUME Inv, UNCHANGED vars PROVE Inv'
  BY <1>1 DEF vars, Inv, TypeInv, QueueFit, HistoryFit, Promised, FitAt, Latest, Quiet, NoSession, Fits,
              Reached, Claims
<1> QED
  BY <1>1, NextKeeps

\* The inductive invariant: manager, operations under way and files fit together
\* after every step of every operation, shell, timer and poll.
THEOREM InvHolds == Spec => []Inv
<1>1. Init => Inv
  BY InitInv
<1> QED
  BY <1>1, StepKeepsInv, PTL DEF Spec

\* The manager, its jobs and the files have their types.
THEOREM TypesHold == Spec => []TypeOK
<1>1. Inv => TypeOK
  <2> SUFFICES ASSUME Inv PROVE TypeOK
    OBVIOUS
  <2>1. TypeInv /\ Well(mgr)
    BY DEF Inv
  <2>2. \A i \in 1 .. Len(mgr.table) : mgr.table[i] \in 1 .. Len(mgr.sessions)
    BY <2>1 DEF Well, Elements
  <2>3. \A o \in 1 .. Len(mgr.sessions) :
          /\ mgr.sessions[o].process \in 0 .. Len(mgr.processes)
          /\ Len(mgr.sessions[o].history) <= HistoryLimit
    BY <2>1 DEF Well, SessionFit
  <2> QED
    BY <2>1, <2>2, <2>3 DEF TypeOK, TypeInv, Well, Budget
<1> QED
  BY <1>1, InvHolds, PTL

\* No shell is left running that close or restart could not reach, and whoever was
\* told to go is made to go, unless its kill throws: through every interleaving of
\* operations, exits, evictions and the disposal of the manager.
THEOREM NoProcessStrays == Spec => []NoStrayProcess
<1>1. Inv => NoStrayProcess
  <2> SUFFICES ASSUME Inv, NEW p \in 1 .. Len(mgr.processes)
               PROVE  /\ mgr.processes[p] \in {"running", "deaf"} =>
                           \E o \in 1 .. Len(mgr.sessions) :
                             /\ mgr.sessions[o].process = p
                             /\ mgr.sessions[o].status = "running"
                             /\ Held(mgr, o) \/ mgr.sessions[o].terminal \in mgr.untimely
                      /\ mgr.processes[p] = "signalled" =>
                           p \in mgr.killTimers \/ budget.disposals < MaxDisposals
    BY DEF NoStrayProcess
  <2>1. Well(mgr)
    BY DEF Inv
  <2>2. ASSUME mgr.processes[p] \in {"running", "deaf"}
        PROVE  \E o \in 1 .. Len(mgr.sessions) :
                 /\ mgr.sessions[o].process = p
                 /\ mgr.sessions[o].status = "running"
                 /\ Held(mgr, o) \/ mgr.sessions[o].terminal \in mgr.untimely
    <3>1. PICK o \in 1 .. Len(mgr.sessions) : mgr.sessions[o].process = p
      BY <2>1, <2>2 DEF Well
    <3>2. p # 0
      BY <2>1, WellLengths
    <3>3. mgr.sessions[o].status = "running"
      BY <2>1, <3>1, <3>2 DEF Well, SessionFit
    <3>4. Reached(mgr, o)
      BY <2>1, <3>1, <3>2 DEF Well
    <3> QED
      BY <3>1, <3>3, <3>4, HeldIsElement DEF Reached
  <2>3. ASSUME mgr.processes[p] = "signalled"
        PROVE  p \in mgr.killTimers \/ budget.disposals < MaxDisposals
    <3>1. CASE budget.disposals = MaxDisposals
      BY <2>3, <3>1 DEF Inv, Escalates
    <3>2. CASE budget.disposals # MaxDisposals
      BY <3>2, TerminalAssumption DEF Inv, TypeInv, Budget
    <3> QED
      BY <3>1, <3>2
  <2> QED
    BY <2>2, <2>3
<1> QED
  BY <1>1, InvHolds, PTL

\* The map never holds more inactive sessions than it may.
THEOREM RetentionIsBounded == Spec => []RetentionBound
<1>1. Inv => RetentionBound
  <2> SUFFICES ASSUME Inv PROVE RetentionBound
    OBVIOUS
  <2>1. Well(mgr) /\ Bounded(mgr)
    BY DEF Inv
  <2>2. /\ Inactive(mgr) \in Seq(Nat) /\ NoDups(Inactive(mgr))
        /\ Elements(Inactive(mgr)) = InactiveSet(mgr)
    BY <2>1, InactiveElements
  <2>3. Cardinality(InactiveSet(mgr)) = Len(Inactive(mgr))
    BY <2>2, CountElements
  <2> QED
    BY <2>1, <2>3 DEF RetentionBound, Bounded
<1> QED
  BY <1>1, InvHolds, PTL

\* Once nothing is left to be written, a terminal's file says what the terminal
\* shows, unless its last write failed; a history whose file was removed does not
\* come back.
THEOREM FilesCatchUp == Spec => []HistoryReachesDisk
<1>1. Inv => HistoryReachesDisk
  <2> SUFFICES ASSUME Inv, NEW k \in Terminals \ mgr.untimely
               PROVE  /\ (SessionOf(mgr, k) # 0 /\ k \notin unsaved /\ mgr.pending[k] = None
                            /\ mgr.writing[k] = <<>> /\ mgr.detached[k] = <<>>)
                           => Contents(disk[k]) = mgr.sessions[SessionOf(mgr, k)].history
                      /\ k \in deleted => disk[k] = None
    BY DEF HistoryReachesDisk
  <2>1. Well(mgr) /\ HistoryFit(k)
    BY DEF Inv
  <2>2. ASSUME SessionOf(mgr, k) # 0, k \notin unsaved, mgr.pending[k] = None, mgr.writing[k] = <<>>
        PROVE  Contents(disk[k]) = mgr.sessions[SessionOf(mgr, k)].history
    <3> DEFINE o == SessionOf(mgr, k)
    <3>1. o \in Elements(mgr.table) /\ mgr.sessions[o].terminal = k
      BY <2>1, <2>2, SessionOfFacts
    <3> HIDE DEF o
    <3>2. Latest(mgr, disk[k], k) = mgr.sessions[o].history
      BY <2>1, <2>2, <3>1 DEF HistoryFit, Promised, FitAt
    <3> QED
      BY <2>2, <3>2 DEF Latest, o
  <2> QED
    BY <2>1, <2>2 DEF HistoryFit
<1> QED
  BY <1>1, InvHolds, PTL

\* What a session says of its shell's children was said of the shell it runs, and
\* a running shell is polled.
THEOREM BusySaysItsOwn == Spec => []BusyIsCurrent
<1>1. Inv => BusyIsCurrent
  <2> SUFFICES ASSUME Inv, NEW o \in 1 .. Len(mgr.sessions)
               PROVE  /\ mgr.sessions[o].busy \in {0, mgr.sessions[o].process}
                      /\ Held(mgr, o) /\ mgr.sessions[o].status = "running" => mgr.polling
    BY DEF BusyIsCurrent
  <2>1. Well(mgr) /\ Polled(mgr)
    BY DEF Inv
  <2> QED
    BY <2>1, HeldIsElement DEF Well, SessionFit, Polled
<1> QED
  BY <1>1, InvHolds, PTL
=============================================================================
