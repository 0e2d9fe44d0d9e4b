------------------------- MODULE QueuedSend_proofs -------------------------
(***************************************************************************)
(* Theorems about QueuedSend, for every number of messages and every bound *)
(* on what the user does: no variable leaves its type and no queued        *)
(* message is lost or, if the user is patient, overtaken, whatever goes    *)
(* wrong; while nothing does, each message is sent once, when the one      *)
(* before it is over.                                                      *)
(***************************************************************************)
EXTENDS QueuedSend, SequenceTheorems, WellFoundedInduction, TLAPS

---------------------------------------------------------------------------
(* What the operations of messageQueue.ts do to the messages in a queue.   *)

\* Whether m is in q, with its place named.
LEMMA QueuedAt ==
  ASSUME NEW M, NEW q \in Seq(Entry(M)), NEW i \in 1 .. Len(q)
  PROVE  q[i] \in Entry(M) /\ q[i].msg \in M /\ IsQueued(q, q[i].msg)
<1>1. q[i] \in Entry(M)
  BY ElementOfSeq
<1> QED
  BY <1>1 DEF Entry, IsQueued

\* createQueuedMessage yields an entry.
LEMMA NewEntryType == ASSUME NEW M, NEW m \in M PROVE NewEntry(m) \in Entry(M)
  BY DEF NewEntry, Entry

\* A sequence that is built place by place from another has its length.
LEMMA SeqByPlace ==
  ASSUME NEW S, NEW n \in Nat, NEW f \in [1 .. n -> S]
  PROVE  f \in Seq(S) /\ Len(f) = n
  BY DEF Seq

\* markQueuedHeadDispatching keeps every message in its place.
LEMMA MarkKeeps ==
  ASSUME NEW M, NEW q \in Seq(Entry(M)), NEW m \in M, NEW since \in Nat
  PROVE  /\ MarkDispatching(q, m, since) \in Seq(Entry(M))
         /\ \A x : IsQueued(MarkDispatching(q, m, since), x) <=> IsQueued(q, x)
<1> DEFINE r == MarkDispatching(q, m, since)
<1>1. Len(q) \in Nat
  BY LenProperties
<1>2. \A i \in 1 .. Len(q) : q[i] \in Entry(M)
  BY ElementOfSeq
<1>3. r \in [1 .. Len(q) -> Entry(M)]
  BY <1>2 DEF MarkDispatching, Entry
<1>4. r \in Seq(Entry(M)) /\ Len(r) = Len(q)
  BY <1>1, <1>3, SeqByPlace
<1>5. \A i \in 1 .. Len(q) : r[i].msg = q[i].msg
  BY <1>2 DEF MarkDispatching, Entry
<1> HIDE DEF r
<1> QED
  BY <1>4, <1>5 DEF IsQueued, r

\* requeueDispatchingHead keeps every message in its place.
LEMMA RequeueKeeps ==
  ASSUME NEW M, NEW q \in Seq(Entry(M)), NEW msgs
  PROVE  /\ Requeue(q, msgs) \in Seq(Entry(M))
         /\ \A x : IsQueued(Requeue(q, msgs), x) <=> IsQueued(q, x)
<1> DEFINE r == Requeue(q, msgs)
<1>1. Len(q) \in Nat
  BY LenProperties
<1>2. \A i \in 1 .. Len(q) : q[i] \in Entry(M)
  BY ElementOfSeq
<1>3. r \in [1 .. Len(q) -> Entry(M)]
  BY <1>2 DEF Requeue, Entry, NewEntry
<1>4. r \in Seq(Entry(M)) /\ Len(r) = Len(q)
  BY <1>1, <1>3, SeqByPlace
<1>5. \A i \in 1 .. Len(q) : r[i].msg = q[i].msg
  BY <1>2 DEF Requeue, NewEntry
<1> HIDE DEF r
<1> QED
  BY <1>4, <1>5 DEF IsQueued, r

\* enqueueMessage adds its message and keeps the others.
LEMMA EnqueueKeeps ==
  ASSUME NEW M, NEW q \in Seq(Entry(M)), NEW m \in M
  PROVE  /\ Append(q, NewEntry(m)) \in Seq(Entry(M))
         /\ IsQueued(Append(q, NewEntry(m)), m)
         /\ \A x : IsQueued(q, x) => IsQueued(Append(q, NewEntry(m)), x)
<1> DEFINE r == Append(q, NewEntry(m))
<1>1. /\ r \in Seq(Entry(M))
      /\ Len(q) \in Nat
      /\ Len(r) = Len(q) + 1
      /\ \A i \in 1 .. Len(q) : r[i] = q[i]
      /\ r[Len(q) + 1] = NewEntry(m)
  BY NewEntryType, AppendProperties, LenProperties
<1>2. NewEntry(m).msg = m
  BY DEF NewEntry
<1> HIDE DEF r
<1>3. IsQueued(r, m)
  BY <1>1, <1>2 DEF IsQueued
<1>4. \A x : IsQueued(q, x) => IsQueued(r, x)
  BY <1>1 DEF IsQueued
<1> QED
  BY <1>1, <1>3, <1>4 DEF r

\* moveQueuedMessage exchanges two entries.
LEMMA MoveKeeps ==
  ASSUME NEW M, NEW q \in Seq(Entry(M)), NEW to, CanMove(q, to)
  PROVE  /\ Move(q, to) \in Seq(Entry(M))
         /\ \A x : IsQueued(q, x) => IsQueued(Move(q, to), x)
         /\ q[to].msg \in M /\ q[MoveTarget(q)].msg \in M
<1> DEFINE from == MoveTarget(q)
           r == Move(q, to)
<1>1. /\ Len(q) \in Nat /\ from \in 1 .. Len(q) /\ to \in 1 .. Len(q)
  BY LenProperties, EmptySeq DEF CanMove, MoveTarget
<1>2. q[from] \in Entry(M) /\ q[to] \in Entry(M)
  BY <1>1, ElementOfSeq
<1>3. DOMAIN q = 1 .. Len(q)
  BY LenProperties
<1>4. /\ r = [[q EXCEPT ![from] = q[to]] EXCEPT ![to] = q[from]]
      /\ Len(r) = Len(q)
      /\ r \in Seq(Entry(M))
  BY <1>1, <1>2, <1>3, ExceptSeq DEF Move
<1>5. \A i \in 1 .. Len(q) : r[i] = IF i = to THEN q[from] ELSE IF i = from THEN q[to] ELSE q[i]
  BY <1>1, <1>3, <1>4
<1> HIDE DEF r, from
<1>6. \A x : IsQueued(q, x) => IsQueued(r, x)
  BY <1>1, <1>4, <1>5 DEF IsQueued
<1> QED
  BY <1>1, <1>2, <1>4, <1>6 DEF r, from, Entry

\* Of some places one is the first.
LEMMA FirstOf ==
  ASSUME NEW W \in SUBSET Nat, W # {}
  PROVE  \E i \in W : \A j \in W : i <= j
<1> DEFINE Less == OpToRel(<, Nat)
<1>1. IsWellFoundedOn(Less, Nat)
  BY NatLessThanWellFounded
<1>2. \A x, y \in Nat : <<x, y>> \in Less <=> x < y
  BY DEF OpToRel
<1> HIDE DEF Less
<1>3. PICK i \in W : \A j \in W : ~ (<<j, i>> \in Less)
  BY <1>1, WFMin
<1>4. \A j \in W : ~ (j < i)
  BY <1>2, <1>3
<1> QED
  BY <1>4

\* The pump's head is an entry that waits.
LEMMA FirstWaitingIn ==
  ASSUME NEW q, Waiting(q) # {}
  PROVE  FirstWaiting(q) \in Waiting(q) /\ FirstWaiting(q) \in 1 .. Len(q)
<1>1. Waiting(q) \subseteq 1 .. Len(q) /\ 1 .. Len(q) \subseteq Nat
  BY DEF Waiting
<1>2. \E i \in Waiting(q) : \A j \in Waiting(q) : i <= j
  BY <1>1, FirstOf, Zenon
<1>3. FirstWaiting(q) \in Waiting(q)
  BY <1>2, Zenon DEF FirstWaiting
<1> QED
  BY <1>1, <1>3

\* removeQueuedMessage takes one entry out, and those behind it move up.
LEMMA RemovePlaces ==
  ASSUME NEW S, NEW q \in Seq(S), NEW k \in 1 .. Len(q)
  PROVE  /\ RemoveAt(q, k) \in Seq(S)
         /\ Len(q) \in Nat /\ Len(RemoveAt(q, k)) = Len(q) - 1
         /\ \A i \in 1 .. Len(q) - 1 :
              RemoveAt(q, k)[i] = IF i <= k - 1 THEN q[i] ELSE q[i + 1]
<1> DEFINE front == SubSeq(q, 1, k - 1)
           back  == SubSeq(q, k + 1, Len(q))
<1>1. Len(q) \in Nat /\ \A i \in 1 .. Len(q) : q[i] \in S
  BY LenProperties, ElementOfSeq
<1>2. /\ front \in Seq(S)
      /\ Len(front) = k - 1
      /\ \A i \in 1 .. k - 1 : front[i] = q[i]
  <2>1. \A i \in 1 .. k - 1 : q[i] \in S
    BY <1>1
  <2>2. /\ front \in Seq(S)
        /\ Len(front) = IF 1 <= k - 1 THEN (k - 1) - 1 + 1 ELSE 0
        /\ \A i \in 1 .. (k - 1) - 1 + 1 : front[i] = q[1 + i - 1]
    BY <1>1, <2>1, SubSeqProperties, SMTT(30)
  <2> QED
    BY <1>1, <2>2
<1>3. /\ back \in Seq(S)
      /\ Len(back) = Len(q) - k
      /\ \A i \in 1 .. Len(q) - k : back[i] = q[k + i]
  <2>1. \A i \in k + 1 .. Len(q) : q[i] \in S
    BY <1>1
  <2>2. /\ back \in Seq(S)
        /\ Len(back) = IF k + 1 <= Len(q) THEN Len(q) - (k + 1) + 1 ELSE 0
        /\ \A i \in 1 .. Len(q) - (k + 1) + 1 : back[i] = q[k + 1 + i - 1]
    BY <1>1, <2>1, SubSeqProperties, SMTT(30)
  <2> QED
    BY <1>1, <2>2
<1> HIDE DEF front, back
<1>4. RemoveAt(q, k) = front \o back
  BY DEF RemoveAt, front, back
<1>5. /\ front \o back \in Seq(S)
      /\ Len(front \o back) = Len(q) - 1
      /\ \A i \in 1 .. Len(q) - 1 :
           (front \o back)[i] = IF i <= k - 1 THEN q[i] ELSE q[i + 1]
  <2>1. /\ front \o back \in Seq(S)
        /\ Len(front \o back) = Len(front) + Len(back)
        /\ \A i \in 1 .. Len(front) + Len(back) :
             (front \o back)[i] = IF i <= Len(front) THEN front[i] ELSE back[i - Len(front)]
    BY <1>2, <1>3, ConcatProperties
  <2> QED
    BY <1>1, <1>2, <1>3, <2>1
<1> QED
  BY <1>1, <1>4, <1>5

\* It keeps the others.
LEMMA RemoveKeeps ==
  ASSUME NEW S, NEW q \in Seq(S), NEW k \in 1 .. Len(q)
  PROVE  /\ RemoveAt(q, k) \in Seq(S)
         /\ \A i \in 1 .. Len(q) :
              i # k => \E j \in 1 .. Len(RemoveAt(q, k)) : RemoveAt(q, k)[j] = q[i]
<1> DEFINE r == RemoveAt(q, k)
<1>1. /\ r \in Seq(S) /\ Len(q) \in Nat /\ Len(r) = Len(q) - 1
      /\ \A i \in 1 .. Len(q) - 1 : r[i] = IF i <= k - 1 THEN q[i] ELSE q[i + 1]
  BY RemovePlaces
<1> HIDE DEF r
<1>2. ASSUME NEW i \in 1 .. Len(q), i # k
      PROVE  \E j \in 1 .. Len(r) : r[j] = q[i]
  <2>1. CASE i < k
    BY <1>1, <2>1
  <2>2. CASE i > k
    <3>1. i - 1 \in 1 .. Len(q) - 1 /\ ~(i - 1 <= k - 1) /\ (i - 1) + 1 = i
      BY <1>1, <2>2
    <3> QED
      BY <1>1, <3>1
  <2>3. i < k \/ i > k
    BY <1>1, <1>2
  <2> QED
    BY <2>1, <2>2, <2>3
<1> QED
  BY <1>1, <1>2 DEF r

\* The cancel key takes out the last entry.
LEMMA CancelKeeps ==
  ASSUME NEW M, NEW q \in Seq(Entry(M)), q # <<>>
  PROVE  /\ Cancel(q) \in Seq(Entry(M))
         /\ q[Len(q)].msg \in M
         /\ \A x : IsQueued(q, x) => x = q[Len(q)].msg \/ IsQueued(Cancel(q), x)
<1>1. Len(q) \in Nat /\ Len(q) >= 1 /\ \A i \in 1 .. Len(q) : q[i] \in Entry(M)
  <2>1. Len(q) \in Nat \ {0}
    BY EmptySeq
  <2> QED
    BY <2>1, ElementOfSeq
<1>2. /\ Cancel(q) \in Seq(Entry(M))
      /\ Len(Cancel(q)) = Len(q) - 1
      /\ \A i \in 1 .. Len(q) - 1 : Cancel(q)[i] = q[i]
  <2>1. \A i \in 1 .. Len(q) - 1 : q[i] \in Entry(M)
    BY <1>1
  <2>2. /\ Cancel(q) \in Seq(Entry(M))
        /\ Len(Cancel(q)) = IF 1 <= Len(q) - 1 THEN (Len(q) - 1) - 1 + 1 ELSE 0
        /\ \A i \in 1 .. (Len(q) - 1) - 1 + 1 : Cancel(q)[i] = q[1 + i - 1]
    BY <1>1, <2>1, SubSeqProperties, SMTT(30) DEF Cancel
  <2>3. \A n \in Nat : n >= 1 => /\ (n - 1) - 1 + 1 = n - 1
                                /\ (IF 1 <= n - 1 THEN (n - 1) - 1 + 1 ELSE 0) = n - 1
                                /\ \A i \in 1 .. n - 1 : 1 + i - 1 = i
    OBVIOUS
  <2> QED
    BY <1>1, <2>2, <2>3, Zenon
<1>3. q[Len(q)].msg \in M
  BY <1>1 DEF Entry
<1>4. \A x : IsQueued(q, x) => x = q[Len(q)].msg \/ IsQueued(Cancel(q), x)
  BY <1>1, <1>2 DEF IsQueued
<1> QED
  BY <1>2, <1>3, <1>4

\* Reconciliation with a view takes a message out only when the view has it.
LEMMA ReconciledKeeps ==
  ASSUME NEW M, NEW q \in Seq(Entry(M)), NEW v \in View(M)
  PROVE  /\ Reconciled(q, v) \in Seq(Entry(M))
         /\ \A x : IsQueued(q, x) => x \in v.persisted \/ IsQueued(Reconciled(q, v), x)
<1> DEFINE seen == [i \in 1 .. Len(q) |-> Observed(q[i], v)]
           done == {i \in 1 .. Len(q) : Complete(seen[i], v)}
           k    == CHOOSE i \in done : TRUE
<1>1. Len(q) \in Nat /\ \A i \in 1 .. Len(q) : q[i] \in Entry(M)
  BY LenProperties, ElementOfSeq
<1>2. \A i \in 1 .. Len(q) : Observed(q[i], v) \in Entry(M) /\ Observed(q[i], v).msg = q[i].msg
  <2>1. v.running \in BOOLEAN
    BY DEF View
  <2> QED
    BY <1>1, <2>1 DEF Observed, Entry
<1>3. seen \in Seq(Entry(M)) /\ Len(seen) = Len(q)
  BY <1>1, <1>2, SeqByPlace
<1>4. \A i \in 1 .. Len(q) : seen[i].msg = q[i].msg
  BY <1>2
<1>5. Reconciled(q, v) = IF done = {} THEN seen ELSE RemoveAt(seen, k)
  BY DEF Reconciled
<1>6. \A i \in done : seen[i].msg \in v.persisted
  BY DEF Complete
<1>7. done \subseteq 1 .. Len(q)
  OBVIOUS
<1> HIDE DEF seen, done
<1>8. CASE done = {}
  BY <1>3, <1>4, <1>5, <1>8 DEF IsQueued
<1>9. CASE done # {}
  <2>1. k \in done /\ k \in 1 .. Len(seen)
    BY <1>3, <1>7, <1>9
  <2> HIDE DEF k
  <2>2. /\ RemoveAt(seen, k) \in Seq(Entry(M))
        /\ \A i \in 1 .. Len(seen) :
             i # k => \E j \in 1 .. Len(RemoveAt(seen, k)) : RemoveAt(seen, k)[j] = seen[i]
    BY <1>3, <2>1, RemoveKeeps
  <2>3. ASSUME NEW x, IsQueued(q, x)
        PROVE  x \in v.persisted \/ IsQueued(RemoveAt(seen, k), x)
    <3>1. PICK i \in 1 .. Len(seen) : seen[i].msg = x
      BY <1>3, <1>4, <2>3 DEF IsQueued
    <3>2. CASE i = k
      BY <1>6, <2>1, <3>1, <3>2
    <3>3. CASE i # k
      BY <2>2, <3>1, <3>3 DEF IsQueued
    <3> QED
      BY <3>2, <3>3
  <2> QED
    BY <1>5, <1>9, <2>2, <2>3
<1> QED
  BY <1>8, <1>9

---------------------------------------------------------------------------
(* What the parts that several actions share do to the types.              *)

\* The bounds are spent, never exceeded.
LEMMA SpendType ==
  ASSUME TypeOK, NEW kind \in Bounds, Spend(kind)
  PROVE  budget' \in [Bounds -> Nat]
<1>1. budget \in [Bounds -> Nat] /\ budget[kind] \in Nat /\ budget[kind] > 0
  BY DEF TypeOK, Spend
<1>2. budget[kind] - 1 \in Nat
  BY <1>1
<1> QED
  BY <1>1, <1>2 DEF Spend

\* request adds a call, and puts its number on the wire or into the queue.
LEMMA RequestType ==
  ASSUME TypeOK, NEW m \in Messages, NEW kind \in {"queued", "direct"}, Request(m, kind)
  PROVE  /\ calls' \in Seq(Call)
         /\ 1 .. Len(calls) \subseteq 1 .. Len(calls')
         /\ pending \subseteq pending' /\ pending' \subseteq 1 .. Len(calls')
         /\ outbound' \in Seq(1 .. Len(calls'))
         /\ wire' \in Seq(1 .. Len(calls'))
<1> DEFINE call == [msg |-> m, kind |-> kind]
           c == Len(calls) + 1
<1>1. call \in Call
  BY DEF Call
<1>2. calls \in Seq(Call) /\ Len(calls) \in Nat
  BY LenProperties DEF TypeOK
<1>3. calls' = Append(calls, call)
  BY DEF Request
<1>4. calls' \in Seq(Call) /\ Len(calls') = Len(calls) + 1
  BY <1>1, <1>2, <1>3, AppendProperties
<1>5. 1 .. Len(calls) \subseteq 1 .. Len(calls') /\ c \in 1 .. Len(calls')
  BY <1>2, <1>4
<1>6. pending \subseteq pending' /\ pending' \subseteq 1 .. Len(calls')
  BY <1>5 DEF TypeOK, Request
<1>7. outbound \in Seq(1 .. Len(calls')) /\ wire \in Seq(1 .. Len(calls'))
  BY <1>5, SeqMonotonic DEF TypeOK
<1>8. Append(outbound, c) \in Seq(1 .. Len(calls')) /\ Append(wire, c) \in Seq(1 .. Len(calls'))
  BY <1>5, <1>7, AppendProperties
<1>9. outbound' \in {outbound, Append(outbound, c)} /\ wire' \in {wire, Append(wire, c)}
  BY DEF Request
<1> QED
  BY <1>4, <1>5, <1>6, <1>7, <1>8, <1>9

\* The messages of requests made so far are messages.
LEMMA QueuedMessagesType ==
  ASSUME TypeOK, NEW cs \in SUBSET (1 .. Len(calls))
  PROVE  QueuedMessagesOf(cs) \subseteq Messages
<1>1. \A c \in cs : calls[c] \in Call
  BY ElementOfSeq DEF TypeOK
<1> QED
  BY <1>1 DEF QueuedMessagesOf, Call

\* A failed promise leaves every message where it is in the queue.
LEMMA RejectKeeps ==
  ASSUME TypeOK, NEW cs \in SUBSET (1 .. Len(calls)), Reject(cs)
  PROVE  /\ pending' = pending \ cs
         /\ queue' \in Seq(Entry(Messages))
         /\ \A x : IsQueued(queue', x) <=> IsQueued(queue, x)
         /\ backoff' \subseteq Messages
         /\ composer' \in Sending
<1>1. NumMessages \in Nat
  BY QueuedSendAssumption
<1>2. QueuedMessagesOf(cs) \subseteq Messages
  BY QueuedMessagesType
<1>3. /\ Requeue(queue, QueuedMessagesOf(cs)) \in Seq(Entry(Messages))
      /\ \A x : IsQueued(Requeue(queue, QueuedMessagesOf(cs)), x) <=> IsQueued(queue, x)
  BY RequeueKeeps DEF TypeOK
<1>4. Nobody \in Sending
  BY <1>1 DEF Nobody, Sending
<1> QED
  BY <1>2, <1>3, <1>4 DEF Reject, TypeOK

\* A lost connection empties what was on its way.
LEMMA DisconnectKeeps ==
  ASSUME TypeOK, Disconnect
  PROVE  /\ pending' = {} /\ outbound' = <<>> /\ wire' = <<>> /\ answers' = {} /\ snapshot' = <<>>
         /\ queue' \in Seq(Entry(Messages))
         /\ \A x : IsQueued(queue', x) <=> IsQueued(queue, x)
         /\ backoff' \subseteq Messages
         /\ composer' \in Sending
<1>1. pending \in SUBSET (1 .. Len(calls))
  BY DEF TypeOK
<1> QED
  BY <1>1, RejectKeeps DEF Disconnect

\* What dropQueued leaves are requests.
LEMMA DropQueuedType ==
  ASSUME TypeOK, NEW c
  PROVE  DropQueued(c) \in Seq(1 .. Len(calls))
<1> DEFINE Of == {i \in 1 .. Len(outbound) : outbound[i] = c}
           k  == CHOOSE i \in Of : TRUE
<1>1. outbound \in Seq(1 .. Len(calls))
  BY DEF TypeOK
<1>2. DropQueued(c) = IF Of = {} THEN outbound ELSE RemoveAt(outbound, k)
  BY DEF DropQueued
<1>3. CASE Of = {}
  BY <1>1, <1>2, <1>3
<1>4. CASE Of # {}
  <2>1. k \in 1 .. Len(outbound)
    BY <1>4
  <2> QED
    BY <1>1, <1>2, <1>4, <2>1, RemoveKeeps
<1> QED
  BY <1>3, <1>4

---------------------------------------------------------------------------
(* Types.                                                                  *)

\* What getSnapshot answers is a view.
LEMMA ServerViewType ==
  ASSUME TypeOK
  PROVE  Persisted(turns) \subseteq Messages /\ ServerView \in View(Messages)
<1>1. \A i \in 1 .. Len(turns) : turns[i] \in Turn
  BY ElementOfSeq DEF TypeOK
<1>2. Persisted(turns) \subseteq Messages
  BY <1>1 DEF Persisted, Turn
<1> QED
  BY <1>2 DEF ServerView, View, TypeOK

\* A step of a turn keeps the turns' order and messages.
LEMMA TurnSteps ==
  ASSUME TypeOK, NEW i \in 1 .. Len(turns), NEW phase \in {"requested", "running", "done", "lost"},
         turns' = [turns EXCEPT ![i].phase = phase]
  PROVE  turns' \in Seq(Turn) /\ Len(turns') = Len(turns) /\ Persisted(turns') = Persisted(turns)
<1>1. turns \in Seq(Turn) /\ turns[i] \in Turn
  BY ElementOfSeq DEF TypeOK
<1>2. [turns[i] EXCEPT !.phase = phase] \in Turn /\ [turns[i] EXCEPT !.phase = phase].msg = turns[i].msg
  BY <1>1 DEF Turn
<1>3. turns' = [turns EXCEPT ![i] = [turns[i] EXCEPT !.phase = phase]]
  OBVIOUS
<1>4. /\ turns' \in Seq(Turn) /\ Len(turns') = Len(turns)
      /\ \A j \in 1 .. Len(turns) :
           turns'[j] = IF j = i THEN [turns[i] EXCEPT !.phase = phase] ELSE turns[j]
  BY <1>1, <1>2, <1>3, ExceptSeq
<1>5. \A j \in 1 .. Len(turns) : turns'[j].msg = turns[j].msg
  BY <1>2, <1>4
<1> QED
  BY <1>4, <1>5 DEF Persisted

\* So does the loss of some.
LEMMA LoseTurnsKeeps ==
  ASSUME TypeOK, NEW phases, LoseTurns(phases)
  PROVE  turns' \in Seq(Turn) /\ Len(turns') = Len(turns) /\ Persisted(turns') = Persisted(turns)
<1>1. Len(turns) \in Nat /\ \A i \in 1 .. Len(turns) : turns[i] \in Turn
  BY LenProperties, ElementOfSeq DEF TypeOK
<1>2. /\ turns' \in [1 .. Len(turns) -> Turn]
      /\ \A i \in 1 .. Len(turns) : turns'[i].msg = turns[i].msg
  BY <1>1 DEF LoseTurns, Turn
<1>3. turns' \in Seq(Turn) /\ Len(turns') = Len(turns)
  BY <1>1, <1>2, SeqByPlace
<1> QED
  BY <1>2, <1>3 DEF Persisted

\* A recorded turn start adds its message to what is persisted.
LEMMA HandleKeeps ==
  ASSUME TypeOK, NEW c \in inbox, Handle(c)
  PROVE  /\ turns' \in Seq(Turn) /\ Len(turns') = Len(turns) + 1
         /\ Persisted(turns) \subseteq Persisted(turns')
<1> DEFINE turn == [msg |-> calls[c].msg, phase |-> "requested"]
<1>1. turn \in Turn
  <2>1. calls[c] \in Call
    BY ElementOfSeq DEF TypeOK
  <2> QED
    BY <2>1 DEF Call, Turn
<1>2. turns \in Seq(Turn) /\ Len(turns) \in Nat /\ turns' = Append(turns, turn)
  BY LenProperties DEF TypeOK, Handle
<1>3. /\ turns' \in Seq(Turn) /\ Len(turns') = Len(turns) + 1
      /\ \A i \in 1 .. Len(turns) : turns'[i] = turns[i]
  BY <1>1, <1>2, AppendProperties
<1>4. 1 .. Len(turns) \subseteq 1 .. Len(turns')
  BY <1>2, <1>3
<1> QED
  BY <1>3, <1>4 DEF Persisted

\* An answer is sent only to a promise that is open.
LEMMA AnswerToType ==
  ASSUME TypeOK, NEW c, NEW ok \in BOOLEAN, AnswerTo(c, ok)
  PROVE  answers' \subseteq [call : pending, ok : BOOLEAN]
<1>1. answers \subseteq [call : pending, ok : BOOLEAN]
  BY DEF TypeOK
<1>2. CASE c \in pending
  <2>1. [call |-> c, ok |-> ok] \in [call : pending, ok : BOOLEAN]
    BY <1>2
  <2>2. answers' = answers \cup {[call |-> c, ok |-> ok]}
    BY <1>2, Zenon DEF AnswerTo
  <2> QED
    BY <1>1, <2>1, <2>2, Zenon
<1>3. CASE c \notin pending
  BY <1>1, <1>3, Zenon DEF AnswerTo
<1> QED
  BY <1>2, <1>3

\* The types at first, and after each step.
LEMMA InitType == Init => TypeOK
<1> SUFFICES ASSUME Init PROVE TypeOK
  OBVIOUS
<1>1. NumMessages \in Nat /\ Nobody \in Sending
  BY QueuedSendAssumption DEF Nobody, Sending
<1>2. NoView \in View(Messages)
  BY DEF NoView, View
<1>3. budget \in [Bounds -> Nat]
  BY QueuedSendAssumption DEF Init, Bounds
<1>4. \A S : <<>> \in Seq(S)
  BY EmptySeq
<1>5. active \in 0 .. Len(turns) /\ written \in 0 .. NumMessages
  <2>1. Len(turns) = 0
    BY EmptySeq DEF Init
  <2> QED
    BY <1>1, <2>1 DEF Init
<1>6. /\ queue \in Seq(Entry(Messages)) /\ calls \in Seq(Call) /\ turns \in Seq(Turn)
      /\ outbound \in Seq(1 .. Len(calls)) /\ wire \in Seq(1 .. Len(calls))
      /\ snapshot \in Seq(View(Messages))
  BY <1>4, Zenon DEF Init
<1>7. /\ backoff \subseteq Messages /\ deferred \subseteq Messages
      /\ cancelled \subseteq Messages /\ moved \subseteq Messages
      /\ pending \subseteq 1 .. Len(calls) /\ inbox \subseteq 1 .. Len(calls)
      /\ answers \subseteq [call : pending, ok : BOOLEAN]
  BY Zenon DEF Init
<1> QED
  BY <1>1, <1>2, <1>3, <1>5, <1>6, <1>7 DEF Init, TypeOK

\* Every step keeps the types: the user's ...
LEMMA UserType == TypeOK /\ User => TypeOK'
<1> SUFFICES ASSUME TypeOK, User PROVE TypeOK'
  OBVIOUS
<1> USE DEF user, transport, network, server
<1>a. NumMessages \in Nat
  BY QueuedSendAssumption
<1>1. CASE WriteQueued
  <2>1. written' \in 0 .. NumMessages /\ written + 1 \in Messages
    BY <1>1, <1>a DEF WriteQueued, TypeOK, Messages
  <2>2. queue' \in Seq(Entry(Messages))
    BY <1>1, <2>1, EnqueueKeeps DEF WriteQueued, TypeOK
  <2> QED
    BY <1>1, <2>1, <2>2 DEF WriteQueued, TypeOK
<1>2. CASE WriteDirect
  <2>1. written' \in 0 .. NumMessages /\ written + 1 \in Messages
    BY <1>2, <1>a DEF WriteDirect, TypeOK, Messages
  <2>2. composer' \in Sending
    BY <1>2, <2>1 DEF WriteDirect, Sending
  <2> QED
    BY <1>2, <2>1, <2>2 DEF WriteDirect, TypeOK
<1>3. CASE CancelQueued
  <2>1. queue' \in Seq(Entry(Messages)) /\ queue[Len(queue)].msg \in Messages
    BY <1>3, CancelKeeps DEF CancelQueued, CanCancel, TypeOK
  <2> QED
    BY <1>3, <2>1 DEF CancelQueued, TypeOK
<1>4. ASSUME NEW to \in 1 .. Len(queue), MoveQueued(to)
      PROVE  TypeOK'
  <2>1. /\ queue' \in Seq(Entry(Messages))
        /\ queue[to].msg \in Messages /\ queue[MoveTarget(queue)].msg \in Messages
    BY <1>4, MoveKeeps DEF MoveQueued, TypeOK
  <2>2. budget' \in [Bounds -> Nat]
    BY <1>4, SpendType DEF MoveQueued, Bounds
  <2> QED
    BY <1>4, <2>1, <2>2 DEF MoveQueued, TypeOK
<1>5. CASE Suspend
  <2>1. budget' \in [Bounds -> Nat]
    BY <1>5, SpendType DEF Suspend, Bounds
  <2>2. Disconnect
    BY <1>5 DEF Suspend
  <2> QED
    BY <1>5, <2>1, <2>2, DisconnectKeeps, EmptySeq DEF Suspend, TypeOK
<1>6. CASE Resume
  BY <1>6 DEF Resume, TypeOK
<1> QED
  BY <1>1, <1>2, <1>3, <1>4, <1>5, <1>6 DEF User

\* ... the client's ...
LEMMA ClientType == TypeOK /\ Client => TypeOK'
<1> SUFFICES ASSUME TypeOK, Client PROVE TypeOK'
  OBVIOUS
<1> USE DEF user, transport, network, server
<1>1. CASE SendDirect
  <2>1. composer.msg \in Messages /\ composer' \in Sending
    <3>1. composer \in [msg : Messages, step : {"settings", "turn"}]
      BY <1>1 DEF SendDirect, Sending, Nobody, TypeOK
    <3> QED
      BY <1>1, <3>1 DEF SendDirect, Sending
  <2>2. Request(composer.msg, "direct")
    BY <1>1 DEF SendDirect
  <2> QED
    BY <1>1, <2>1, <2>2, RequestType DEF SendDirect, TypeOK
<1>2. CASE Pump
  <2> DEFINE i == FirstWaiting(queue)
             m == queue[i].msg
  <2>1. i \in 1 .. Len(queue)
    BY <1>2, FirstWaitingIn DEF Pump, PumpDispatches, TypeOK
  <2>2. m \in Messages
    BY <2>1, QueuedAt DEF TypeOK
  <2>3. /\ Request(m, "queued")
        /\ queue' = MarkDispatching(queue, m, replies)
    BY <1>2 DEF Pump
  <2> HIDE DEF i, m
  <2>4. queue' \in Seq(Entry(Messages))
    BY <2>2, <2>3, MarkKeeps DEF TypeOK
  <2> QED
    BY <1>2, <2>2, <2>3, <2>4, RequestType DEF Pump, TypeOK
<1>3. ASSUME NEW m \in backoff, BackoffOver(m)
      PROVE  TypeOK'
  BY <1>3 DEF BackoffOver, TypeOK
<1>4. CASE ReadSnapshot
  <2>1. snapshot' \in Seq(View(Messages))
    <3>1. ServerView \in View(Messages)
      BY ServerViewType
    <3> QED
      BY <1>4, <3>1 DEF ReadSnapshot
  <2> QED
    BY <1>4, <2>1 DEF ReadSnapshot, TypeOK
<1>5. CASE ShowSnapshot
  <2>1. Head(snapshot) \in View(Messages)
    BY <1>5, HeadTailProperties DEF ShowSnapshot, TypeOK
  <2>2. queue' \in Seq(Entry(Messages))
    BY <1>5, <2>1, ReconciledKeeps DEF ShowSnapshot, TypeOK
  <2> QED
    BY <1>5, <2>1, <2>2, EmptySeq DEF ShowSnapshot, TypeOK
<1>6. CASE Open
  BY <1>6, EmptySeq DEF Open, TypeOK
<1>7. CASE Retry
  BY <1>7 DEF Retry, TypeOK
<1>8. ASSUME NEW a \in answers, Answered(a)
      PROVE  TypeOK'
  <2>1. a.call \in pending /\ pending \subseteq 1 .. Len(calls)
    BY DEF TypeOK
  <2>2. pending' = pending \ {a.call} /\ queue' \in Seq(Entry(Messages))
        /\ backoff' \subseteq Messages /\ composer' \in Sending
    <3>1. CASE a.ok
      BY <1>8, <3>1 DEF Answered, Sending, TypeOK
    <3>2. CASE ~a.ok
      <4>1. Reject({a.call}) /\ {a.call} \in SUBSET (1 .. Len(calls))
        BY <1>8, <2>1, <3>2 DEF Answered
      <4> QED
        BY <4>1, RejectKeeps
    <3> QED
      BY <3>1, <3>2
  <2>3. answers' \subseteq [call : pending', ok : BOOLEAN]
    BY <1>8, <2>2 DEF Answered, TypeOK
  <2> QED
    BY <1>8, <2>1, <2>2, <2>3 DEF Answered, TypeOK
<1> QED
  BY <1>1, <1>2, <1>3, <1>4, <1>5, <1>6, <1>7, <1>8 DEF Client

\* ... the server's ...
LEMMA ServerType == TypeOK /\ Server => TypeOK'
<1> SUFFICES ASSUME TypeOK, Server PROVE TypeOK'
  OBVIOUS
<1> USE DEF user, transport, network, server
<1>a. Len(turns) \in Nat
  BY LenProperties DEF TypeOK
<1>1. CASE Receive
  <2>1. Head(wire) \in 1 .. Len(calls) /\ wire' \in Seq(1 .. Len(calls))
    BY <1>1, HeadTailProperties DEF Receive, TypeOK
  <2> QED
    BY <1>1, <2>1 DEF Receive, TypeOK
<1>2. ASSUME NEW c \in inbox, Handle(c)
      PROVE  TypeOK'
  <2>1. turns' \in Seq(Turn) /\ Len(turns') = Len(turns) + 1
    BY <1>2, HandleKeeps
  <2>2. active' \in 0 .. Len(turns')
    BY <1>2, <1>a, <2>1 DEF Handle, TypeOK
  <2>3. answers' \subseteq [call : pending, ok : BOOLEAN]
    BY <1>2, AnswerToType DEF Handle
  <2> QED
    BY <1>2, <2>1, <2>2, <2>3 DEF Handle, TypeOK
<1>3. CASE StartSession
  BY <1>3, <1>a DEF StartSession, TypeOK
<1>4. CASE SessionReady
  BY <1>4 DEF SessionReady, TypeOK
<1>5. ASSUME NEW i \in 1 .. Len(turns), StartTurn(i)
      PROVE  TypeOK'
  <2>1. turns' \in Seq(Turn) /\ Len(turns') = Len(turns)
    BY <1>5, TurnSteps DEF StartTurn
  <2>2. active' \in 0 .. Len(turns')
    BY <1>5, <1>a, <2>1 DEF StartTurn, TypeOK
  <2> QED
    BY <1>5, <2>1, <2>2 DEF StartTurn, TypeOK
<1>6. ASSUME NEW i \in 1 .. Len(turns), EndTurn(i)
      PROVE  TypeOK'
  <2>1. turns' \in Seq(Turn) /\ Len(turns') = Len(turns)
    BY <1>6, TurnSteps DEF EndTurn
  <2>2. active' \in 0 .. Len(turns') /\ replies' \in Nat
    BY <1>6, <1>a, <2>1 DEF EndTurn, TypeOK
  <2> QED
    BY <1>6, <2>1, <2>2 DEF EndTurn, TypeOK
<1> QED
  BY <1>1, <1>2, <1>3, <1>4, <1>5, <1>6 DEF Server

\* ... and those of the trouble.
LEMMA TroubleType == TypeOK /\ Trouble => TypeOK'
<1> SUFFICES ASSUME TypeOK, Trouble PROVE TypeOK'
  OBVIOUS
<1> USE DEF user, transport, network, server
<1>a. Len(turns) \in Nat
  BY LenProperties DEF TypeOK
<1>1. CASE SettingsFail
  <2>1. budget' \in [Bounds -> Nat]
    BY <1>1, SpendType DEF SettingsFail, Bounds
  <2> QED
    BY <1>1, <2>1 DEF SettingsFail, Sending, TypeOK
<1>2. CASE Close
  <2>1. budget' \in [Bounds -> Nat]
    BY <1>2, SpendType DEF Close, Bounds
  <2>2. Disconnect
    BY <1>2 DEF Close
  <2> QED
    BY <1>2, <2>1, <2>2, DisconnectKeeps, EmptySeq DEF Close, TypeOK
<1>3. CASE ProviderExits
  <2>1. budget' \in [Bounds -> Nat]
    BY <1>3, SpendType DEF ProviderExits, Bounds
  <2>2. turns' \in Seq(Turn) /\ Len(turns') = Len(turns)
    BY <1>3, LoseTurnsKeeps DEF ProviderExits
  <2>3. active' \in 0 .. Len(turns')
    BY <1>3, <1>a, <2>2 DEF ProviderExits
  <2> QED
    BY <1>3, <2>1, <2>2, <2>3 DEF ProviderExits, TypeOK
<1>4. CASE Crash
  <2>1. budget' \in [Bounds -> Nat]
    BY <1>4, SpendType DEF Crash, Bounds
  <2>2. turns' \in Seq(Turn) /\ Len(turns') = Len(turns)
    BY <1>4, LoseTurnsKeeps DEF Crash
  <2>3. Disconnect
    BY <1>4 DEF Crash
  <2> QED
    BY <1>4, <2>1, <2>2, <2>3, DisconnectKeeps, EmptySeq DEF Crash, TypeOK
<1>5. ASSUME NEW i \in 1 .. Len(queue), Expire(i)
      PROVE  TypeOK'
  <2>1. budget' \in [Bounds -> Nat]
    BY <1>5, SpendType DEF Expire, Bounds
  <2>2. queue' \in Seq(Entry(Messages))
    BY <1>5, RequeueKeeps DEF Expire, TypeOK
  <2> QED
    BY <1>5, <2>1, <2>2 DEF Expire, TypeOK
<1>6. ASSUME NEW c \in pending, Timeout(c)
      PROVE  TypeOK'
  <2>1. budget' \in [Bounds -> Nat]
    BY <1>6, SpendType DEF Timeout, Bounds
  <2>2. Reject({c}) /\ {c} \in SUBSET (1 .. Len(calls))
    BY <1>6 DEF Timeout, TypeOK
  <2>3. /\ pending' = pending \ {c} /\ queue' \in Seq(Entry(Messages))
        /\ backoff' \subseteq Messages /\ composer' \in Sending
    BY <2>2, RejectKeeps
  <2>4. outbound' \in Seq(1 .. Len(calls))
    BY <1>6, DropQueuedType DEF Timeout
  <2>5. answers' \subseteq [call : pending', ok : BOOLEAN]
    BY <1>6, <2>3 DEF Timeout, TypeOK
  <2> QED
    BY <1>6, <2>1, <2>3, <2>4, <2>5 DEF Timeout, TypeOK
<1>7. ASSUME NEW c \in inbox, HandleFails(c)
      PROVE  TypeOK'
  <2>1. budget' \in [Bounds -> Nat]
    BY <1>7, SpendType DEF HandleFails, Bounds
  <2>2. answers' \subseteq [call : pending, ok : BOOLEAN]
    BY <1>7, AnswerToType DEF HandleFails
  <2> QED
    BY <1>7, <2>1, <2>2 DEF HandleFails, TypeOK
<1>8. ASSUME NEW i \in 1 .. Len(turns), FailTurn(i)
      PROVE  TypeOK'
  <2>1. turns' \in Seq(Turn) /\ Len(turns') = Len(turns)
    BY <1>8, TurnSteps DEF FailTurn
  <2> QED
    BY <1>8, <2>1 DEF FailTurn, TypeOK
<1> QED
  BY <1>1, <1>2, <1>3, <1>4, <1>5, <1>6, <1>7, <1>8 DEF Trouble

LEMMA NextType == TypeOK /\ [Next]_vars => TypeOK'
<1>1. TypeOK /\ UNCHANGED vars => TypeOK'
  BY DEF TypeOK, vars, user, transport, network, server
<1> QED
  BY <1>1, UserType, ClientType, ServerType, TroubleType DEF Next

\* No variable of the TUI, the transport or the server's thread ever leaves its
\* type; in particular every answer on its way is for a request whose promise is
\* still open, and every request on its way is one that was made.
THEOREM TypeOKHolds == Spec => []TypeOK
  BY InitType, NextType, PTL DEF Spec

---------------------------------------------------------------------------
(* No message is lost.  A step may take a message out of the queue in two  *)
(* ways only: the user takes it back, or a view that the TUI learns has it *)
(* among the persisted ones; and a view has only what is persisted.        *)

\* A view, shown or on its way, has nothing that is not persisted.
ViewTrue ==
    /\ view.persisted \subseteq Persisted(turns)
    /\ \A i \in 1 .. Len(snapshot) : snapshot[i].persisted \subseteq Persisted(turns)

\* What is persisted stays so.
LEMMA PersistedGrows ==
  ASSUME TypeOK, [Next]_vars
  PROVE  Persisted(turns) \subseteq Persisted(turns')
<1> USE DEF user, transport, network, server
<1>0. (UNCHANGED turns) => Persisted(turns) \subseteq Persisted(turns')
  BY DEF Persisted
<1>1. CASE UNCHANGED vars
  BY <1>0, <1>1 DEF vars
<1>2. CASE User
  BY <1>0, <1>2 DEF User, WriteQueued, WriteDirect, CancelQueued, MoveQueued, Suspend, Resume
<1>3. CASE Client
  BY <1>0, <1>3 DEF Client, SendDirect, Pump, BackoffOver, ReadSnapshot, ShowSnapshot, Open,
                    Retry, Answered
<1>4. CASE Server
  <2>1. CASE Receive \/ StartSession \/ SessionReady
    BY <1>0, <2>1 DEF Receive, StartSession, SessionReady
  <2>2. ASSUME NEW c \in inbox, Handle(c)
        PROVE  Persisted(turns) \subseteq Persisted(turns')
    BY <2>2, HandleKeeps
  <2>3. ASSUME NEW i \in 1 .. Len(turns), StartTurn(i)
        PROVE  Persisted(turns) \subseteq Persisted(turns')
    BY <2>3, TurnSteps DEF StartTurn
  <2>4. ASSUME NEW i \in 1 .. Len(turns), EndTurn(i)
        PROVE  Persisted(turns) \subseteq Persisted(turns')
    BY <2>4, TurnSteps DEF EndTurn
  <2> QED
    BY <1>4, <2>1, <2>2, <2>3, <2>4 DEF Server
<1>5. CASE Trouble
  <2>1. CASE \/ SettingsFail \/ Close \/ \E i \in 1 .. Len(queue) : Expire(i)
             \/ (\E c \in pending : Timeout(c)) \/ (\E c \in inbox : HandleFails(c))
    BY <1>0, <2>1 DEF SettingsFail, Close, Expire, Timeout, HandleFails
  <2>2. CASE ProviderExits \/ Crash
    <3>1. PICK phases : LoseTurns(phases)
      BY <2>2 DEF ProviderExits, Crash
    <3> QED
      BY <3>1, LoseTurnsKeeps
  <2>3. ASSUME NEW i \in 1 .. Len(turns), FailTurn(i)
        PROVE  Persisted(turns) \subseteq Persisted(turns')
    BY <2>3, TurnSteps DEF FailTurn
  <2> QED
    BY <1>5, <2>1, <2>2, <2>3 DEF Trouble
<1> QED
  BY <1>1, <1>2, <1>3, <1>4, <1>5 DEF Next

\* Where views come from: the server's reading travels, and is shown.
LEMMA ViewsTravel ==
  ASSUME TypeOK, [Next]_vars
  PROVE  \/ view' = view /\ snapshot' \in {snapshot, <<>>}
         \/ view' = view /\ snapshot' = <<ServerView>>
         \/ snapshot # <<>> /\ view' = Head(snapshot) /\ snapshot' = <<>>
<1> USE DEF user, transport, network, server
<1>1. CASE UNCHANGED vars
  BY <1>1 DEF vars
<1>2. CASE User
  BY <1>2 DEF User, WriteQueued, WriteDirect, CancelQueued, MoveQueued, Suspend, Resume, Disconnect
<1>3. CASE Client
  BY <1>3 DEF Client, SendDirect, Pump, BackoffOver, ReadSnapshot, ShowSnapshot, Open, Retry,
              Answered
<1>4. CASE Server
  BY <1>4 DEF Server, Receive, Handle, StartSession, SessionReady, StartTurn, EndTurn
<1>5. CASE Trouble
  BY <1>5 DEF Trouble, SettingsFail, Close, ProviderExits, Crash, Expire, Timeout, HandleFails,
              FailTurn, Disconnect
<1> QED
  BY <1>1, <1>2, <1>3, <1>4, <1>5 DEF Next

\* A view is read from what is persisted, and what is persisted stays so.
LEMMA ViewStaysTrue ==
  ASSUME TypeOK, ViewTrue, [Next]_vars
  PROVE  ViewTrue'
<1>1. Persisted(turns) \subseteq Persisted(turns')
  BY PersistedGrows
<1>2. CASE view' = view /\ snapshot' \in {snapshot, <<>>}
  <2>1. \A i \in 1 .. Len(snapshot') : snapshot'[i].persisted \subseteq Persisted(turns)
    BY <1>2, EmptySeq DEF ViewTrue
  <2> QED
    BY <1>1, <1>2, <2>1 DEF ViewTrue
<1>3. CASE view' = view /\ snapshot' = <<ServerView>>
  <2>1. Len(snapshot') = 1 /\ snapshot'[1] = ServerView
    BY <1>3
  <2>2. ServerView.persisted = Persisted(turns)
    BY DEF ServerView
  <2> QED
    BY <1>1, <1>3, <2>1, <2>2 DEF ViewTrue
<1>4. CASE snapshot # <<>> /\ view' = Head(snapshot) /\ snapshot' = <<>>
  <2>1. view' = snapshot[1] /\ 1 \in 1 .. Len(snapshot)
    BY <1>4, EmptySeq DEF TypeOK
  <2>2. Len(snapshot') = 0
    BY <1>4, EmptySeq
  <2> QED
    BY <1>1, <2>1, <2>2 DEF ViewTrue
<1> QED
  BY <1>2, <1>3, <1>4, ViewsTravel

\* What a step does to the messages in the queue.
Kept ==
    /\ \A x : IsQueued(queue, x) => \/ IsQueued(queue', x)
                                    \/ x \in cancelled'
                                    \/ x \in view'.persisted
    /\ \A x \in deferred' \ deferred : IsQueued(queue', x)
    /\ cancelled \subseteq cancelled'

\* An entry leaves the queue only for the user, or for a view that has its message.
LEMMA QueueKept ==
  ASSUME TypeOK, [Next]_vars
  PROVE  Kept
<1> USE DEF user, transport, network, server
<1>0. UNCHANGED <<queue, deferred, cancelled>> => Kept
  BY DEF Kept
<1>a. /\ \A x : IsQueued(queue', x) <=> IsQueued(queue, x)
      /\ UNCHANGED <<deferred, cancelled>>
      => Kept
  BY DEF Kept
<1>1. CASE UNCHANGED vars
  BY <1>0, <1>1 DEF vars
<1>2. CASE User
  <2>1. CASE WriteQueued
    <3>1. written + 1 \in Messages
      BY <2>1, QueuedSendAssumption DEF WriteQueued, TypeOK, Messages
    <3>2. /\ IsQueued(queue', written + 1)
          /\ \A x : IsQueued(queue, x) => IsQueued(queue', x)
      BY <2>1, <3>1, EnqueueKeeps DEF WriteQueued, TypeOK
    <3> QED
      BY <2>1, <3>2 DEF WriteQueued, Kept
  <2>2. CASE WriteDirect \/ Resume
    BY <1>0, <2>2 DEF WriteDirect, Resume
  <2>3. CASE CancelQueued
    <3>1. \A x : IsQueued(queue, x) => x = queue[Len(queue)].msg \/ IsQueued(queue', x)
      BY <2>3, CancelKeeps DEF CancelQueued, CanCancel, TypeOK
    <3> QED
      BY <2>3, <3>1 DEF CancelQueued, Kept
  <2>4. ASSUME NEW to \in 1 .. Len(queue), MoveQueued(to)
        PROVE  Kept
    <3>1. \A x : IsQueued(queue, x) => IsQueued(queue', x)
      BY <2>4, MoveKeeps DEF MoveQueued, TypeOK
    <3> QED
      BY <2>4, <3>1 DEF MoveQueued, Kept
  <2>5. CASE Suspend
    BY <1>a, <2>5, DisconnectKeeps DEF Suspend
  <2> QED
    BY <1>2, <2>1, <2>2, <2>3, <2>4, <2>5 DEF User
<1>3. CASE Client
  <2>1. CASE \/ SendDirect \/ ReadSnapshot \/ Open \/ Retry
             \/ \E m \in backoff : BackoffOver(m)
    BY <1>0, <2>1 DEF SendDirect, ReadSnapshot, Open, Retry, BackoffOver
  <2>2. CASE Pump
    <3> DEFINE m == queue[FirstWaiting(queue)].msg
    <3>1. m \in Messages
      BY <2>2, FirstWaitingIn, QueuedAt DEF Pump, PumpDispatches, TypeOK
    <3>2. /\ queue' = MarkDispatching(queue, m, replies)
          /\ UNCHANGED <<deferred, cancelled>>
      BY <2>2 DEF Pump
    <3> HIDE DEF m
    <3>3. queue \in Seq(Entry(Messages)) /\ replies \in Nat
      BY DEF TypeOK
    <3>4. \A x : IsQueued(queue', x) <=> IsQueued(queue, x)
      BY <3>1, <3>2, <3>3, MarkKeeps
    <3> QED
      BY <1>a, <3>2, <3>4
  <2>3. CASE ShowSnapshot
    <3>1. view' = Head(snapshot) /\ Head(snapshot) \in View(Messages)
      BY <2>3, HeadTailProperties DEF ShowSnapshot, TypeOK
    <3>2. \A x : IsQueued(queue, x) => x \in view'.persisted \/ IsQueued(queue', x)
      BY <2>3, <3>1, ReconciledKeeps DEF ShowSnapshot, TypeOK
    <3> QED
      BY <2>3, <3>2 DEF ShowSnapshot, Kept
  <2>4. ASSUME NEW a \in answers, Answered(a)
        PROVE  Kept
    <3>1. CASE a.ok
      BY <1>0, <2>4, <3>1 DEF Answered
    <3>2. CASE ~a.ok
      <4>1. Reject({a.call}) /\ {a.call} \in SUBSET (1 .. Len(calls))
        BY <2>4, <3>2 DEF Answered, TypeOK
      <4> QED
        BY <1>a, <2>4, <4>1, RejectKeeps DEF Answered
    <3> QED
      BY <3>1, <3>2
  <2> QED
    BY <1>3, <2>1, <2>2, <2>3, <2>4 DEF Client
<1>4. CASE Server
  BY <1>0, <1>4 DEF Server, Receive, Handle, StartSession, SessionReady, StartTurn, EndTurn
<1>5. CASE Trouble
  <2>1. CASE \/ SettingsFail \/ ProviderExits
             \/ (\E c \in inbox : HandleFails(c)) \/ (\E i \in 1 .. Len(turns) : FailTurn(i))
    BY <1>0, <2>1 DEF SettingsFail, ProviderExits, HandleFails, FailTurn
  <2>2. CASE Close \/ Crash
    BY <1>a, <2>2, DisconnectKeeps DEF Close, Crash
  <2>3. ASSUME NEW i \in 1 .. Len(queue), Expire(i)
        PROVE  Kept
    BY <1>a, <2>3, RequeueKeeps DEF Expire, TypeOK
  <2>4. ASSUME NEW c \in pending, Timeout(c)
        PROVE  Kept
    <3>1. Reject({c}) /\ {c} \in SUBSET (1 .. Len(calls))
      BY <2>4 DEF Timeout, TypeOK
    <3> QED
      BY <1>a, <2>4, <3>1, RejectKeeps DEF Timeout
  <2> QED
    BY <1>5, <2>1, <2>2, <2>3, <2>4 DEF Trouble
<1> QED
  BY <1>1, <1>2, <1>3, <1>4, <1>5 DEF Next

\* Each step keeps what is queued in the queue or with the server.
LEMMA NothingLostStep ==
  ASSUME TypeOK, ViewTrue, NothingLost, [Next]_vars
  PROVE  NothingLost'
<1>1. Kept /\ ViewTrue' /\ Persisted(turns) \subseteq Persisted(turns')
  BY QueueKept, ViewStaysTrue, PersistedGrows
<1> SUFFICES ASSUME NEW m \in deferred' \ cancelled'
             PROVE  IsQueued(queue', m) \/ m \in Persisted(turns')
  BY DEF NothingLost
<1>2. CASE m \in deferred
  <2>1. IsQueued(queue, m) \/ m \in Persisted(turns)
    BY <1>1, <1>2 DEF Kept, NothingLost
  <2> QED
    BY <1>1, <2>1 DEF Kept, ViewTrue
<1>3. CASE m \notin deferred
  BY <1>1, <1>3 DEF Kept
<1> QED
  BY <1>2, <1>3

\* A message that the user left in the queue is in the queue or at the server,
\* however connections, answers, timers, the provider and the server fail: no
\* step of messageQueue.ts, of the pump's catch or of the reconciliation drops
\* one that the server does not have.
THEOREM NothingIsLost == Spec => []NothingLost
<1>1. Init => ViewTrue /\ NothingLost
  BY EmptySeq DEF Init, ViewTrue, NoView, NothingLost
<1>2. TypeOK /\ ViewTrue /\ NothingLost /\ [Next]_vars => ViewTrue' /\ NothingLost'
  BY ViewStaysTrue, NothingLostStep
<1> QED
  BY <1>1, <1>2, TypeOKHolds, PTL DEF Spec

---------------------------------------------------------------------------
(* What holds when nothing fails between the TUI and the server: no        *)
(* request is lost or late, no socket closes, no process of the server     *)
(* dies.  The user may do what a user does, and the provider may refuse    *)
(* turns and exit with them.                                               *)

NothingFails == MaxLosses = 0 /\ MaxExpiries = 0 /\ MaxSuspends = 0 /\ MaxCrashes = 0

\* What is in a sequence, and whether all of it is there once.
Elements(s) == {s[i] : i \in 1 .. Len(s)}

Distinct(s) == \A i, j \in 1 .. Len(s) : s[i] = s[j] => i = j

\* Where requests wait to be received; before the first socket opens, that is
\* the outbound queue.
Line == IF state = "open" THEN wire ELSE outbound

\* The requests that are not handled yet.
OnWay == Elements(Line) \cup inbox

\* The messages a request was made for.
Called == {calls[c].msg : c \in 1 .. Len(calls)}

\* The message whose settings are being saved.
Composed == IF composer.step = "settings" THEN {composer.msg} ELSE {}

\* Nothing has failed.
Spared ==
    /\ \A b \in {"losses", "expiries", "suspends", "crashes"} : budget[b] = 0
    /\ state \in {"connecting", "open"}
    /\ state = "connecting" => wire = <<>>
    /\ state = "open" => outbound = <<>>
    /\ \A a \in answers : a.ok

\* What is left of Next.
CalmNext ==
    \/ WriteQueued \/ WriteDirect \/ CancelQueued \/ (\E to \in 1 .. Len(queue) : MoveQueued(to))
    \/ SendDirect \/ Pump \/ (\E m \in backoff : BackoffOver(m))
    \/ ReadSnapshot \/ ShowSnapshot \/ Open
    \/ (\E a \in answers : a.ok /\ Answered(a))
    \/ Server \/ ProviderExits \/ (\E i \in 1 .. Len(turns) : FailTurn(i))

\* A request is at one place, its promise open, until the server handles it.
Travels ==
    /\ Distinct(Line) /\ Elements(Line) \cap inbox = {}
    /\ OnWay \subseteq pending
    /\ \A a \in answers : a.call \notin OnWay
    /\ \A c \in OnWay : calls[c].msg \notin Persisted(turns)
    /\ \A c \in pending : calls[c].kind = "direct" =>
          composer = [msg |-> calls[c].msg, step |-> "turn"]

\* There is one request for a message, and one turn start for a request.
CalledOnce ==
    /\ \A c, d \in 1 .. Len(calls) : calls[c].msg = calls[d].msg => c = d
    /\ Persisted(turns) \subseteq Called
    /\ OneTurnPerMessage

\* A message is composed, waits in the queue, was taken back or was requested.
Apart ==
    /\ \A i, j \in 1 .. Len(queue) : queue[i].msg = queue[j].msg => i = j
    /\ \A i \in 1 .. Len(queue) : queue[i].msg \in deferred \ cancelled
    /\ \A i \in 1 .. Len(queue) : queue[i].status = "queued" <=> queue[i].msg \notin Called
    /\ cancelled \subseteq deferred \ Called
    /\ Composed \cap (Called \cup deferred) = {}
    /\ Called \cup deferred \cup Composed \subseteq 1 .. written

\* Why a message has one turn at most.
OnceInv == Spared /\ Travels /\ CalledOnce /\ Apart

\* The messages that are being sent, or have a turn that is not over.
Aloft == Composed \cup {calls[c].msg : c \in OnWay} \cup {turns[i].msg : i \in Unfinished}

\* The session is marked with the turn that runs.
Sessions ==
    /\ session # "starting"
    /\ active # 0 => alive /\ turns[active].phase = "running"
    /\ \A i \in 1 .. Len(turns) : turns[i].phase = "running" => active = i

\* A view is never ahead of the server.
ViewsOld ==
    /\ view.replies <= replies
    /\ \A i \in 1 .. Len(snapshot) : snapshot[i].replies <= replies

\* What the views on their way show.
AllRunning == \A i \in 1 .. Len(snapshot) : snapshot[i].running

NoneRunning == \A i \in 1 .. Len(snapshot) : ~snapshot[i].running

\* While m is aloft, views show a running turn only once the turn of m runs,
\* and never again none; the entry of m, if it was queued, has no evidence yet
\* that its turn has run; if it was not, the pump is held by the view.
Flight(m) ==
    /\ view.running => AllRunning
    /\ view.running \/ ~NoneRunning => active # 0
    /\ \A d \in DispatchingIn(queue) :
          /\ queue[d].msg = m /\ queue[d].since = replies
          /\ queue[d].seen => active # 0 /\ AllRunning
    /\ IF m \in deferred THEN IsQueued(queue, m) ELSE queue = <<>> \/ view.running

\* While nothing is, the pump is free to go only when no older view is on its
\* way that shows a running turn.
Ground == ~view.running /\ DispatchingIn(queue) = {} /\ queue # <<>> => NoneRunning

\* At most one message is aloft.
OneAtATime ==
    /\ \A m, n \in Aloft : m = n
    /\ \A m \in Aloft : Flight(m)
    /\ Aloft = {} => Ground

\* Why the barrier stands.
BarrierInv == Sessions /\ ViewsOld /\ OneAtATime

---------------------------------------------------------------------------
(* Sequences and entries, place by place.                                  *)

\* What joins a line is in it once more.
LEMMA AppendDistinct ==
  ASSUME NEW S, NEW s \in Seq(S), NEW x \in S, x \notin Elements(s)
  PROVE  /\ Elements(Append(s, x)) = Elements(s) \cup {x}
         /\ Distinct(s) => Distinct(Append(s, x))
<1>1. /\ Len(s) \in Nat /\ Len(Append(s, x)) = Len(s) + 1
      /\ \A i \in 1 .. Len(s) : Append(s, x)[i] = s[i]
      /\ Append(s, x)[Len(s) + 1] = x
  BY LenProperties, AppendProperties
<1> DEFINE r == Append(s, x)
<1> HIDE DEF r
<1>2. /\ Len(s) \in Nat /\ Len(r) = Len(s) + 1
      /\ \A i \in 1 .. Len(s) : r[i] = s[i]
      /\ r[Len(s) + 1] = x
  BY <1>1 DEF r
<1>3. Elements(r) = Elements(s) \cup {x}
  BY <1>2 DEF Elements
<1>4. Distinct(s) => Distinct(r)
  BY <1>2 DEF Elements, Distinct
<1> QED
  BY <1>3, <1>4 DEF r

\* What leaves a line whose elements are distinct is in it no more.
LEMMA TailDistinct ==
  ASSUME NEW S, NEW s \in Seq(S), s # <<>>
  PROVE  /\ Elements(s) = Elements(Tail(s)) \cup {Head(s)}
         /\ Distinct(s) => Distinct(Tail(s)) /\ Head(s) \notin Elements(Tail(s))
<1> DEFINE r == Tail(s)
<1>1. /\ Len(s) \in Nat /\ Len(s) >= 1 /\ Len(r) = Len(s) - 1
      /\ \A i \in 1 .. Len(r) : r[i] = s[i + 1]
      /\ Head(s) = s[1]
  BY LenProperties, EmptySeq, HeadTailProperties
<1> HIDE DEF r
<1>2. \A i \in 1 .. Len(s) : i = 1 \/ (i - 1 \in 1 .. Len(r) /\ (i - 1) + 1 = i)
  BY <1>1
<1>3. \A i \in 1 .. Len(r) : i + 1 \in 1 .. Len(s) /\ i + 1 # 1
  BY <1>1
<1>4. Elements(s) = Elements(r) \cup {Head(s)}
  <2>1. \A i \in 1 .. Len(s) : s[i] \in Elements(r) \cup {Head(s)}
    <3> SUFFICES ASSUME NEW i \in 1 .. Len(s), i # 1 PROVE s[i] \in Elements(r)
      BY <1>1
    <3>1. i - 1 \in 1 .. Len(r) /\ r[i - 1] = s[i]
      BY <1>1, <1>2
    <3> QED
      BY <3>1 DEF Elements
  <2>2. \A i \in 1 .. Len(r) : r[i] \in Elements(s)
    BY <1>1, <1>3 DEF Elements
  <2>3. Head(s) \in Elements(s)
    <3>1. 1 \in 1 .. Len(s)
      BY <1>1
    <3> QED
      BY <1>1, <3>1 DEF Elements
  <2> QED
    BY <2>1, <2>2, <2>3 DEF Elements
<1>5. ASSUME Distinct(s) PROVE Distinct(r) /\ Head(s) \notin Elements(r)
  <2>1. ASSUME NEW i \in 1 .. Len(r), NEW j \in 1 .. Len(r), r[i] = r[j] PROVE i = j
    <3>1. i + 1 = j + 1
      BY <1>1, <1>3, <1>5, <2>1 DEF Distinct
    <3> QED
      BY <3>1
  <2>2. \A i \in 1 .. Len(r) : r[i] # Head(s)
    <3>1. 1 \in 1 .. Len(s)
      BY <1>1
    <3> QED
      BY <1>1, <1>3, <1>5, <3>1 DEF Distinct
  <2> QED
    BY <2>1, <2>2 DEF Distinct, Elements
<1> QED
  BY <1>4, <1>5 DEF r

\* markQueuedHeadDispatching, place by place.
LEMMA MarkPlaces ==
  ASSUME NEW M, NEW q \in Seq(Entry(M)), NEW m, NEW n,
         NEW r, r = MarkDispatching(q, m, n)
  PROVE  /\ Len(q) \in Nat /\ Len(r) = Len(q)
         /\ \A i \in 1 .. Len(q) :
               /\ r[i].msg = q[i].msg
               /\ q[i].msg = m => r[i].status = "dispatching" /\ ~r[i].seen /\ r[i].since = n
               /\ q[i].msg # m => r[i] = q[i]
<1>1. Len(q) \in Nat /\ \A i \in 1 .. Len(q) : q[i] \in Entry(M)
  BY LenProperties, ElementOfSeq
<1>2. r = [i \in 1 .. Len(q) |->
             IF q[i].msg = m
             THEN [q[i] EXCEPT !.status = "dispatching", !.seen = FALSE, !.since = n]
             ELSE q[i]]
  BY DEF MarkDispatching
<1>3. r \in [1 .. Len(q) -> {r[i] : i \in 1 .. Len(q)}]
  BY <1>2
<1>4. Len(r) = Len(q)
  BY <1>1, <1>3, SeqByPlace
<1>5. \A i \in 1 .. Len(q) :
        /\ r[i].msg = q[i].msg
        /\ q[i].msg = m => r[i].status = "dispatching" /\ ~r[i].seen /\ r[i].since = n
        /\ q[i].msg # m => r[i] = q[i]
  <2> SUFFICES ASSUME NEW i \in 1 .. Len(q)
               PROVE  /\ r[i].msg = q[i].msg
                      /\ q[i].msg = m => r[i].status = "dispatching" /\ ~r[i].seen /\ r[i].since = n
                      /\ q[i].msg # m => r[i] = q[i]
    OBVIOUS
  <2>1. r[i] = IF q[i].msg = m
               THEN [q[i] EXCEPT !.status = "dispatching", !.seen = FALSE, !.since = n]
               ELSE q[i]
    BY <1>2
  <2>2. q[i] \in [msg : M, status : {"queued", "dispatching"}, seen : BOOLEAN, since : Nat]
    BY <1>1 DEF Entry
  <2> QED
    BY <2>1, <2>2
<1> QED
  BY <1>1, <1>4, <1>5

\* The places of what is left of q, or of q in another order: f says where the
\* entry at each place comes from.
From(r, q, f) ==
    /\ f \in [1 .. Len(r) -> 1 .. Len(q)]
    /\ \A i, j \in 1 .. Len(r) : f[i] = f[j] => i = j
    /\ \A i \in 1 .. Len(r) : r[i].msg = q[f[i]].msg /\ r[i].status = q[f[i]].status

\* Entries that keep their order.
Rising(r, f) == \A i, j \in 1 .. Len(r) : i < j => f[i] < f[j]

\* The cancel key, place by place.
LEMMA CancelPlaces ==
  ASSUME NEW M, NEW q \in Seq(Entry(M)), q # <<>>
  PROVE  /\ Len(q) \in Nat /\ Len(q) >= 1 /\ Len(Cancel(q)) = Len(q) - 1
         /\ \A i \in 1 .. Len(q) - 1 : Cancel(q)[i] = q[i]
         /\ \E f : From(Cancel(q), q, f) /\ Rising(Cancel(q), f)
                   /\ \A i \in 1 .. Len(Cancel(q)) : f[i] = i /\ i # Len(q) /\ Cancel(q)[i] = q[f[i]]
<1> DEFINE r == Cancel(q)
<1>1. Len(q) \in Nat /\ Len(q) >= 1 /\ \A i \in 1 .. Len(q) : q[i] \in Entry(M)
  <2>1. Len(q) \in Nat \ {0}
    BY EmptySeq
  <2> QED
    BY <2>1, ElementOfSeq
<1>2. Len(r) = Len(q) - 1 /\ \A i \in 1 .. Len(q) - 1 : r[i] = q[i]
  <2>1. \A i \in 1 .. Len(q) - 1 : q[i] \in Entry(M)
    BY <1>1
  <2>2. /\ Len(r) = IF 1 <= Len(q) - 1 THEN (Len(q) - 1) - 1 + 1 ELSE 0
        /\ \A i \in 1 .. (Len(q) - 1) - 1 + 1 : r[i] = q[1 + i - 1]
    BY <1>1, <2>1, SubSeqProperties, SMTT(30) DEF Cancel
  <2>3. \A n \in Nat : n >= 1 => /\ (n - 1) - 1 + 1 = n - 1
                                /\ (IF 1 <= n - 1 THEN (n - 1) - 1 + 1 ELSE 0) = n - 1
                                /\ \A i \in 1 .. n - 1 : 1 + i - 1 = i
    OBVIOUS
  <2> QED
    BY <1>1, <2>2, <2>3, Zenon
<1> HIDE DEF r
<1> DEFINE f == [i \in 1 .. Len(r) |-> i]
<1>3. f \in [1 .. Len(r) -> 1 .. Len(q)] /\ \A i \in 1 .. Len(r) : f[i] = i /\ i # Len(q) /\ i \in 1 .. Len(q) - 1
  BY <1>1, <1>2
<1> HIDE DEF f
<1>4. From(r, q, f) /\ Rising(r, f) /\ \A i \in 1 .. Len(r) : f[i] = i /\ i # Len(q) /\ r[i] = q[f[i]]
  BY <1>2, <1>3 DEF From, Rising
<1> QED
  BY <1>1, <1>2, <1>4 DEF r

\* The arrow keys, place by place.
LEMMA MovePlaces ==
  ASSUME NEW M, NEW q \in Seq(Entry(M)), NEW to, CanMove(q, to)
  PROVE  LET r == Move(q, to)
             from == MoveTarget(q)
         IN  /\ Len(q) \in Nat /\ from \in 1 .. Len(q) /\ to \in 1 .. Len(q) /\ to \in {from + 1, from - 1}
             /\ Len(r) = Len(q)
             /\ \A i \in 1 .. Len(q) : r[i] = IF i = to THEN q[from] ELSE IF i = from THEN q[to] ELSE q[i]
<1> DEFINE from == MoveTarget(q)
           r == Move(q, to)
<1>1. /\ Len(q) \in Nat /\ from \in 1 .. Len(q) /\ to \in 1 .. Len(q) /\ to \in {from + 1, from - 1}
  BY LenProperties, EmptySeq DEF CanMove, MoveTarget
<1>2. q[from] \in Entry(M) /\ q[to] \in Entry(M)
  BY <1>1, ElementOfSeq
<1>3. DOMAIN q = 1 .. Len(q)
  BY LenProperties
<1>4. /\ r = [[q EXCEPT ![from] = q[to]] EXCEPT ![to] = q[from]]
      /\ Len(r) = Len(q)
  BY <1>1, <1>2, <1>3, ExceptSeq DEF Move
<1>5. \A i \in 1 .. Len(q) : r[i] = IF i = to THEN q[from] ELSE IF i = from THEN q[to] ELSE q[i]
  BY <1>1, <1>3, <1>4
<1> QED
  BY <1>1, <1>4, <1>5

\* Entries that change places, and nothing else.
Shuffled(r, q, f) ==
    /\ From(r, q, f)
    /\ \A i \in 1 .. Len(r) : r[i] = q[f[i]]
    /\ \A i \in 1 .. Len(q) : \E j \in 1 .. Len(r) : f[j] = i

\* The arrow keys only shuffle the queue.
LEMMA MoveFrom ==
  ASSUME NEW M, NEW q \in Seq(Entry(M)), NEW to, CanMove(q, to), NEW r, r = Move(q, to)
  PROVE  \E f : Shuffled(r, q, f)
<1> DEFINE from == MoveTarget(q)
<1>1. /\ Len(q) \in Nat /\ from \in 1 .. Len(q) /\ to \in 1 .. Len(q)
      /\ Len(r) = Len(q)
      /\ \A i \in 1 .. Len(q) : r[i] = IF i = to THEN q[from] ELSE IF i = from THEN q[to] ELSE q[i]
  BY MovePlaces
<1> HIDE DEF from
<1> DEFINE f == [i \in 1 .. Len(r) |-> IF i = to THEN from ELSE IF i = from THEN to ELSE i]
<1>6. /\ f \in [1 .. Len(r) -> 1 .. Len(q)]
      /\ \A i \in 1 .. Len(r) : f[i] = IF i = to THEN from ELSE IF i = from THEN to ELSE i
  BY <1>1
<1> HIDE DEF f
<1>7. \A i \in 1 .. Len(r) : r[i] = q[f[i]]
  BY <1>1, <1>6
<1>8. \A i, j \in 1 .. Len(r) : f[i] = f[j] => i = j
  BY <1>1, <1>6
<1>9. From(r, q, f)
  BY <1>6, <1>7, <1>8 DEF From
<1>10. \A i \in 1 .. Len(q) : \E j \in 1 .. Len(r) : f[j] = i
  <2> SUFFICES ASSUME NEW i \in 1 .. Len(q) PROVE f[i] \in 1 .. Len(r) /\ f[f[i]] = i
    BY <1>1
  <2> QED
    BY <1>1, <1>6
<1> QED
  BY <1>7, <1>9, <1>10 DEF Shuffled

\* Reconciliation with a view, place by place: only complete entries go.
LEMMA ReconciledPlaces ==
  ASSUME NEW M, NEW q \in Seq(Entry(M)), NEW v \in View(M)
  PROVE  LET r == Reconciled(q, v)
         IN  /\ Len(q) \in Nat /\ Len(r) \in Nat /\ Len(r) <= Len(q)
             /\ \E f : /\ From(r, q, f) /\ Rising(r, f)
                       /\ \A i \in 1 .. Len(r) : r[i] = Observed(q[f[i]], v)
                       /\ \A i \in 1 .. Len(q) :
                             Complete(Observed(q[i], v), v) \/ \E j \in 1 .. Len(r) : f[j] = i
<1> DEFINE seen == [i \in 1 .. Len(q) |-> Observed(q[i], v)]
           done == {i \in 1 .. Len(q) : Complete(seen[i], v)}
           k    == CHOOSE i \in done : TRUE
           r    == Reconciled(q, v)
<1>1. Len(q) \in Nat /\ \A i \in 1 .. Len(q) : q[i] \in Entry(M)
  BY LenProperties, ElementOfSeq
<1>2. \A i \in 1 .. Len(q) : /\ Observed(q[i], v) \in Entry(M) /\ Observed(q[i], v).msg = q[i].msg
                             /\ Observed(q[i], v).status = q[i].status
  <2>1. v.running \in BOOLEAN
    BY DEF View
  <2> QED
    BY <1>1, <2>1 DEF Observed, Entry
<1>3. seen \in Seq(Entry(M)) /\ Len(seen) = Len(q) /\ \A i \in 1 .. Len(q) : seen[i] = Observed(q[i], v)
  BY <1>1, <1>2, SeqByPlace
<1>5. r = IF done = {} THEN seen ELSE RemoveAt(seen, k)
  BY DEF Reconciled
<1>6. \A i \in 1 .. Len(q) : i \in done <=> Complete(Observed(q[i], v), v)
  OBVIOUS
<1>7. done \subseteq 1 .. Len(q)
  OBVIOUS
<1> HIDE DEF seen, done, r
<1>8. CASE done = {}
  <2> DEFINE f == [i \in 1 .. Len(q) |-> i]
  <2>1. f \in [1 .. Len(q) -> 1 .. Len(q)] /\ \A i \in 1 .. Len(q) : f[i] = i
    OBVIOUS
  <2> HIDE DEF f
  <2>2. r = seen /\ Len(r) = Len(q)
    BY <1>3, <1>5, <1>8
  <2>3. From(r, q, f) /\ Rising(r, f)
    BY <1>2, <1>3, <2>1, <2>2 DEF From, Rising
  <2>4. \A i \in 1 .. Len(r) : r[i] = Observed(q[f[i]], v)
    BY <1>3, <2>1, <2>2
  <2>5. \A i \in 1 .. Len(q) : \E j \in 1 .. Len(r) : f[j] = i
    BY <2>1, <2>2
  <2> QED
    BY <1>1, <2>2, <2>3, <2>4, <2>5 DEF r
<1>9. CASE done # {}
  <2>1. k \in done /\ k \in 1 .. Len(q)
    BY <1>7, <1>9
  <2> HIDE DEF k
  <2>2. Len(r) = Len(q) - 1 /\ \A i \in 1 .. Len(q) - 1 : r[i] = IF i <= k - 1 THEN seen[i] ELSE seen[i + 1]
    BY <1>3, <1>5, <1>9, <2>1, RemovePlaces
  <2> DEFINE f == [i \in 1 .. Len(r) |-> IF i < k THEN i ELSE i + 1]
  <2>3. f \in [1 .. Len(r) -> 1 .. Len(q)] /\ \A i \in 1 .. Len(r) : f[i] = IF i < k THEN i ELSE i + 1
    BY <1>1, <2>1, <2>2
  <2> HIDE DEF f
  <2>4. Len(r) \in Nat /\ Len(r) <= Len(q)
    BY <1>1, <2>1, <2>2
  <2>5. \A i \in 1 .. Len(r) : r[i] = Observed(q[f[i]], v)
    <3> SUFFICES ASSUME NEW i \in 1 .. Len(r) PROVE r[i] = Observed(q[f[i]], v)
      OBVIOUS
    <3>1. i \in 1 .. Len(q) - 1 /\ f[i] \in 1 .. Len(q) /\ r[i] = seen[f[i]]
      BY <1>1, <2>1, <2>2, <2>3
    <3> QED
      BY <1>3, <3>1
  <2>6. \A i, j \in 1 .. Len(r) : (f[i] = f[j] => i = j) /\ (i < j => f[i] < f[j])
    BY <1>1, <2>1, <2>3, <2>4
  <2>7. \A i \in 1 .. Len(r) : r[i].msg = q[f[i]].msg /\ r[i].status = q[f[i]].status
    BY <1>2, <2>3, <2>5
  <2>8. From(r, q, f) /\ Rising(r, f)
    BY <2>3, <2>6, <2>7 DEF From, Rising
  <2>9. \A i \in 1 .. Len(q) : i = k \/ \E j \in 1 .. Len(r) : f[j] = i
    <3> SUFFICES ASSUME NEW i \in 1 .. Len(q), i # k PROVE \E j \in 1 .. Len(r) : f[j] = i
      OBVIOUS
    <3>1. CASE i < k
      BY <1>1, <2>1, <2>2, <2>3, <3>1
    <3>2. CASE i > k
      <4>1. i - 1 \in 1 .. Len(r) /\ ~(i - 1 < k) /\ (i - 1) + 1 = i
        BY <1>1, <2>1, <2>2, <3>2
      <4> QED
        BY <2>3, <4>1
    <3> QED
      BY <1>1, <2>1, <3>1, <3>2
  <2>10. \A i \in 1 .. Len(q) : Complete(Observed(q[i], v), v) \/ \E j \in 1 .. Len(r) : f[j] = i
    BY <1>6, <2>1, <2>9
  <2> QED
    BY <1>1, <2>4, <2>5, <2>8, <2>10 DEF r
<1> QED
  BY <1>8, <1>9

---------------------------------------------------------------------------
(* What is left of the steps when nothing fails.                           *)

\* Nothing is left in the budget of what fails, so nothing does.
LEMMA CalmSteps ==
  ASSUME TypeOK, Spared, Next
  PROVE  CalmNext
<1>1. \A b \in {"losses", "expiries", "suspends", "crashes"} : ~Spend(b)
  BY DEF Spared, Spend
<1>2. ~Spend("losses") /\ ~Spend("expiries") /\ ~Spend("suspends") /\ ~Spend("crashes")
  BY <1>1
<1>3. /\ ~SettingsFail /\ ~Close /\ ~Crash /\ ~Suspend
      /\ \A i : ~Expire(i)
      /\ \A c : ~Timeout(c) /\ ~HandleFails(c)
  BY <1>2, Zenon DEF SettingsFail, Close, Crash, Suspend, Expire, Timeout, HandleFails
<1>4. ~Resume /\ ~Retry
  BY DEF Spared, Resume, Retry
<1>5. \A a \in answers : a.ok
  BY DEF Spared
<1>6. CASE User
  BY <1>3, <1>4, <1>6, Zenon DEF User, CalmNext
<1>7. CASE Client
  BY <1>4, <1>5, <1>7, Zenon DEF Client, CalmNext
<1>8. CASE Server
  BY <1>8, Zenon DEF CalmNext
<1>9. CASE Trouble
  BY <1>3, <1>9, Zenon DEF Trouble, CalmNext
<1> QED
  BY <1>6, <1>7, <1>8, <1>9 DEF Next

\* What a calm step does to what is asked and answered.
LEMMA CalmBudget ==
  ASSUME TypeOK, Spared, CalmNext
  PROVE  \A b \in {"losses", "expiries", "suspends", "crashes"} : budget'[b] = 0
<1> USE DEF user, transport, network, server
<1>1. budget \in [Bounds -> Nat]
  BY DEF TypeOK
<1>2. (\E kind \in {"moves", "exits"} : Spend(kind)) \/ UNCHANGED budget
  <2>1. CASE \/ WriteQueued \/ WriteDirect \/ CancelQueued \/ SendDirect \/ Pump
             \/ ReadSnapshot \/ ShowSnapshot \/ Open
    BY <2>1 DEF WriteQueued, WriteDirect, CancelQueued, SendDirect, Pump, ReadSnapshot, ShowSnapshot, Open
  <2>2. CASE (\E to \in 1 .. Len(queue) : MoveQueued(to)) \/ ProviderExits
    BY <2>2 DEF MoveQueued, ProviderExits
  <2>3. CASE \/ (\E m \in backoff : BackoffOver(m)) \/ (\E a \in answers : a.ok /\ Answered(a))
             \/ \E i \in 1 .. Len(turns) : FailTurn(i)
    BY <2>3 DEF BackoffOver, Answered, FailTurn
  <2>4. CASE Server
    BY <2>4 DEF Server, Receive, Handle, StartSession, SessionReady, StartTurn, EndTurn
  <2> QED
    BY <2>1, <2>2, <2>3, <2>4 DEF CalmNext
<1>3. \A kind \in {"moves", "exits"}, b \in {"losses", "expiries", "suspends", "crashes"} :
         Spend(kind) => budget'[b] = budget[b]
  BY <1>1 DEF Spend, Bounds
<1> QED
  BY <1>2, <1>3 DEF Spared

\* The line of a request, where nothing closes: it is put there, received from
\* there, or left there.
LEMMA CalmLine ==
  ASSUME TypeOK, Spared
  PROVE  /\ SendDirect \/ Pump => Line' = Append(Line, Len(calls) + 1) /\ inbox' = inbox
         /\ Receive => Line # <<>> /\ Line' = Tail(Line) /\ inbox' = inbox \cup {Head(Line)}
         /\ Open \/ UNCHANGED <<state, wire, outbound>> => Line' = Line
<1> USE DEF user, transport, network, server
<1>1. ASSUME SendDirect \/ Pump PROVE Line' = Append(Line, Len(calls) + 1) /\ inbox' = inbox
  <2>1. PICK m, kind : Request(m, kind)
    BY <1>1, Zenon DEF SendDirect, Pump
  <2>2. state' = state /\ inbox' = inbox
    BY <1>1 DEF SendDirect, Pump
  <2> QED
    BY <1>1, <2>1, <2>2 DEF Request, Spared, Line
<1>2. Open => Line' = Line
  BY DEF Open, Spared, Line
<1>3. Receive => Line # <<>> /\ Line' = Tail(Line) /\ inbox' = inbox \cup {Head(Line)}
  BY DEF Receive, Spared, Line
<1>4. UNCHANGED <<state, wire, outbound>> => Line' = Line
  BY DEF Line
<1> QED
  BY <1>1, <1>2, <1>3, <1>4

\* A calm step leaves nothing failed.
LEMMA SparedStays ==
  ASSUME TypeOK, Spared, CalmNext
  PROVE  Spared'
<1> USE DEF user, transport, network, server
<1>1. \A b \in {"losses", "expiries", "suspends", "crashes"} : budget'[b] = 0
  BY CalmBudget
<1>2. /\ state' \in {"connecting", "open"}
      /\ state' = "connecting" => wire' = <<>>
      /\ state' = "open" => outbound' = <<>>
  <2>1. CASE SendDirect \/ Pump
    <3>1. PICK m, kind : Request(m, kind)
      BY <2>1, Zenon DEF SendDirect, Pump
    <3>2. state' = state
      BY <2>1 DEF SendDirect, Pump
    <3> QED
      BY <3>1, <3>2 DEF Request, Spared
  <2>2. CASE Open
    BY <2>2 DEF Open, Spared
  <2>3. CASE Receive
    BY <2>3 DEF Receive, Spared
  <2>4. (UNCHANGED <<state, wire, outbound>>) =>
           /\ state' \in {"connecting", "open"}
           /\ state' = "connecting" => wire' = <<>>
           /\ state' = "open" => outbound' = <<>>
    BY DEF Spared
  <2>5. CASE \/ WriteQueued \/ WriteDirect \/ CancelQueued \/ ReadSnapshot \/ ShowSnapshot \/ ProviderExits
             \/ StartSession \/ SessionReady
    BY <2>4, <2>5 DEF WriteQueued, WriteDirect, CancelQueued, ReadSnapshot, ShowSnapshot, ProviderExits,
                      StartSession, SessionReady
  <2>6. CASE \/ (\E to \in 1 .. Len(queue) : MoveQueued(to)) \/ (\E m \in backoff : BackoffOver(m))
             \/ (\E i \in 1 .. Len(turns) : FailTurn(i) \/ StartTurn(i) \/ EndTurn(i))
             \/ (\E a \in answers : a.ok /\ Answered(a)) \/ (\E c \in inbox : Handle(c))
    BY <2>4, <2>6 DEF MoveQueued, BackoffOver, FailTurn, StartTurn, EndTurn, Answered, Handle
  <2> QED
    BY <2>1, <2>2, <2>3, <2>5, <2>6 DEF CalmNext, Server
<1>3. \A a \in answers' : a.ok
  <2>1. answers' \subseteq answers => \A a \in answers' : a.ok
    BY DEF Spared
  <2>2. CASE \/ WriteQueued \/ WriteDirect \/ CancelQueued \/ ReadSnapshot \/ ShowSnapshot \/ ProviderExits
             \/ StartSession \/ SessionReady \/ SendDirect \/ Pump \/ Open \/ Receive
    BY <2>1, <2>2 DEF WriteQueued, WriteDirect, CancelQueued, ReadSnapshot, ShowSnapshot, ProviderExits,
                      StartSession, SessionReady, SendDirect, Pump, Open, Receive
  <2>3. CASE \/ (\E to \in 1 .. Len(queue) : MoveQueued(to)) \/ (\E m \in backoff : BackoffOver(m))
             \/ (\E i \in 1 .. Len(turns) : FailTurn(i) \/ StartTurn(i) \/ EndTurn(i))
             \/ (\E a \in answers : a.ok /\ Answered(a))
    BY <2>1, <2>3 DEF MoveQueued, BackoffOver, FailTurn, StartTurn, EndTurn, Answered
  <2>4. CASE \E c \in inbox : Handle(c)
    <3>1. PICK c \in inbox : AnswerTo(c, TRUE)
      BY <2>4 DEF Handle
    <3>2. \A a \in answers' : a \in answers \/ a = [call |-> c, ok |-> TRUE]
      BY <3>1 DEF AnswerTo
    <3> QED
      BY <3>2 DEF Spared
  <2> QED
    BY <2>2, <2>3, <2>4 DEF CalmNext, Server
<1> QED
  BY <1>1, <1>2, <1>3 DEF Spared

---------------------------------------------------------------------------
(* One request and one turn start for a message.                           *)

\* Steps that leave the messages where they are.
Still ==
    /\ UNCHANGED <<written, composer, deferred, cancelled, moved, queue, calls, pending>>
    /\ UNCHANGED answers
    /\ Len(turns') = Len(turns)
    /\ \A i \in 1 .. Len(turns) : turns'[i].msg = turns[i].msg

\* A turn that changes its phase keeps its place and message.
LEMMA TurnPlaces ==
  ASSUME TypeOK, NEW i \in 1 .. Len(turns), NEW phase \in {"requested", "running", "done", "lost"},
         turns' = [turns EXCEPT ![i].phase = phase]
  PROVE  /\ Len(turns') = Len(turns)
         /\ \A j \in 1 .. Len(turns) :
               /\ turns'[j].msg = turns[j].msg
               /\ turns'[j].phase = IF j = i THEN phase ELSE turns[j].phase
<1>1. turns \in Seq(Turn) /\ \A j \in 1 .. Len(turns) : turns[j] \in Turn
  BY ElementOfSeq DEF TypeOK
<1>2. /\ [turns[i] EXCEPT !.phase = phase] \in Turn
      /\ [turns[i] EXCEPT !.phase = phase].msg = turns[i].msg
      /\ [turns[i] EXCEPT !.phase = phase].phase = phase
  BY <1>1 DEF Turn
<1>3. turns' = [turns EXCEPT ![i] = [turns[i] EXCEPT !.phase = phase]]
  OBVIOUS
<1>4. /\ Len(turns') = Len(turns)
      /\ \A j \in 1 .. Len(turns) :
           turns'[j] = IF j = i THEN [turns[i] EXCEPT !.phase = phase] ELSE turns[j]
  BY <1>1, <1>2, <1>3, ExceptSeq
<1> QED
  BY <1>2, <1>4

\* So do the turns that the provider takes with it.
LEMMA LostPlaces ==
  ASSUME TypeOK, NEW phases, LoseTurns(phases)
  PROVE  /\ Len(turns') = Len(turns)
         /\ \A j \in 1 .. Len(turns) :
               /\ turns'[j].msg = turns[j].msg
               /\ turns'[j].phase = IF turns[j].phase \in phases THEN "lost" ELSE turns[j].phase
<1>1. Len(turns) \in Nat /\ \A i \in 1 .. Len(turns) : turns[i] \in Turn
  BY LenProperties, ElementOfSeq DEF TypeOK
<1>2. Len(turns') = Len(turns)
  BY LoseTurnsKeeps
<1> QED
  BY <1>1, <1>2 DEF LoseTurns, Turn

\* The steps of sessions and turns, of snapshots asked for, and of the sockets
\* leave messages where they are.
LEMMA StillSteps ==
  ASSUME TypeOK,
         \/ (\E m \in backoff : BackoffOver(m)) \/ ReadSnapshot \/ Open \/ Receive
         \/ StartSession \/ SessionReady \/ ProviderExits \/ UNCHANGED vars
         \/ \E i \in 1 .. Len(turns) : StartTurn(i) \/ EndTurn(i) \/ FailTurn(i)
  PROVE  Still
<1> USE DEF user, transport, network, server
<1>1. UNCHANGED <<written, composer, deferred, cancelled, moved, queue, calls, pending, answers>>
  BY DEF BackoffOver, ReadSnapshot, Open, Receive, StartSession, SessionReady, ProviderExits, StartTurn,
         EndTurn, FailTurn, vars
<1>2. /\ Len(turns') = Len(turns)
      /\ \A i \in 1 .. Len(turns) : turns'[i].msg = turns[i].msg
  <2>1. CASE \E i \in 1 .. Len(turns) : StartTurn(i) \/ EndTurn(i) \/ FailTurn(i)
    BY <2>1, TurnPlaces DEF StartTurn, EndTurn, FailTurn
  <2>2. CASE ProviderExits
    BY <2>2, LostPlaces DEF ProviderExits
  <2>3. CASE UNCHANGED turns
    BY <2>3
  <2> QED
    BY <2>1, <2>2, <2>3 DEF BackoffOver, ReadSnapshot, Open, Receive, StartSession, SessionReady, vars
<1> QED
  BY <1>1, <1>2 DEF Still

\* Requests on their way are requests.
LEMMA OnWayType ==
  ASSUME TypeOK
  PROVE  /\ Line \in Seq(1 .. Len(calls)) /\ OnWay \subseteq 1 .. Len(calls)
         /\ Len(calls) \in Nat /\ \A c \in 1 .. Len(calls) : calls[c] \in Call
<1>1. Line \in Seq(1 .. Len(calls))
  BY DEF TypeOK, Line
<1>2. \A i \in 1 .. Len(Line) : Line[i] \in 1 .. Len(calls)
  BY <1>1, ElementOfSeq
<1> QED
  BY <1>1, <1>2, LenProperties, ElementOfSeq DEF OnWay, Elements, TypeOK

\* What is on its way, from step to step.
LEMMA OnWayMoves ==
  ASSUME TypeOK, Spared, Travels
  PROVE  /\ SendDirect \/ Pump =>
               /\ Distinct(Line') /\ Elements(Line') \cap inbox' = {}
               /\ OnWay' = OnWay \cup {Len(calls) + 1} /\ Len(calls) + 1 \notin OnWay
         /\ \A c \in inbox : Handle(c) =>
               /\ Distinct(Line') /\ Elements(Line') \cap inbox' = {}
               /\ OnWay' = OnWay \ {c} /\ c \in OnWay
         /\ Receive \/ Open \/ UNCHANGED <<state, wire, outbound, inbox>> =>
               /\ Distinct(Line') /\ Elements(Line') \cap inbox' = {}
               /\ OnWay' = OnWay
<1> USE DEF user, transport, network, server
<1>1. /\ Line \in Seq(1 .. Len(calls)) /\ OnWay \subseteq 1 .. Len(calls) /\ Len(calls) \in Nat
      /\ inbox \subseteq 1 .. Len(calls)
  BY OnWayType DEF TypeOK
<1>2. Distinct(Line) /\ Elements(Line) \cap inbox = {}
  BY DEF Travels
<1>3. ASSUME SendDirect \/ Pump
      PROVE  /\ Distinct(Line') /\ Elements(Line') \cap inbox' = {}
             /\ OnWay' = OnWay \cup {Len(calls) + 1} /\ Len(calls) + 1 \notin OnWay
  <2>1. Line' = Append(Line, Len(calls) + 1) /\ inbox' = inbox
    BY <1>3, CalmLine
  <2>2. Len(calls) + 1 \notin OnWay
    BY <1>1
  <2>3. Line \in Seq(Nat) /\ Len(calls) + 1 \in Nat /\ Len(calls) + 1 \notin Elements(Line)
    BY <1>1, <2>2, SeqMonotonic DEF OnWay
  <2>4. /\ Elements(Append(Line, Len(calls) + 1)) = Elements(Line) \cup {Len(calls) + 1}
        /\ Distinct(Append(Line, Len(calls) + 1))
    BY <1>2, <2>3, AppendDistinct
  <2>5. Elements(Line') = Elements(Line) \cup {Len(calls) + 1} /\ Distinct(Line')
    BY <2>1, <2>4, Zenon
  <2> QED
    BY <1>2, <2>1, <2>2, <2>5 DEF OnWay
<1>4. ASSUME NEW c \in inbox, Handle(c)
      PROVE  /\ Distinct(Line') /\ Elements(Line') \cap inbox' = {}
             /\ OnWay' = OnWay \ {c} /\ c \in OnWay
  <2>1. Line' = Line /\ inbox' = inbox \ {c}
    BY <1>4, CalmLine DEF Handle
  <2> QED
    BY <1>2, <2>1 DEF OnWay
<1>5. ASSUME Receive
      PROVE  /\ Distinct(Line') /\ Elements(Line') \cap inbox' = {}
             /\ OnWay' = OnWay
  <2>1. Line # <<>> /\ Line' = Tail(Line) /\ inbox' = inbox \cup {Head(Line)}
    BY <1>5, CalmLine
  <2>2. /\ Elements(Line) = Elements(Tail(Line)) \cup {Head(Line)}
        /\ Distinct(Tail(Line)) /\ Head(Line) \notin Elements(Tail(Line))
    BY <1>1, <1>2, <2>1, TailDistinct
  <2> HIDE DEF Line
  <2>3. Elements(Line') = Elements(Tail(Line)) /\ Distinct(Line')
    BY <2>1, <2>2, Zenon
  <2> QED
    BY <1>2, <2>1, <2>2, <2>3 DEF OnWay
<1>6. ASSUME Open \/ UNCHANGED <<state, wire, outbound, inbox>>
      PROVE  /\ Distinct(Line') /\ Elements(Line') \cap inbox' = {}
             /\ OnWay' = OnWay
  <2>1. Line' = Line /\ inbox' = inbox
    BY <1>6, CalmLine DEF Open
  <2> QED
    BY <1>2, <2>1 DEF OnWay
<1> QED
  BY <1>3, <1>4, <1>5, <1>6

\* A request, seen from the requests made.
LEMMA RequestCalls ==
  ASSUME TypeOK, NEW m \in Messages, NEW kind \in {"queued", "direct"}, Request(m, kind)
  PROVE  /\ Len(calls) \in Nat /\ Len(calls') = Len(calls) + 1
         /\ \A c \in 1 .. Len(calls) : calls'[c] = calls[c]
         /\ calls'[Len(calls) + 1] = [msg |-> m, kind |-> kind]
         /\ \A c \in 1 .. Len(calls) + 1 : c \in 1 .. Len(calls) \/ c = Len(calls) + 1
         /\ Called' = Called \cup {m}
         /\ pending' = pending \cup {Len(calls) + 1}
<1>1. [msg |-> m, kind |-> kind] \in Call
  BY DEF Call
<1>2. calls \in Seq(Call) /\ Len(calls) \in Nat /\ calls' = Append(calls, [msg |-> m, kind |-> kind])
  BY LenProperties DEF TypeOK, Request
<1>3. /\ Len(calls') = Len(calls) + 1
      /\ \A c \in 1 .. Len(calls) : calls'[c] = calls[c]
      /\ calls'[Len(calls) + 1] = [msg |-> m, kind |-> kind]
  BY <1>1, <1>2, AppendProperties
<1>4. \A c \in 1 .. Len(calls) + 1 : c \in 1 .. Len(calls) \/ c = Len(calls) + 1
  BY <1>2
<1>5. Len(calls) + 1 \in 1 .. Len(calls) + 1 /\ 1 .. Len(calls) \subseteq 1 .. Len(calls) + 1
  BY <1>2
<1>6. Called' = Called \cup {m}
  <2>1. \A c \in 1 .. Len(calls') : calls'[c].msg \in Called \cup {m}
    BY <1>3, <1>4 DEF Called
  <2>2. Called \subseteq Called' /\ m \in Called'
    BY <1>3, <1>5 DEF Called
  <2> QED
    BY <2>1, <2>2 DEF Called
<1> QED
  BY <1>2, <1>3, <1>4, <1>6 DEF Request

\* What is asked of the composer's and the queue's messages.
LEMMA ComposerType ==
  ASSUME TypeOK
  PROVE  /\ composer.step = "settings" =>
              composer \in [msg : Messages, step : {"settings", "turn"}] /\ Composed = {composer.msg}
         /\ composer.step # "settings" => Composed = {}
         /\ Composed \subseteq Messages
         /\ Nobody.step # "settings"
<1>1. composer = Nobody \/ composer \in [msg : Messages, step : {"settings", "turn"}]
  BY DEF TypeOK, Sending
<1> QED
  BY <1>1 DEF Nobody, Composed

\* Steps that leave the messages where they are keep them apart.
LEMMA StillOnce ==
  ASSUME TypeOK, OnceInv, Still,
         Receive \/ Open \/ UNCHANGED <<state, wire, outbound, inbox>>
  PROVE  Travels' /\ CalledOnce' /\ Apart'
<1>1. Distinct(Line') /\ Elements(Line') \cap inbox' = {} /\ OnWay' = OnWay
  BY OnWayMoves DEF OnceInv
<1>2. Called' = Called /\ Composed' = Composed /\ Persisted(turns') = Persisted(turns)
  BY DEF Still, Called, Composed, Persisted
<1>3. Travels'
  BY <1>1, <1>2 DEF OnceInv, Travels, Still
<1>4. CalledOnce'
  BY <1>2 DEF OnceInv, CalledOnce, OneTurnPerMessage, Still
<1>5. Apart'
  BY <1>2 DEF OnceInv, Apart, Still
<1> QED
  BY <1>3, <1>4, <1>5

\* So do steps that take entries out of the queue, or move them.
LEMMA DrawnOnce ==
  ASSUME TypeOK, OnceInv, NEW f, From(queue', queue, f),
         UNCHANGED <<written, composer, deferred, state, wire, outbound, inbox, calls, pending, answers, turns>>,
         \/ cancelled' = cancelled
         \/ \E m : /\ cancelled' = cancelled \cup {m} /\ m \in deferred \ Called
                   /\ \A i \in 1 .. Len(queue') : queue'[i].msg # m
  PROVE  Travels' /\ CalledOnce' /\ Apart'
<1>1. Distinct(Line') /\ Elements(Line') \cap inbox' = {} /\ OnWay' = OnWay
  BY OnWayMoves DEF OnceInv
<1>2. Called' = Called /\ Composed' = Composed
  BY DEF Called, Composed
<1>3. Travels' /\ CalledOnce'
  BY <1>1, <1>2 DEF OnceInv, Travels, CalledOnce, OneTurnPerMessage
<1>4. \A i \in 1 .. Len(queue') :
         /\ f[i] \in 1 .. Len(queue)
         /\ queue'[i].msg = queue[f[i]].msg /\ queue'[i].status = queue[f[i]].status
  BY DEF From
<1>5. \A i, j \in 1 .. Len(queue') : queue'[i].msg = queue'[j].msg => i = j
  <2> SUFFICES ASSUME NEW i \in 1 .. Len(queue'), NEW j \in 1 .. Len(queue'), queue'[i].msg = queue'[j].msg
               PROVE  i = j
    OBVIOUS
  <2>1. f[i] \in 1 .. Len(queue) /\ f[j] \in 1 .. Len(queue) /\ queue[f[i]].msg = queue[f[j]].msg
    BY <1>4
  <2>2. f[i] = f[j]
    BY <2>1 DEF OnceInv, Apart
  <2> QED
    BY <2>2 DEF From
<1>6. \A i \in 1 .. Len(queue') : queue'[i].msg \in deferred \ cancelled'
  BY <1>4 DEF OnceInv, Apart
<1>7. \A i \in 1 .. Len(queue') : queue'[i].status = "queued" <=> queue'[i].msg \notin Called
  BY <1>4 DEF OnceInv, Apart
<1>8. cancelled' \subseteq deferred \ Called
  BY DEF OnceInv, Apart
<1> QED
  BY <1>2, <1>3, <1>5, <1>6, <1>7, <1>8 DEF OnceInv, Apart

\* Submitting.
LEMMA WriteOnce ==
  ASSUME TypeOK, OnceInv, WriteQueued \/ WriteDirect
  PROVE  Travels' /\ CalledOnce' /\ Apart'
<1> USE DEF user, transport, network, server
<1>1. /\ UNCHANGED <<state, wire, outbound, inbox, calls, pending, answers, turns, cancelled>>
      /\ written' = written + 1 /\ composer = Nobody
  BY DEF WriteQueued, WriteDirect
<1>2. /\ Distinct(Line') /\ Elements(Line') \cap inbox' = {} /\ OnWay' = OnWay
      /\ Called' = Called
  BY <1>1, OnWayMoves DEF OnceInv, Called
<1>3. \A c \in pending : calls[c].kind # "direct"
  BY <1>1 DEF OnceInv, Travels, Nobody
<1>4. Travels' /\ CalledOnce'
  BY <1>1, <1>2, <1>3 DEF OnceInv, Travels, CalledOnce, OneTurnPerMessage
<1>5. /\ written \in Nat /\ written + 1 \notin 1 .. written /\ 1 .. written \subseteq 1 .. written + 1
      /\ written + 1 \in 1 .. written + 1
  BY DEF TypeOK
<1>6. written + 1 \notin Called \cup deferred \cup cancelled
  BY <1>5 DEF OnceInv, Apart
<1>7. Composed = {}
  BY <1>1 DEF Composed, Nobody
<1>8. CASE WriteQueued
  <2>1. composer' = composer /\ deferred' = deferred \cup {written + 1} /\ queue' = Append(queue, NewEntry(written + 1))
    BY <1>8 DEF WriteQueued
  <2>2. NewEntry(written + 1).msg = written + 1 /\ NewEntry(written + 1).status = "queued"
    BY DEF NewEntry
  <2>3. /\ Len(queue) \in Nat /\ Len(queue') = Len(queue) + 1
        /\ \A i \in 1 .. Len(queue) : queue'[i] = queue[i]
        /\ queue'[Len(queue) + 1] = NewEntry(written + 1)
    <3>1. written + 1 \in Messages
      BY <1>8, QueuedSendAssumption DEF WriteQueued, TypeOK, Messages
    <3> QED
      BY <2>1, <3>1, NewEntryType, LenProperties, AppendProperties DEF TypeOK
  <2>4. \A i \in 1 .. Len(queue') : i \in 1 .. Len(queue) \/ i = Len(queue) + 1
    BY <2>3
  <2>5. \A i \in 1 .. Len(queue) : queue[i].msg \in deferred \ cancelled
    BY DEF OnceInv, Apart
  <2>6. \A i, j \in 1 .. Len(queue') : queue'[i].msg = queue'[j].msg => i = j
    BY <1>6, <2>2, <2>3, <2>4, <2>5 DEF OnceInv, Apart
  <2>7. \A i \in 1 .. Len(queue') : queue'[i].msg \in deferred' \ cancelled
    BY <1>6, <2>1, <2>2, <2>3, <2>4, <2>5
  <2>8. \A i \in 1 .. Len(queue') : queue'[i].status = "queued" <=> queue'[i].msg \notin Called
    BY <1>6, <2>2, <2>3, <2>4 DEF OnceInv, Apart
  <2>9. Composed' = {}
    BY <1>7, <2>1 DEF Composed
  <2>10. Called \cup deferred' \subseteq 1 .. written + 1
    BY <1>5, <2>1 DEF OnceInv, Apart
  <2>11. cancelled \subseteq deferred' \ Called
    BY <2>1 DEF OnceInv, Apart
  <2>12. Apart'
    BY <1>1, <1>2, <2>6, <2>7, <2>8, <2>9, <2>10, <2>11 DEF Apart
  <2> QED
    BY <1>4, <2>12
<1>9. CASE WriteDirect
  <2>1. composer' = [msg |-> written + 1, step |-> "settings"] /\ UNCHANGED <<deferred, queue>>
    BY <1>9 DEF WriteDirect
  <2>2. Composed' = {written + 1}
    BY <2>1 DEF Composed
  <2>3. Called \cup deferred \cup Composed' \subseteq 1 .. written + 1
    BY <1>5, <2>2 DEF OnceInv, Apart
  <2> QED
    BY <1>1, <1>2, <1>4, <1>6, <2>1, <2>2, <2>3 DEF OnceInv, Apart
<1> QED
  BY <1>8, <1>9

\* A request is made for a message that has none yet.
LEMMA CallOnce ==
  ASSUME TypeOK, OnceInv, SendDirect \/ Pump, NEW m \in Messages \ Called, NEW kind \in {"queued", "direct"},
         Request(m, kind), UNCHANGED <<turns, answers>>,
         \A c \in pending : calls[c].kind = "direct" => composer' = [msg |-> calls[c].msg, step |-> "turn"],
         kind = "direct" => composer' = [msg |-> m, step |-> "turn"]
  PROVE  Travels' /\ CalledOnce'
<1> DEFINE n == Len(calls) + 1
<1>1. /\ Len(calls) \in Nat /\ Len(calls') = n
      /\ \A c \in 1 .. Len(calls) : calls'[c] = calls[c]
      /\ calls'[n] = [msg |-> m, kind |-> kind]
      /\ \A c \in 1 .. n : c \in 1 .. Len(calls) \/ c = n
      /\ Called' = Called \cup {m} /\ pending' = pending \cup {n}
  BY RequestCalls
<1>2. /\ Distinct(Line') /\ Elements(Line') \cap inbox' = {}
      /\ OnWay' = OnWay \cup {n} /\ n \notin OnWay
  BY OnWayMoves DEF OnceInv
<1>3. OnWay \subseteq 1 .. Len(calls) /\ pending \subseteq 1 .. Len(calls) /\ n \notin 1 .. Len(calls)
      /\ \A a \in answers : a.call \in pending
  BY <1>1, OnWayType DEF TypeOK
<1> HIDE DEF n
<1>4. OnWay' \subseteq pending' /\ \A a \in answers' : a.call \notin OnWay'
  BY <1>1, <1>2, <1>3 DEF OnceInv, Travels
<1>5. Persisted(turns) \subseteq Called /\ m \notin Persisted(turns)
  BY DEF OnceInv, CalledOnce
<1>6. \A c \in OnWay' : calls'[c].msg \notin Persisted(turns')
  BY <1>1, <1>2, <1>3, <1>5 DEF OnceInv, Travels
<1>7. \A c \in pending' : calls'[c].kind = "direct" => composer' = [msg |-> calls'[c].msg, step |-> "turn"]
  BY <1>1, <1>3
<1>8. \A c, d \in 1 .. Len(calls') : calls'[c].msg = calls'[d].msg => c = d
  <2>1. \A c \in 1 .. Len(calls) : calls[c].msg # m
    BY DEF Called
  <2> QED
    BY <1>1, <2>1 DEF OnceInv, CalledOnce
<1>9. Travels'
  BY <1>2, <1>4, <1>6, <1>7 DEF Travels
<1>10. CalledOnce'
  BY <1>1, <1>5, <1>8 DEF OnceInv, CalledOnce, OneTurnPerMessage
<1> QED
  BY <1>9, <1>10

\* The direct send.
LEMMA DirectOnce ==
  ASSUME TypeOK, OnceInv, SendDirect
  PROVE  /\ Travels' /\ CalledOnce' /\ Apart'
         /\ composer.msg \in Messages \ Called /\ Composed = {composer.msg} /\ Composed' = {}
         /\ Called' = Called \cup {composer.msg} /\ OnWay' = OnWay \cup {Len(calls) + 1}
<1> USE DEF user, transport, network, server
<1>1. /\ composer \in [msg : Messages, step : {"settings", "turn"}] /\ composer.step = "settings"
      /\ Composed = {composer.msg}
  BY ComposerType DEF SendDirect
<1>2. /\ Request(composer.msg, "direct") /\ composer' = [msg |-> composer.msg, step |-> "turn"]
      /\ UNCHANGED <<written, deferred, cancelled, queue, answers, turns>>
  BY <1>1 DEF SendDirect
<1>3. composer.msg \in Messages \ Called /\ composer.msg \notin deferred
  BY <1>1 DEF OnceInv, Apart
<1>4. \A c \in pending : calls[c].kind # "direct"
  BY <1>1 DEF OnceInv, Travels
<1>5. Travels' /\ CalledOnce'
  BY <1>2, <1>3, <1>4, CallOnce
<1>6. Called' = Called \cup {composer.msg}
  BY <1>2, <1>3, RequestCalls
<1>7. Composed' = {}
  BY <1>2 DEF Composed
<1>8. \A i \in 1 .. Len(queue) : queue[i].msg # composer.msg
  BY <1>3 DEF OnceInv, Apart
<1>9. cancelled \subseteq deferred \ Called'
  BY <1>3, <1>6 DEF OnceInv, Apart
<1>10. Apart'
  BY <1>1, <1>2, <1>6, <1>7, <1>8, <1>9 DEF OnceInv, Apart
<1>11. OnWay' = OnWay \cup {Len(calls) + 1}
  BY OnWayMoves DEF OnceInv
<1> QED
  BY <1>1, <1>3, <1>5, <1>6, <1>7, <1>10, <1>11

\* The pump takes the first message that waits, for which no request was made.
LEMMA PumpOnce ==
  ASSUME TypeOK, OnceInv, Pump
  PROVE  /\ Travels' /\ CalledOnce' /\ Apart'
         /\ DispatchingIn(queue) = {} /\ ~view.running
         /\ \E i \in Waiting(queue) :
               /\ \A j \in Waiting(queue) : i <= j
               /\ queue[i].msg \in Messages \ Called /\ queue[i].msg \in deferred
               /\ queue' = MarkDispatching(queue, queue[i].msg, replies)
               /\ calls' = Append(calls, [msg |-> queue[i].msg, kind |-> "queued"])
               /\ Called' = Called \cup {queue[i].msg} /\ OnWay' = OnWay \cup {Len(calls) + 1}
<1> USE DEF user, transport, network, server
<1> DEFINE h == FirstWaiting(queue)
           m == queue[h].msg
<1>1. /\ Request(m, "queued") /\ queue' = MarkDispatching(queue, m, replies)
      /\ UNCHANGED <<written, composer, deferred, cancelled, answers, turns>>
      /\ Waiting(queue) # {} /\ DispatchingIn(queue) = {} /\ ~view.running
  BY DEF Pump, PumpDispatches
<1>2. h \in Waiting(queue) /\ h \in 1 .. Len(queue) /\ \A j \in Waiting(queue) : h <= j
  <2>1. Waiting(queue) \subseteq 1 .. Len(queue) /\ 1 .. Len(queue) \subseteq Nat
    BY DEF Waiting
  <2>2. \E i \in Waiting(queue) : \A j \in Waiting(queue) : i <= j
    BY <1>1, <2>1, FirstOf, Zenon
  <2>3. h \in Waiting(queue) /\ \A j \in Waiting(queue) : h <= j
    BY <2>2, Zenon DEF FirstWaiting
  <2> QED
    BY <2>1, <2>3
<1> HIDE DEF h
<1>3. /\ queue[h].msg \in Messages /\ queue[h].status = "queued"
      /\ queue[h].msg \in (deferred \ cancelled) \ Called
  BY <1>2, QueuedAt DEF TypeOK, OnceInv, Apart, Waiting
<1> HIDE DEF m
<1>4. m \in Messages \ Called /\ m \in deferred \ cancelled /\ m = queue[h].msg
  BY <1>3 DEF m
<1>5. \A c \in pending : calls[c].kind = "direct" => composer' = [msg |-> calls[c].msg, step |-> "turn"]
  BY <1>1 DEF OnceInv, Travels
<1>6. Travels' /\ CalledOnce'
  BY <1>1, <1>4, <1>5, CallOnce
<1>7. Called' = Called \cup {m} /\ calls' = Append(calls, [msg |-> m, kind |-> "queued"])
  BY <1>1, <1>4, RequestCalls DEF Request
<1>8. OnWay' = OnWay \cup {Len(calls) + 1}
  BY OnWayMoves DEF OnceInv
<1>9. /\ Len(queue) \in Nat /\ Len(queue') = Len(queue)
      /\ \A i \in 1 .. Len(queue) :
            /\ queue'[i].msg = queue[i].msg
            /\ queue[i].msg = m => queue'[i].status = "dispatching"
            /\ queue[i].msg # m => queue'[i] = queue[i]
  <2>1. queue \in Seq(Entry(Messages)) /\ queue' = MarkDispatching(queue, m, replies)
    BY <1>1 DEF TypeOK
  <2> QED
    BY <2>1, MarkPlaces
<1>10. Apart'
  <2>1. \A i, j \in 1 .. Len(queue') : queue'[i].msg = queue'[j].msg => i = j
    BY <1>9 DEF OnceInv, Apart
  <2>2. \A i \in 1 .. Len(queue') : queue'[i].msg \in deferred \ cancelled
    BY <1>9 DEF OnceInv, Apart
  <2>3. \A i \in 1 .. Len(queue') : queue'[i].status = "queued" <=> queue'[i].msg \notin Called'
    BY <1>7, <1>9 DEF OnceInv, Apart
  <2>4. cancelled \subseteq deferred \ Called'
    BY <1>4, <1>7 DEF OnceInv, Apart
  <2>5. Composed' = Composed /\ Composed \cap (Called' \cup deferred) = {}
    BY <1>1, <1>4, <1>7 DEF OnceInv, Apart, Composed
  <2>6. Called' \cup deferred \cup Composed \subseteq 1 .. written
    BY <1>4, <1>7 DEF OnceInv, Apart
  <2> QED
    BY <1>1, <2>1, <2>2, <2>3, <2>4, <2>5, <2>6 DEF Apart
<1> QED
  BY <1>1, <1>2, <1>4, <1>6, <1>7, <1>8, <1>10

\* The answer of a request settles its promise.
LEMMA AnsweredOnce ==
  ASSUME TypeOK, OnceInv, NEW a \in answers, a.ok, Answered(a)
  PROVE  /\ Travels' /\ CalledOnce' /\ Apart'
         /\ Composed' = Composed /\ Called' = Called /\ OnWay' = OnWay
         /\ UNCHANGED <<written, deferred, cancelled, moved, queue>>
<1> USE DEF user, transport, network, server
<1>1. /\ answers' \subseteq answers /\ \A b \in answers' : b.call # a.call
      /\ pending' = pending \ {a.call}
      /\ composer' = IF calls[a.call].kind = "direct" THEN Nobody ELSE composer
      /\ UNCHANGED <<written, deferred, cancelled, moved, queue, state, calls, outbound, wire, inbox, turns>>
  BY DEF Answered
<1>2. a.call \in pending /\ a.call \in 1 .. Len(calls) /\ pending \subseteq 1 .. Len(calls)
  BY DEF TypeOK
<1>3. Distinct(Line') /\ Elements(Line') \cap inbox' = {} /\ OnWay' = OnWay /\ Called' = Called
  BY <1>1, OnWayMoves DEF OnceInv, Called
<1>4. ASSUME NEW c \in pending', calls[c].kind = "direct"
      PROVE  composer' = [msg |-> calls[c].msg, step |-> "turn"]
  <2>1. c \in pending /\ c # a.call /\ composer = [msg |-> calls[c].msg, step |-> "turn"]
    BY <1>1, <1>4 DEF OnceInv, Travels
  <2>2. calls[a.call].kind # "direct"
    <3>1. SUFFICES ASSUME calls[a.call].kind = "direct" PROVE FALSE
      OBVIOUS
    <3>2. calls[a.call].msg = calls[c].msg
      BY <1>2, <2>1, <3>1 DEF OnceInv, Travels
    <3> QED
      BY <1>2, <2>1, <3>2 DEF OnceInv, CalledOnce
  <2> QED
    BY <1>1, <2>1, <2>2
<1>5. Composed' = Composed
  <2>1. CASE calls[a.call].kind = "direct"
    BY <1>1, <1>2, <2>1 DEF OnceInv, Travels, Composed, Nobody
  <2>2. CASE calls[a.call].kind # "direct"
    BY <1>1, <2>2 DEF Composed
  <2> QED
    BY <2>1, <2>2
<1>6. Travels'
  <2>1. OnWay \subseteq pending' /\ \A b \in answers' : b.call \notin OnWay
    BY <1>1 DEF OnceInv, Travels
  <2>2. \A c \in OnWay : calls[c].msg \notin Persisted(turns)
    BY DEF OnceInv, Travels
  <2> QED
    BY <1>1, <1>3, <1>4, <2>1, <2>2 DEF Travels
<1>7. CalledOnce' /\ Apart'
  BY <1>1, <1>3, <1>5 DEF OnceInv, CalledOnce, OneTurnPerMessage, Apart
<1> QED
  BY <1>1, <1>3, <1>5, <1>6, <1>7

\* A request that is handled becomes a turn start.
LEMMA HandlePlaces ==
  ASSUME TypeOK, NEW c \in inbox, Handle(c)
  PROVE  /\ Len(turns) \in Nat /\ Len(turns') = Len(turns) + 1
         /\ \A i \in 1 .. Len(turns) : turns'[i] = turns[i]
         /\ turns'[Len(turns) + 1] = [msg |-> calls[c].msg, phase |-> "requested"]
         /\ \A i \in 1 .. Len(turns) + 1 : i \in 1 .. Len(turns) \/ i = Len(turns) + 1
         /\ Len(turns) + 1 \in 1 .. Len(turns) + 1 /\ Len(turns) + 1 \notin 1 .. Len(turns)
         /\ Persisted(turns') = Persisted(turns) \cup {calls[c].msg}
<1> DEFINE turn == [msg |-> calls[c].msg, phase |-> "requested"]
<1>1. turn \in Turn
  BY OnWayType DEF Call, Turn, TypeOK
<1>2. turns \in Seq(Turn) /\ Len(turns) \in Nat /\ turns' = Append(turns, turn)
  BY LenProperties DEF TypeOK, Handle
<1>3. /\ Len(turns') = Len(turns) + 1
      /\ \A i \in 1 .. Len(turns) : turns'[i] = turns[i]
      /\ turns'[Len(turns) + 1] = turn
  BY <1>1, <1>2, AppendProperties
<1>4. /\ \A i \in 1 .. Len(turns) + 1 : i \in 1 .. Len(turns) \/ i = Len(turns) + 1
      /\ Len(turns) + 1 \in 1 .. Len(turns) + 1 /\ Len(turns) + 1 \notin 1 .. Len(turns)
      /\ 1 .. Len(turns) \subseteq 1 .. Len(turns) + 1
  BY <1>2
<1>5. Persisted(turns') = Persisted(turns) \cup {calls[c].msg}
  <2>1. turn.msg = calls[c].msg
    OBVIOUS
  <2>2. \A i \in 1 .. Len(turns') : turns'[i].msg \in Persisted(turns) \cup {calls[c].msg}
    BY <1>3, <1>4, <2>1 DEF Persisted
  <2>3. Persisted(turns) \subseteq Persisted(turns') /\ calls[c].msg \in Persisted(turns')
    BY <1>3, <1>4, <2>1 DEF Persisted
  <2> QED
    BY <2>2, <2>3 DEF Persisted
<1> QED
  BY <1>2, <1>3, <1>4, <1>5

\* The server records one turn start for a request, and forgets the request.
LEMMA HandleOnce ==
  ASSUME TypeOK, OnceInv, NEW c \in inbox, Handle(c)
  PROVE  /\ Travels' /\ CalledOnce' /\ Apart'
         /\ c \in OnWay /\ OnWay' = OnWay \ {c} /\ c \in 1 .. Len(calls)
<1> USE DEF user, transport, network, server
<1>1. /\ UNCHANGED <<written, composer, deferred, cancelled, queue, calls, pending>>
      /\ AnswerTo(c, TRUE)
  BY DEF Handle
<1>2. /\ Distinct(Line') /\ Elements(Line') \cap inbox' = {}
      /\ OnWay' = OnWay \ {c} /\ c \in OnWay
      /\ Called' = Called /\ Composed' = Composed
  BY <1>1, OnWayMoves DEF OnceInv, Called, Composed
<1>3. OnWay \subseteq 1 .. Len(calls)
  BY OnWayType
<1>4. \A b \in answers' : b \in answers \/ b.call = c
  BY <1>1 DEF AnswerTo
<1>5. /\ Len(turns') = Len(turns) + 1
      /\ \A i \in 1 .. Len(turns) : turns'[i] = turns[i]
      /\ turns'[Len(turns) + 1] = [msg |-> calls[c].msg, phase |-> "requested"]
      /\ \A i \in 1 .. Len(turns) + 1 : i \in 1 .. Len(turns) \/ i = Len(turns) + 1
      /\ Persisted(turns') = Persisted(turns) \cup {calls[c].msg}
  BY HandlePlaces
<1>6. \A d \in OnWay \ {c} : calls[d].msg # calls[c].msg
  BY <1>2, <1>3 DEF OnceInv, CalledOnce
<1>7. Travels'
  <2>1. OnWay' \subseteq pending /\ \A b \in answers' : b.call \notin OnWay'
    BY <1>2, <1>4 DEF OnceInv, Travels
  <2>2. \A d \in OnWay' : calls[d].msg \notin Persisted(turns')
    BY <1>2, <1>5, <1>6 DEF OnceInv, Travels
  <2> QED
    BY <1>1, <1>2, <2>1, <2>2 DEF OnceInv, Travels
<1>8. CalledOnce'
  <2>1. calls[c].msg \in Called /\ calls[c].msg \notin Persisted(turns)
    BY <1>2, <1>3 DEF OnceInv, Travels, Called
  <2>2. \A i \in 1 .. Len(turns) : turns[i].msg # calls[c].msg
    BY <2>1 DEF Persisted
  <2>3. OneTurnPerMessage'
    BY <1>5, <2>2 DEF OnceInv, CalledOnce, OneTurnPerMessage
  <2> QED
    BY <1>1, <1>2, <1>5, <2>1, <2>3 DEF OnceInv, CalledOnce
<1>9. Apart'
  BY <1>1, <1>2 DEF OnceInv, Apart
<1> QED
  BY <1>2, <1>3, <1>7, <1>8, <1>9

\* Each step keeps requests and turn starts apart.
LEMMA OnceStep ==
  ASSUME TypeOK, OnceInv, [Next]_vars
  PROVE  OnceInv'
<1> USE DEF user, transport, network, server
<1>1. CASE UNCHANGED vars
  <2>1. Still /\ UNCHANGED <<state, wire, outbound, inbox>> /\ Spared'
    BY <1>1 DEF vars, Still, OnceInv, Spared
  <2> QED
    BY <2>1, StillOnce DEF OnceInv
<1>2. CASE Next
  <2>1. CalmNext /\ Spared'
    BY <1>2, CalmSteps, SparedStays DEF OnceInv
  <2>2. CASE WriteQueued \/ WriteDirect
    BY <2>1, <2>2, WriteOnce DEF OnceInv
  <2>3. CASE CancelQueued
    <3>1. PICK f : /\ From(queue', queue, f)
                   /\ \A i \in 1 .. Len(queue') : f[i] # Len(queue) /\ queue'[i] = queue[f[i]]
      <4>1. queue \in Seq(Entry(Messages)) /\ queue # <<>> /\ queue' = Cancel(queue)
        BY <2>3 DEF CancelQueued, CanCancel, TypeOK
      <4>2. \E f : /\ From(Cancel(queue), queue, f)
                   /\ \A i \in 1 .. Len(Cancel(queue)) : f[i] # Len(queue) /\ Cancel(queue)[i] = queue[f[i]]
        BY <4>1, CancelPlaces
      <4> QED
        BY <4>1, <4>2, Zenon
    <3>2. Len(queue) \in 1 .. Len(queue) /\ queue[Len(queue)].status = "queued"
      <4>1. Len(queue) \in 1 .. Len(queue) /\ queue[Len(queue)] \in Entry(Messages)
        BY <2>3, EmptySeq, ElementOfSeq DEF CancelQueued, CanCancel, TypeOK
      <4> QED
        BY <2>3, <4>1 DEF CancelQueued, CanCancel, Entry
    <3>3. queue[Len(queue)].msg \in deferred \ Called
      BY <3>2 DEF OnceInv, Apart
    <3>4. \A i \in 1 .. Len(queue') : queue'[i].msg # queue[Len(queue)].msg
      BY <3>1, <3>2 DEF From, OnceInv, Apart
    <3>5. /\ cancelled' = cancelled \cup {queue[Len(queue)].msg}
          /\ UNCHANGED <<written, composer, deferred, state, wire, outbound, inbox, calls, pending, answers, turns>>
      BY <2>3 DEF CancelQueued
    <3> QED
      BY <2>1, <3>1, <3>3, <3>4, <3>5, DrawnOnce DEF OnceInv
  <2>4. ASSUME NEW to \in 1 .. Len(queue), MoveQueued(to)
        PROVE  OnceInv'
    <3>1. PICK f : From(queue', queue, f)
      BY <2>4, MoveFrom DEF MoveQueued, TypeOK, Shuffled
    <3>2. UNCHANGED <<written, composer, deferred, cancelled, state, wire, outbound, inbox, calls, pending, answers,
                      turns>>
      BY <2>4 DEF MoveQueued
    <3> QED
      BY <2>1, <3>1, <3>2, DrawnOnce DEF OnceInv
  <2>5. CASE ShowSnapshot
    <3>1. Head(snapshot) \in View(Messages) /\ queue' = Reconciled(queue, Head(snapshot))
      BY <2>5, HeadTailProperties DEF ShowSnapshot, TypeOK
    <3>2. PICK f : From(queue', queue, f)
      BY <3>1, ReconciledPlaces DEF TypeOK
    <3>3. UNCHANGED <<written, composer, deferred, cancelled, state, wire, outbound, inbox, calls, pending, answers,
                      turns>>
      BY <2>5 DEF ShowSnapshot
    <3> QED
      BY <2>1, <3>2, <3>3, DrawnOnce DEF OnceInv
  <2>6. CASE SendDirect
    BY <2>1, <2>6, DirectOnce DEF OnceInv
  <2>7. CASE Pump
    BY <2>1, <2>7, PumpOnce DEF OnceInv
  <2>8. ASSUME NEW a \in answers, a.ok, Answered(a)
        PROVE  OnceInv'
    BY <2>1, <2>8, AnsweredOnce DEF OnceInv
  <2>9. ASSUME NEW c \in inbox, Handle(c)
        PROVE  OnceInv'
    BY <2>1, <2>9, HandleOnce DEF OnceInv
  <2>10. CASE \/ (\E m \in backoff : BackoffOver(m)) \/ ReadSnapshot \/ Open \/ Receive
              \/ StartSession \/ SessionReady \/ ProviderExits
              \/ \E i \in 1 .. Len(turns) : StartTurn(i) \/ EndTurn(i) \/ FailTurn(i)
    <3>1. Still
      BY <2>10, StillSteps
    <3>2. Receive \/ Open \/ UNCHANGED <<state, wire, outbound, inbox>>
      BY <2>10 DEF BackoffOver, ReadSnapshot, StartSession, SessionReady, ProviderExits, StartTurn, EndTurn, FailTurn
    <3> QED
      BY <2>1, <3>1, <3>2, StillOnce DEF OnceInv
  <2> QED
    BY <2>1, <2>2, <2>3, <2>4, <2>5, <2>6, <2>7, <2>8, <2>9, <2>10 DEF CalmNext, Server
<1> QED
  BY <1>1, <1>2

\* Nothing is under way at first.
LEMMA OnceInit ==
  ASSUME NothingFails, Init
  PROVE  OnceInv
<1>1. /\ Len(queue) = 0 /\ Len(turns) = 0 /\ Len(calls) = 0 /\ Len(outbound) = 0
      /\ state = "connecting" /\ wire = <<>> /\ outbound = <<>> /\ inbox = {} /\ answers = {} /\ pending = {}
      /\ deferred = {} /\ cancelled = {} /\ composer.step = "idle" /\ written = 0
  BY EmptySeq DEF Init, Nobody
<1>2. \A b \in {"losses", "expiries", "suspends", "crashes"} : budget[b] = 0
  BY DEF Init, NothingFails
<1>3. Spared
  BY <1>1, <1>2 DEF Spared
<1>4. Line = outbound /\ OnWay = {} /\ Called = {} /\ Composed = {} /\ Persisted(turns) = {}
  BY <1>1 DEF Line, OnWay, Elements, Called, Composed, Persisted
<1>5. Travels
  BY <1>1, <1>4 DEF Travels, Distinct, Elements
<1>6. CalledOnce
  BY <1>1, <1>4 DEF CalledOnce, OneTurnPerMessage
<1>7. Apart
  BY <1>1, <1>4 DEF Apart
<1> QED
  BY <1>3, <1>5, <1>6, <1>7 DEF OnceInv

\* The invariant of runs in which nothing fails.
THEOREM OnceHolds ==
  ASSUME NothingFails
  PROVE  Spec => []OnceInv
<1>1. Init => OnceInv
  BY OnceInit
<1>2. TypeOK /\ OnceInv /\ [Next]_vars => OnceInv'
  BY OnceStep
<1> QED
  BY <1>1, <1>2, TypeOKHolds, PTL DEF Spec

\* While nothing fails on the way to the server and back, a message has one turn,
\* whether it was sent directly or queued, moved before or after others, and
\* whatever its turn comes to: the pump never sends an entry again.
THEOREM OneTurnEach ==
  ASSUME NothingFails
  PROVE  Spec => []OneTurnPerMessage
<1>1. OnceInv => OneTurnPerMessage
  BY DEF OnceInv, CalledOnce
<1> QED
  BY <1>1, OnceHolds, PTL

\* Then, too, no message that the user took back out of the queue has a turn: the
\* cancel key takes only entries for which no request was made, and none is made
\* for a message that is not in the queue.
THEOREM CancelledStaysBack ==
  ASSUME NothingFails
  PROVE  Spec => []CancelledNeverRuns
<1>1. OnceInv => CancelledNeverRuns
  BY DEF OnceInv, CalledOnce, Apart, CancelledNeverRuns
<1> QED
  BY <1>1, OnceHolds, PTL

---------------------------------------------------------------------------
(* The order of messages, whatever fails.                                  *)

\* Only what was requested has a turn, and only what was written is requested.
Known ==
    /\ Persisted(turns) \subseteq Called
    /\ Called \cup Composed \subseteq 1 .. written
    /\ \A i \in 1 .. Len(queue) : queue[i].msg \in 1 .. written

\* A direct send goes past an empty queue; what the user did not move comes after
\* all that stands before it, and no request was made for a later one.
InOrder ==
    /\ composer # Nobody => queue = <<>>
    /\ \A i \in 1 .. Len(queue) : queue[i].msg \notin moved =>
          /\ \A j \in 1 .. i - 1 : queue[j].msg < queue[i].msg
          /\ \A m \in Called : m <= queue[i].msg

\* What is in r is what is left of q, or all of it, in its order.
Thins(r, q) ==
    \E f : /\ f \in [1 .. Len(r) -> 1 .. Len(q)] /\ Rising(r, f)
           /\ \A i \in 1 .. Len(r) : r[i].msg = q[f[i]].msg

\* Entries that keep places and messages.
LEMMA SamePlaces ==
  ASSUME NEW q, NEW r, Len(q) \in Nat, Len(r) = Len(q), \A i \in 1 .. Len(q) : r[i].msg = q[i].msg
  PROVE  Thins(r, q)
<1> DEFINE f == [i \in 1 .. Len(r) |-> i]
<1>1. f \in [1 .. Len(r) -> 1 .. Len(q)] /\ \A i \in 1 .. Len(r) : f[i] = i
  OBVIOUS
<1> HIDE DEF f
<1>2. Rising(r, f) /\ \A i \in 1 .. Len(r) : r[i].msg = q[f[i]].msg
  BY <1>1 DEF Rising
<1> QED
  BY <1>1, <1>2 DEF Thins

\* Giving up a dispatch keeps places and messages.
LEMMA RequeueThins ==
  ASSUME NEW M, NEW q \in Seq(Entry(M)), NEW msgs
  PROVE  Thins(Requeue(q, msgs), q)
<1> DEFINE r == Requeue(q, msgs)
<1>1. Len(q) \in Nat /\ \A i \in 1 .. Len(q) : q[i] \in Entry(M)
  BY LenProperties, ElementOfSeq
<1>2. r \in [1 .. Len(q) -> Entry(M)]
  BY <1>1 DEF Requeue, Entry, NewEntry
<1>3. Len(r) = Len(q)
  BY <1>1, <1>2, SeqByPlace
<1>4. \A i \in 1 .. Len(q) : r[i].msg = q[i].msg
  BY <1>1 DEF Requeue, NewEntry
<1> HIDE DEF r
<1>5. Thins(r, q)
  BY <1>1, <1>3, <1>4, SamePlaces
<1> QED
  BY <1>5 DEF r

\* What comes from places that rise is in order.
LEMMA FromThins ==
  ASSUME NEW q, NEW r, NEW f, From(r, q, f), Rising(r, f)
  PROVE  Thins(r, q)
  BY DEF From, Thins

\* The cancel key takes the last entry out.
LEMMA CancelThins ==
  ASSUME NEW M, NEW q \in Seq(Entry(M)), q # <<>>
  PROVE  Thins(Cancel(q), q)
<1>1. \E f : From(Cancel(q), q, f) /\ Rising(Cancel(q), f)
  BY CancelPlaces
<1> QED
  BY <1>1, FromThins

\* Reconciliation takes out what is complete.
LEMMA ReconciledThins ==
  ASSUME NEW M, NEW q \in Seq(Entry(M)), NEW v \in View(M)
  PROVE  Thins(Reconciled(q, v), q)
<1>1. \E f : From(Reconciled(q, v), q, f) /\ Rising(Reconciled(q, v), f)
  BY ReconciledPlaces
<1> QED
  BY <1>1, FromThins

\* Steps that neither write, send nor move leave requests and order alone.
LEMMA ThinSteps ==
  ASSUME TypeOK, [Next]_vars, ~WriteQueued, ~WriteDirect, ~SendDirect, ~Pump,
         \A to \in 1 .. Len(queue) : ~MoveQueued(to)
  PROVE  /\ Thins(queue', queue) /\ composer' \in {composer, Nobody}
         /\ UNCHANGED <<written, moved, calls>>
<1> USE DEF user, transport, network, server
<1>1. queue \in Seq(Entry(Messages)) /\ Len(queue) \in Nat
  BY LenProperties DEF TypeOK
<1>2. queue' = queue => Thins(queue', queue)
  BY <1>1, SamePlaces
<1>3. ASSUME NEW cs, Reject(cs)
      PROVE  Thins(queue', queue) /\ composer' \in {composer, Nobody}
  <2>1. queue' = Requeue(queue, QueuedMessagesOf(cs))
    BY <1>3 DEF Reject
  <2>2. Thins(Requeue(queue, QueuedMessagesOf(cs)), queue)
    BY <1>1, RequeueThins
  <2> QED
    BY <1>3, <2>1, <2>2, Zenon DEF Reject
<1>4. Disconnect => Thins(queue', queue) /\ composer' \in {composer, Nobody}
  BY <1>3 DEF Disconnect
<1>5. CASE CancelQueued
  <2>1. queue # <<>> /\ queue' = Cancel(queue) /\ UNCHANGED <<written, moved, calls, composer>>
    BY <1>5 DEF CancelQueued, CanCancel
  <2>2. Thins(Cancel(queue), queue)
    BY <1>1, <2>1, CancelThins
  <2>3. Thins(queue', queue)
    BY <2>1, <2>2, Zenon
  <2> QED
    BY <2>1, <2>3
<1>6. CASE ShowSnapshot
  <2>1. /\ Head(snapshot) \in View(Messages) /\ queue' = Reconciled(queue, Head(snapshot))
        /\ UNCHANGED <<written, moved, calls, composer>>
    BY <1>6, HeadTailProperties DEF ShowSnapshot, TypeOK
  <2>2. Thins(Reconciled(queue, Head(snapshot)), queue)
    BY <1>1, <2>1, ReconciledThins
  <2>3. Thins(queue', queue)
    BY <2>1, <2>2, Zenon
  <2> QED
    BY <2>1, <2>3
<1>7. CASE \E i \in 1 .. Len(queue) : Expire(i)
  <2>1. PICK i \in 1 .. Len(queue) : queue' = Requeue(queue, {queue[i].msg})
    BY <1>7 DEF Expire
  <2>2. Thins(Requeue(queue, {queue[i].msg}), queue)
    BY <1>1, RequeueThins
  <2>3. Thins(queue', queue)
    BY <2>1, <2>2, Zenon
  <2> QED
    BY <1>7, <2>3 DEF Expire
<1>8. CASE Suspend \/ Close \/ Crash
  BY <1>4, <1>8 DEF Suspend, Close, Crash
<1>9. CASE \E c \in pending : Timeout(c)
  BY <1>3, <1>9 DEF Timeout
<1>10. CASE \E a \in answers : Answered(a)
  <2>1. PICK a \in answers : Answered(a)
    BY <1>10
  <2>2. CASE a.ok
    BY <1>2, <2>1, <2>2 DEF Answered
  <2>3. CASE ~a.ok
    BY <1>3, <2>1, <2>3 DEF Answered
  <2> QED
    BY <2>2, <2>3
<1>11. CASE Resume \/ (\E m \in backoff : BackoffOver(m)) \/ ReadSnapshot \/ Open \/ Retry \/ SettingsFail
            \/ ProviderExits \/ (\E c \in inbox : HandleFails(c)) \/ UNCHANGED vars
  BY <1>2, <1>11 DEF Resume, BackoffOver, ReadSnapshot, Open, Retry, SettingsFail, ProviderExits, HandleFails, vars
<1>12. CASE Server \/ \E i \in 1 .. Len(turns) : FailTurn(i)
  BY <1>2, <1>12 DEF Server, Receive, Handle, StartSession, SessionReady, StartTurn, EndTurn, FailTurn
<1> QED
  BY <1>5, <1>6, <1>7, <1>8, <1>9, <1>10, <1>11, <1>12 DEF Next, User, Client, Trouble

\* What has a turn: only a request that is handled adds to it.
LEMMA TurnsAreCalled ==
  ASSUME TypeOK, [Next]_vars, Persisted(turns) \subseteq Called, Called \subseteq Called'
  PROVE  Persisted(turns') \subseteq Called'
<1> USE DEF user, transport, network, server
<1>1. turns' = turns => Persisted(turns') = Persisted(turns)
  OBVIOUS
<1>2. ASSUME Len(turns') = Len(turns), \A i \in 1 .. Len(turns) : turns'[i].msg = turns[i].msg
      PROVE  Persisted(turns') = Persisted(turns)
  BY <1>2 DEF Persisted
<1>3. CASE \E i \in 1 .. Len(turns) : StartTurn(i) \/ EndTurn(i) \/ FailTurn(i)
  <2>1. PICK i \in 1 .. Len(turns) : StartTurn(i) \/ EndTurn(i) \/ FailTurn(i)
    BY <1>3
  <2>2. \E phase \in {"requested", "running", "done", "lost"} : turns' = [turns EXCEPT ![i].phase = phase]
    BY <2>1 DEF StartTurn, EndTurn, FailTurn
  <2>3. Len(turns') = Len(turns) /\ \A j \in 1 .. Len(turns) : turns'[j].msg = turns[j].msg
    BY <2>2, TurnPlaces
  <2> QED
    BY <1>2, <2>3
<1>4. CASE ProviderExits \/ Crash
  <2>1. \E phases : LoseTurns(phases)
    BY <1>4 DEF ProviderExits, Crash
  <2>2. Len(turns') = Len(turns) /\ \A j \in 1 .. Len(turns) : turns'[j].msg = turns[j].msg
    BY <2>1, LostPlaces
  <2> QED
    BY <1>2, <2>2
<1>5. CASE \E c \in inbox : Handle(c)
  <2>1. PICK c \in inbox : Handle(c)
    BY <1>5
  <2>2. Persisted(turns') = Persisted(turns) \cup {calls[c].msg}
    BY <2>1, HandlePlaces
  <2>3. calls[c].msg \in Called
    BY DEF TypeOK, Called
  <2> QED
    BY <2>2, <2>3
<1>6. CASE UNCHANGED vars \/ User
  BY <1>1, <1>6 DEF vars, User, WriteQueued, WriteDirect, CancelQueued, MoveQueued, Suspend, Resume
<1>7. CASE Client
  BY <1>1, <1>7 DEF Client, SendDirect, Pump, BackoffOver, ReadSnapshot, ShowSnapshot, Open, Retry, Answered
<1>8. CASE Receive \/ StartSession \/ SessionReady
  BY <1>1, <1>8 DEF Receive, StartSession, SessionReady
<1>9. CASE \/ SettingsFail \/ Close \/ (\E i \in 1 .. Len(queue) : Expire(i)) \/ (\E c \in pending : Timeout(c))
           \/ \E c \in inbox : HandleFails(c)
  BY <1>1, <1>9 DEF SettingsFail, Close, Expire, Timeout, HandleFails
<1> QED
  BY <1>3, <1>4, <1>5, <1>6, <1>7, <1>8, <1>9 DEF Next, Server, Trouble

\* Steps that only thin the queue keep the order.
LEMMA ThinOrder ==
  ASSUME TypeOK, TypeOK', Known, InOrder, Thins(queue', queue), composer' \in {composer, Nobody},
         UNCHANGED <<written, moved, calls>>, Persisted(turns') \subseteq Called'
  PROVE  Known' /\ InOrder'
<1>1. PICK f : /\ f \in [1 .. Len(queue') -> 1 .. Len(queue)] /\ Rising(queue', f)
               /\ \A i \in 1 .. Len(queue') : queue'[i].msg = queue[f[i]].msg
  BY DEF Thins
<1>2. Called' = Called /\ Composed' \subseteq Composed
  BY ComposerType DEF Called, Composed
<1>3. Known'
  BY <1>1, <1>2 DEF Known
<1>4. queue = <<>> => queue' = <<>>
  <2> SUFFICES ASSUME queue = <<>> PROVE queue' = <<>>
    OBVIOUS
  <2>1. Len(queue) = 0 /\ queue' \in Seq(Entry(Messages)) /\ Len(queue') \in Nat
    BY EmptySeq, LenProperties DEF TypeOK
  <2>2. 1 \notin 1 .. Len(queue')
    BY <1>1, <2>1
  <2> QED
    BY <2>1, <2>2, EmptySeq
<1>5. ASSUME NEW i \in 1 .. Len(queue'), queue'[i].msg \notin moved
      PROVE  /\ \A j \in 1 .. i - 1 : queue'[j].msg < queue'[i].msg
             /\ \A m \in Called : m <= queue'[i].msg
  <2>1. f[i] \in 1 .. Len(queue) /\ queue'[i].msg = queue[f[i]].msg
    BY <1>1
  <2>2. ASSUME NEW j \in 1 .. i - 1 PROVE queue'[j].msg < queue'[i].msg
    <3>1. j \in 1 .. Len(queue') /\ j < i
      OBVIOUS
    <3>2. f[j] \in 1 .. Len(queue) /\ f[j] < f[i] /\ queue'[j].msg = queue[f[j]].msg
      BY <1>1, <3>1 DEF Rising
    <3>3. f[j] \in 1 .. f[i] - 1
      BY <2>1, <3>2
    <3> QED
      BY <1>5, <2>1, <3>2, <3>3 DEF InOrder
  <2> QED
    BY <1>5, <2>1, <2>2 DEF InOrder
<1>6. composer' # Nobody => queue' = <<>>
  BY <1>4 DEF InOrder
<1> QED
  BY <1>2, <1>3, <1>5, <1>6 DEF InOrder

\* What the user writes comes after all that was written; what is sent directly
\* passes nothing.
LEMMA WriteOrder ==
  ASSUME Patient, TypeOK, Known, InOrder, WriteQueued \/ WriteDirect
  PROVE  Known' /\ InOrder'
<1> USE DEF user, transport, network, server
<1>1. /\ written \in Nat /\ written + 1 \in 1 .. written + 1 /\ 1 .. written \subseteq 1 .. written + 1
      /\ \A m \in 1 .. written : m < written + 1
  BY DEF TypeOK
<1>2. /\ composer = Nobody /\ written' = written + 1 /\ UNCHANGED <<moved, calls, turns>> /\ Called' = Called
  BY DEF WriteQueued, WriteDirect, Called
<1>3. CASE WriteDirect
  <2>1. queue = <<>> /\ queue' = <<>> /\ composer' = [msg |-> written + 1, step |-> "settings"]
    BY <1>3 DEF WriteDirect
  <2>2. Len(queue') = 0
    BY <2>1, EmptySeq
  <2>3. Composed' = {written + 1}
    BY <2>1 DEF Composed
  <2> QED
    BY <1>1, <1>2, <2>1, <2>2, <2>3 DEF Known, InOrder
<1>4. CASE WriteQueued
  <2>1. queue' = Append(queue, NewEntry(written + 1)) /\ composer' = composer
    BY <1>4 DEF WriteQueued
  <2>2. written + 1 \in Messages
    BY <1>4, QueuedSendAssumption DEF WriteQueued, TypeOK, Messages
  <2>3. /\ Len(queue) \in Nat /\ Len(queue') = Len(queue) + 1
        /\ \A i \in 1 .. Len(queue) : queue'[i] = queue[i]
        /\ queue'[Len(queue) + 1] = NewEntry(written + 1)
    BY <2>1, <2>2, NewEntryType, LenProperties, AppendProperties DEF TypeOK
  <2>4. NewEntry(written + 1).msg = written + 1
    BY DEF NewEntry
  <2>5. \A i \in 1 .. Len(queue') : i \in 1 .. Len(queue) \/ i = Len(queue) + 1
    BY <2>3
  <2>6. Composed' = {}
    BY <1>2, <2>1 DEF Composed, Nobody
  <2>7. Known'
    BY <1>1, <1>2, <2>3, <2>4, <2>5, <2>6 DEF Known
  <2>8. ASSUME NEW i \in 1 .. Len(queue'), queue'[i].msg \notin moved
        PROVE  /\ \A j \in 1 .. i - 1 : queue'[j].msg < queue'[i].msg
               /\ \A m \in Called : m <= queue'[i].msg
    <3>1. CASE i \in 1 .. Len(queue)
      <4>1. queue'[i] = queue[i] /\ \A j \in 1 .. i - 1 : queue'[j] = queue[j]
        BY <2>3, <3>1
      <4> QED
        BY <2>8, <3>1, <4>1 DEF InOrder
    <3>2. CASE i = Len(queue) + 1
      <4>1. \A j \in 1 .. i - 1 : queue'[j] = queue[j] /\ j \in 1 .. Len(queue)
        BY <2>3, <3>2
      <4>2. \A m \in Called : m \in 1 .. written
        BY DEF Known
      <4>3. \A j \in 1 .. Len(queue) : queue[j].msg \in 1 .. written
        BY DEF Known
      <4>4. queue'[i].msg = written + 1
        BY <2>3, <2>4, <3>2
      <4>5. \A m \in 1 .. written : m <= written + 1
        BY <1>1
      <4> QED
        BY <1>1, <4>1, <4>2, <4>3, <4>4, <4>5
    <3> QED
      BY <2>5, <3>1, <3>2
  <2> QED
    BY <1>2, <2>1, <2>7, <2>8 DEF InOrder
<1> QED
  BY <1>3, <1>4

\* A direct send finds the queue empty.
LEMMA SendOrder ==
  ASSUME TypeOK, Known, InOrder, SendDirect
  PROVE  Known' /\ InOrder'
<1> USE DEF user, transport, network, server
<1>1. /\ composer \in [msg : Messages, step : {"settings", "turn"}] /\ composer # Nobody
      /\ Composed = {composer.msg}
  BY ComposerType DEF SendDirect
<1>2. /\ Request(composer.msg, "direct") /\ composer' = [msg |-> composer.msg, step |-> "turn"]
      /\ UNCHANGED <<queue, written, moved, turns>>
  BY <1>1 DEF SendDirect
<1>3. Called' = Called \cup {composer.msg}
  BY <1>1, <1>2, RequestCalls
<1>4. Composed' = {}
  BY <1>2 DEF Composed
<1>5. queue' = <<>> /\ Len(queue') = 0
  BY <1>1, <1>2, EmptySeq DEF InOrder
<1> QED
  BY <1>1, <1>2, <1>3, <1>4, <1>5 DEF Known, InOrder

\* The arrow keys mark what they exchange.
LEMMA MoveOrder ==
  ASSUME TypeOK, Known, InOrder, NEW to \in 1 .. Len(queue), MoveQueued(to)
  PROVE  Known' /\ InOrder'
<1> USE DEF user, transport, network, server
<1> DEFINE from == MoveTarget(queue)
<1>1. /\ queue' = Move(queue, to) /\ moved' = moved \cup {queue[to].msg, queue[from].msg}
      /\ UNCHANGED <<composer, calls, written, turns>> /\ queue # <<>>
  BY DEF MoveQueued, CanMove
<1>2. /\ Len(queue) \in Nat /\ from \in 1 .. Len(queue) /\ to \in {from + 1, from - 1}
      /\ Len(queue') = Len(queue)
      /\ \A i \in 1 .. Len(queue) :
            queue'[i] = IF i = to THEN queue[from] ELSE IF i = from THEN queue[to] ELSE queue[i]
  BY <1>1, MovePlaces DEF MoveQueued, TypeOK
<1> HIDE DEF from
<1>3. Called' = Called /\ Composed' = Composed
  BY <1>1 DEF Called, Composed
<1>4. Known'
  BY <1>1, <1>2, <1>3 DEF Known
<1>5. composer' = Nobody
  BY <1>1 DEF InOrder
<1> SUFFICES ASSUME NEW i \in 1 .. Len(queue), queue'[i].msg \notin moved'
             PROVE  /\ \A j \in 1 .. i - 1 : queue'[j].msg < queue'[i].msg
                    /\ \A m \in Called : m <= queue'[i].msg
  BY <1>2, <1>3, <1>4, <1>5 DEF InOrder
<1>6. i # to /\ i # from /\ queue'[i] = queue[i] /\ queue[i].msg \notin moved
  BY <1>1, <1>2
<1>7. ASSUME NEW j \in 1 .. i - 1 PROVE queue'[j].msg < queue'[i].msg
  <2>1. \E k \in 1 .. i - 1 : queue'[j] = queue[k]
    <3>1. CASE j = to
      BY <1>2, <1>6, <3>1
    <3>2. CASE j = from
      BY <1>2, <1>6, <3>2
    <3>3. CASE j # to /\ j # from
      BY <1>2, <3>3
    <3> QED
      BY <3>1, <3>2, <3>3
  <2> QED
    BY <1>6, <2>1 DEF InOrder
<1> QED
  BY <1>6, <1>7 DEF InOrder

\* The pump takes the head: nothing is dispatching, so every entry waits.
LEMMA PumpOrder ==
  ASSUME TypeOK, Known, InOrder, Pump
  PROVE  Known' /\ InOrder'
<1> USE DEF user, transport, network, server
<1> DEFINE h == FirstWaiting(queue)
<1>1. /\ Request(queue[h].msg, "queued") /\ queue' = MarkDispatching(queue, queue[h].msg, replies)
      /\ UNCHANGED <<written, composer, moved, turns>>
      /\ Waiting(queue) # {} /\ DispatchingIn(queue) = {}
  BY DEF Pump, PumpDispatches
<1>2. h \in 1 .. Len(queue) /\ \A j \in Waiting(queue) : h <= j
  <2>1. Waiting(queue) \subseteq 1 .. Len(queue) /\ 1 .. Len(queue) \subseteq Nat
    BY DEF Waiting
  <2>2. \E i \in Waiting(queue) : \A j \in Waiting(queue) : i <= j
    BY <1>1, <2>1, FirstOf, Zenon
  <2>3. h \in Waiting(queue) /\ \A j \in Waiting(queue) : h <= j
    BY <2>2, Zenon DEF FirstWaiting
  <2> QED
    BY <2>1, <2>3
<1> HIDE DEF h
<1>3. \A i \in 1 .. Len(queue) : i \in Waiting(queue)
  <2>1. \A i \in 1 .. Len(queue) : queue[i] \in Entry(Messages)
    BY ElementOfSeq DEF TypeOK
  <2> QED
    BY <1>1, <2>1 DEF Waiting, DispatchingIn, Entry
<1>4. PICK m : m = queue[h].msg
  OBVIOUS
<1>5. m \in Messages /\ m \in 1 .. written
  BY <1>2, <1>4, QueuedAt DEF TypeOK, Known
<1>6. Called' = Called \cup {m}
  BY <1>1, <1>4, <1>5, RequestCalls
<1>7. /\ Len(queue) \in Nat /\ Len(queue') = Len(queue)
      /\ \A i \in 1 .. Len(queue) : queue'[i].msg = queue[i].msg
  <2>1. queue \in Seq(Entry(Messages)) /\ queue' = MarkDispatching(queue, m, replies)
    BY <1>1, <1>4 DEF TypeOK
  <2> QED
    BY <2>1, MarkPlaces
<1>8. Composed' = Composed
  BY <1>1 DEF Composed
<1>9. Known'
  BY <1>1, <1>5, <1>6, <1>7, <1>8 DEF Known
<1>10. composer' = Nobody
  <2>1. queue # <<>>
    BY <1>2, EmptySeq
  <2> QED
    BY <1>1, <2>1 DEF InOrder
<1>11. ASSUME NEW i \in 1 .. Len(queue), queue[i].msg \notin moved
       PROVE  m <= queue[i].msg
  <2>1. CASE i = h
    BY <1>4, <1>5, <2>1
  <2>2. CASE i # h
    <3>1. h \in 1 .. i - 1
      BY <1>2, <1>3, <2>2
    <3>2. queue[h].msg < queue[i].msg
      BY <1>11, <3>1 DEF InOrder
    <3>3. queue[i].msg \in 1 .. written
      BY DEF Known
    <3> QED
      BY <1>4, <1>5, <3>2, <3>3
  <2> QED
    BY <2>1, <2>2
<1>12. \A i \in 1 .. Len(queue) : \A j \in 1 .. i - 1 : queue'[j].msg = queue[j].msg
  BY <1>7
<1> QED
  BY <1>1, <1>6, <1>7, <1>9, <1>10, <1>11, <1>12 DEF InOrder

\* Each step of a patient user's session keeps the order.
LEMMA OrderStep ==
  ASSUME Patient, TypeOK, TypeOK', Known, InOrder, [Next]_vars
  PROVE  Known' /\ InOrder'
<1>1. CASE WriteQueued \/ WriteDirect
  BY <1>1, WriteOrder
<1>2. CASE SendDirect
  BY <1>2, SendOrder
<1>3. CASE Pump
  BY <1>3, PumpOrder
<1>4. CASE \E to \in 1 .. Len(queue) : MoveQueued(to)
  BY <1>4, MoveOrder
<1>5. CASE /\ ~WriteQueued /\ ~WriteDirect /\ ~SendDirect /\ ~Pump
           /\ \A to \in 1 .. Len(queue) : ~MoveQueued(to)
  <2>1. /\ Thins(queue', queue) /\ composer' \in {composer, Nobody}
        /\ UNCHANGED <<written, moved, calls>>
    BY <1>5, ThinSteps
  <2>2. Persisted(turns') \subseteq Called'
    BY <2>1, TurnsAreCalled DEF Known, Called
  <2> QED
    BY <2>1, <2>2, ThinOrder
<1> QED
  BY <1>1, <1>2, <1>3, <1>4, <1>5

\* A user who sends directly only when nothing else is under way is served in order,
\* whatever fails: while a message that was not moved waits in the queue, no message
\* written after it has a turn.
THEOREM FirstComeFirstServed ==
  ASSUME Patient
  PROVE  Spec => []NotOvertaken
<1>1. Init => Known /\ InOrder
  <2> SUFFICES ASSUME Init PROVE Known /\ InOrder
    OBVIOUS
  <2>1. /\ Len(queue) = 0 /\ Len(turns) = 0 /\ Len(calls) = 0 /\ composer = Nobody
    BY EmptySeq DEF Init
  <2>2. Persisted(turns) = {} /\ Called = {} /\ Composed = {}
    BY <2>1 DEF Persisted, Called, Composed, Nobody
  <2> QED
    BY <2>1, <2>2 DEF Known, InOrder
<1>2. TypeOK /\ TypeOK' /\ Known /\ InOrder /\ [Next]_vars => Known' /\ InOrder'
  BY OrderStep
<1>3. TypeOK /\ Known /\ InOrder => NotOvertaken
  <2> SUFFICES ASSUME TypeOK, Known, InOrder, NEW i \in Waiting(queue),
                      queue[i].msg \notin Persisted(turns) \cup moved,
                      NEW m \in Persisted(turns)
               PROVE  m < queue[i].msg
    BY DEF NotOvertaken
  <2>1. i \in 1 .. Len(queue) /\ m \in Called
    BY DEF Waiting, Known
  <2>2. m <= queue[i].msg /\ m # queue[i].msg /\ m \in 1 .. written /\ queue[i].msg \in 1 .. written
    BY <2>1 DEF InOrder, Known
  <2> QED
    BY <2>2
<1> QED
  BY <1>1, <1>2, <1>3, TypeOKHolds, PTL DEF Spec

---------------------------------------------------------------------------
(* The barrier.                                                            *)

\* While a turn is not over, it is all there is.
LEMMA Alone ==
  ASSUME TypeOK, OnceInv, OneAtATime, NEW i \in Unfinished
  PROVE  /\ i \in 1 .. Len(turns) /\ Composed = {} /\ OnWay = {}
         /\ \A j \in Unfinished : j = i
         /\ Aloft = {turns[i].msg}
<1>1. i \in 1 .. Len(turns) /\ turns[i].msg \in Aloft /\ turns[i].msg \in Persisted(turns)
  BY DEF Unfinished, Aloft, Persisted
<1>2. \A m \in Aloft : m = turns[i].msg
  BY <1>1 DEF OneAtATime
<1>3. Composed = {}
  BY <1>1, <1>2 DEF OnceInv, CalledOnce, Apart, Aloft
<1>4. OnWay = {}
  BY <1>1, <1>2 DEF OnceInv, Travels, Aloft
<1>5. ASSUME NEW j \in Unfinished PROVE j = i
  <2>1. j \in 1 .. Len(turns) /\ turns[j].msg \in Aloft
    BY DEF Unfinished, Aloft
  <2> QED
    BY <1>1, <1>2, <2>1 DEF OnceInv, CalledOnce, OneTurnPerMessage
<1> QED
  BY <1>1, <1>2, <1>3, <1>4, <1>5

\* A message aloft that was queued has its entry, with its request made; while one
\* is aloft, the pump is held.
LEMMA Held ==
  ASSUME TypeOK, OnceInv, OneAtATime, NEW m \in Aloft
  PROVE  /\ m \in deferred =>
              \E d \in 1 .. Len(queue) : queue[d].msg = m /\ queue[d].status = "dispatching"
         /\ m \in Composed \cup Called
         /\ DispatchingIn(queue) # {} \/ queue = <<>> \/ view.running
<1>1. m \in Composed \cup Called
  BY OnWayType DEF Aloft, Unfinished, OnceInv, CalledOnce, Persisted, Called
<1>2. ASSUME m \in deferred
      PROVE  \E d \in 1 .. Len(queue) : queue[d].msg = m /\ queue[d].status = "dispatching"
  <2>1. m \in Called
    BY <1>1, <1>2 DEF OnceInv, Apart
  <2>2. PICK d \in 1 .. Len(queue) : queue[d].msg = m
    BY <1>2 DEF OneAtATime, Flight, IsQueued
  <2>3. queue[d].status # "queued" /\ queue[d] \in Entry(Messages)
    BY <2>1, <2>2, ElementOfSeq DEF OnceInv, Apart, TypeOK
  <2> QED
    BY <2>2, <2>3 DEF Entry
<1>3. DispatchingIn(queue) # {} \/ queue = <<>> \/ view.running
  <2>1. CASE m \in deferred
    BY <1>2, <2>1 DEF DispatchingIn
  <2>2. CASE m \notin deferred
    BY <2>2 DEF OneAtATime, Flight
  <2> QED
    BY <2>1, <2>2
<1> QED
  BY <1>1, <1>2, <1>3

\* Sessions and turns, step by step.
LEMMA SessionsStay ==
  ASSUME ~ShowsStarting, TypeOK, OnceInv, Sessions, OneAtATime, CalmNext
  PROVE  Sessions'
<1> USE DEF user, transport, network, server
<1>0. active \in 0 .. Len(turns) /\ Len(turns) \in Nat
  BY LenProperties DEF TypeOK
<1>1. UNCHANGED <<session, active, alive, turns>> => Sessions'
  BY DEF Sessions
<1>2. CASE \/ WriteQueued \/ WriteDirect \/ CancelQueued \/ SendDirect \/ Pump \/ ReadSnapshot \/ ShowSnapshot
           \/ Open \/ Receive
  BY <1>1, <1>2 DEF WriteQueued, WriteDirect, CancelQueued, SendDirect, Pump, ReadSnapshot, ShowSnapshot, Open,
                    Receive
<1>3. CASE \/ (\E to \in 1 .. Len(queue) : MoveQueued(to)) \/ (\E m \in backoff : BackoffOver(m))
           \/ (\E a \in answers : a.ok /\ Answered(a))
  BY <1>1, <1>3 DEF MoveQueued, BackoffOver, Answered
<1>4. ASSUME NEW c \in inbox, Handle(c)
      PROVE  Sessions'
  <2>1. /\ Len(turns') = Len(turns) + 1
        /\ \A i \in 1 .. Len(turns) : turns'[i] = turns[i]
        /\ turns'[Len(turns) + 1].phase = "requested"
        /\ \A i \in 1 .. Len(turns) + 1 : i \in 1 .. Len(turns) \/ i = Len(turns) + 1
    <3>1. [msg |-> calls[c].msg, phase |-> "requested"].phase = "requested"
      OBVIOUS
    <3>2. turns'[Len(turns) + 1] = [msg |-> calls[c].msg, phase |-> "requested"]
      BY <1>4, HandlePlaces
    <3>3. /\ Len(turns') = Len(turns) + 1
          /\ \A i \in 1 .. Len(turns) : turns'[i] = turns[i]
          /\ \A i \in 1 .. Len(turns) + 1 : i \in 1 .. Len(turns) \/ i = Len(turns) + 1
      BY <1>4, HandlePlaces
    <3> QED
      BY <3>1, <3>2, <3>3
  <2>2. UNCHANGED <<session, active, alive>>
    BY <1>4 DEF Handle
  <2>3. active # 0 => active \in 1 .. Len(turns)
    BY <1>0
  <2> QED
    BY <2>1, <2>2, <2>3 DEF Sessions
<1>5. CASE StartSession
  <2>1. /\ ~alive /\ alive' = TRUE /\ session' \in {"ready", "starting"} /\ active' \in {active, 0} /\ turns' = turns
        /\ session' = "ready"
    BY <1>5 DEF StartSession
  <2>2. active = 0 /\ active' = 0
    BY <2>1 DEF Sessions
  <2> QED
    BY <2>1, <2>2 DEF Sessions
<1>6. CASE SessionReady
  BY <1>6 DEF SessionReady, Sessions
<1>7. ASSUME NEW i \in 1 .. Len(turns), StartTurn(i)
      PROVE  Sessions'
  <2>1. /\ turns[i].phase = "requested" /\ alive /\ UNCHANGED <<session, alive>>
        /\ active' = IF active = 0 THEN i ELSE active
        /\ turns' = [turns EXCEPT ![i].phase = "running"]
    BY <1>7 DEF StartTurn, NextTurn
  <2>2. /\ Len(turns') = Len(turns)
        /\ \A j \in 1 .. Len(turns) : turns'[j].phase = IF j = i THEN "running" ELSE turns[j].phase
    BY <2>1, TurnPlaces
  <2>3. active = 0
    <3> SUFFICES ASSUME active # 0 PROVE FALSE
      OBVIOUS
    <3>1. active \in Unfinished /\ i \in Unfinished /\ turns[active].phase = "running"
      BY <1>0, <2>1 DEF Sessions, Unfinished
    <3>2. active = i
      BY <3>1, Alone
    <3> QED
      BY <2>1, <3>1, <3>2
  <2>4. i # 0
    BY <1>0
  <2> QED
    BY <2>1, <2>2, <2>3, <2>4 DEF Sessions
<1>8. ASSUME NEW i \in 1 .. Len(turns), EndTurn(i)
      PROVE  Sessions'
  <2>1. /\ turns[i].phase = "running" /\ UNCHANGED <<session, alive>>
        /\ active' = IF active = i THEN 0 ELSE active
        /\ turns' = [turns EXCEPT ![i].phase = "done"]
    BY <1>8 DEF EndTurn
  <2>2. /\ Len(turns') = Len(turns)
        /\ \A j \in 1 .. Len(turns) : turns'[j].phase = IF j = i THEN "done" ELSE turns[j].phase
    BY <2>1, TurnPlaces
  <2>3. active = i /\ \A j \in 1 .. Len(turns) : turns[j].phase = "running" => j = i
    BY <2>1 DEF Sessions
  <2> QED
    BY <2>1, <2>2, <2>3 DEF Sessions
<1>9. ASSUME NEW i \in 1 .. Len(turns), FailTurn(i)
      PROVE  Sessions'
  <2>1. /\ turns[i].phase = "requested" /\ UNCHANGED <<session, alive, active>>
        /\ turns' = [turns EXCEPT ![i].phase = "done"]
    BY <1>9 DEF FailTurn, NextTurn
  <2>2. /\ Len(turns') = Len(turns)
        /\ \A j \in 1 .. Len(turns) : turns'[j].phase = IF j = i THEN "done" ELSE turns[j].phase
    BY <2>1, TurnPlaces
  <2>3. active # 0 => active \in 1 .. Len(turns) /\ active # i
    BY <1>0, <2>1 DEF Sessions
  <2> QED
    BY <2>1, <2>2, <2>3 DEF Sessions
<1>10. CASE ProviderExits
  <2>1. session' = "stopped" /\ active' = 0 /\ LoseTurns({"running"})
    BY <1>10 DEF ProviderExits
  <2>2. /\ Len(turns') = Len(turns)
        /\ \A j \in 1 .. Len(turns) :
              turns'[j].phase = IF turns[j].phase \in {"running"} THEN "lost" ELSE turns[j].phase
    BY <2>1, LostPlaces
  <2> QED
    BY <2>1, <2>2 DEF Sessions
<1> QED
  BY <1>2, <1>3, <1>4, <1>5, <1>6, <1>7, <1>8, <1>9, <1>10 DEF CalmNext, Server

\* A view counts replies there were; none is taken back.
LEMMA ViewsStayOld ==
  ASSUME TypeOK, ViewsOld, Next
  PROVE  ViewsOld'
<1> USE DEF user, transport, network, server
<1>1. replies \in Nat /\ view.replies \in Nat /\ \A i \in 1 .. Len(snapshot) : snapshot[i].replies \in Nat
  <2>1. \A i \in 1 .. Len(snapshot) : snapshot[i] \in View(Messages)
    BY ElementOfSeq DEF TypeOK
  <2> QED
    BY <2>1 DEF TypeOK, View
<1>2. replies' \in Nat /\ replies <= replies'
  <2>1. CASE \E i \in 1 .. Len(turns) : EndTurn(i)
    BY <1>1, <2>1 DEF EndTurn
  <2>2. User => replies' = replies
    BY DEF User, WriteQueued, WriteDirect, CancelQueued, MoveQueued, Suspend, Resume
  <2>3. Client => replies' = replies
    BY DEF Client, SendDirect, Pump, BackoffOver, ReadSnapshot, ShowSnapshot, Open, Retry, Answered
  <2>4. Server => replies' = replies \/ \E i \in 1 .. Len(turns) : EndTurn(i)
    BY DEF Server, Receive, Handle, StartSession, SessionReady, StartTurn
  <2>5. Trouble => replies' = replies
    BY DEF Trouble, SettingsFail, Close, ProviderExits, Crash, Expire, Timeout, HandleFails, FailTurn
  <2>6. CASE replies' = replies
    BY <1>1, <2>6
  <2> QED
    BY <2>1, <2>2, <2>3, <2>4, <2>5, <2>6 DEF Next
<1>3. CASE view' = view /\ snapshot' \in {snapshot, <<>>}
  <2>1. Len(snapshot') = 0 \/ snapshot' = snapshot
    BY <1>3, EmptySeq
  <2> QED
    BY <1>1, <1>2, <1>3, <2>1 DEF ViewsOld
<1>4. CASE view' = view /\ snapshot' = <<ServerView>>
  <2>1. Len(snapshot') = 1 /\ snapshot'[1].replies = replies
    BY <1>4 DEF ServerView
  <2> QED
    BY <1>1, <1>2, <1>4, <2>1 DEF ViewsOld
<1>5. CASE snapshot # <<>> /\ view' = Head(snapshot) /\ snapshot' = <<>>
  <2>1. view' = snapshot[1] /\ 1 \in 1 .. Len(snapshot)
    BY <1>5, EmptySeq DEF TypeOK
  <2>2. Len(snapshot') = 0
    BY <1>5, EmptySeq
  <2> QED
    BY <1>1, <1>2, <2>1, <2>2 DEF ViewsOld
<1> QED
  BY <1>3, <1>4, <1>5, ViewsTravel

\* The server shows a running turn while the session is marked with one.
LEMMA ServerShows ==
  ASSUME Sessions
  PROVE  ServerView.running <=> active # 0
<1>1. ServerView.running = (session = "starting" \/ active # 0)
  BY DEF ServerView
<1> QED
  BY <1>1 DEF Sessions

\* Steps that leave what is aloft, the queue and the views.
LEMMA SameFlight ==
  ASSUME OneAtATime, Aloft' = Aloft, UNCHANGED <<view, snapshot, queue, deferred, replies>>,
         active # 0 => active' # 0
  PROVE  OneAtATime'
<1>1. \A m \in Aloft : Flight(m)'
  BY DEF OneAtATime, Flight, AllRunning, NoneRunning
<1> QED
  BY <1>1 DEF OneAtATime, Ground, NoneRunning

\* What was aloft has landed: its entry, or the view, still holds the pump.
LEMMA Landed ==
  ASSUME TypeOK, OnceInv, OneAtATime, Aloft # {}, Aloft' = {}, UNCHANGED <<view, snapshot, queue>>
  PROVE  OneAtATime'
<1>1. PICK m \in Aloft : TRUE
  OBVIOUS
<1>2. DispatchingIn(queue) # {} \/ queue = <<>> \/ view.running
  BY <1>1, Held
<1>3. Ground'
  BY <1>2 DEF Ground
<1> QED
  BY <1>3 DEF OneAtATime

\* Entries that wait are taken out or moved.
LEMMA DrawnFlight ==
  ASSUME TypeOK, OnceInv, OneAtATime, queue # <<>>, NEW f, From(queue', queue, f),
         \A i \in 1 .. Len(queue') : queue'[i] = queue[f[i]],
         \A i \in 1 .. Len(queue) : queue[i].status = "dispatching" => \E j \in 1 .. Len(queue') : f[j] = i,
         UNCHANGED <<view, snapshot, deferred, active, replies>>, Aloft' = Aloft
  PROVE  OneAtATime'
<1>1. \A d \in DispatchingIn(queue') : f[d] \in DispatchingIn(queue) /\ queue'[d] = queue[f[d]]
  BY DEF From, DispatchingIn
<1>2. \A d \in DispatchingIn(queue) : \E j \in DispatchingIn(queue') : f[j] = d
  BY DEF DispatchingIn
<1>3. ASSUME NEW m \in Aloft PROVE Flight(m)'
  <2>1. Flight(m)
    BY DEF OneAtATime
  <2>2. (\A d \in DispatchingIn(queue) :
           /\ queue[d].msg = m /\ queue[d].since = replies
           /\ queue[d].seen => active # 0 /\ AllRunning)
    BY <2>1 DEF Flight
  <2>3. (\A d \in DispatchingIn(queue') :
           /\ queue'[d].msg = m /\ queue'[d].since = replies
           /\ queue'[d].seen => active # 0 /\ AllRunning)
    BY <1>1, <2>2
  <2>4. m \in deferred => IsQueued(queue', m)
    <3> SUFFICES ASSUME m \in deferred PROVE IsQueued(queue', m)
      OBVIOUS
    <3>1. PICK d \in 1 .. Len(queue) : queue[d].msg = m /\ queue[d].status = "dispatching"
      BY Held
    <3>2. PICK j \in 1 .. Len(queue') : f[j] = d
      BY <3>1
    <3> QED
      BY <3>1, <3>2 DEF IsQueued
  <2>5. m \notin deferred => view.running
    BY <2>1 DEF Flight
  <2> QED
    BY <2>1, <2>3, <2>4, <2>5 DEF Flight, AllRunning, NoneRunning
<1>4. Ground => Ground'
  BY <1>2 DEF Ground, NoneRunning
<1> QED
  BY <1>3, <1>4 DEF OneAtATime

\* What is aloft, where neither composer, requests nor turns change.
LEMMA AloftSame ==
  ASSUME Composed' = Composed, OnWay' = OnWay, UNCHANGED <<calls, turns>>
  PROVE  Aloft' = Aloft
  BY DEF Aloft, Unfinished

\* A message written while a turn runs waits behind it.
LEMMA WriteQueuedFlight ==
  ASSUME TypeOK, OnceInv, OneAtATime, WriteQueued
  PROVE  OneAtATime'
<1> USE DEF user, transport, network, server
<1>1. /\ view.running /\ queue' = Append(queue, NewEntry(written + 1)) /\ deferred' = deferred \cup {written + 1}
      /\ UNCHANGED <<composer, view, snapshot, active, replies, calls, turns, state, wire, outbound, inbox>>
  BY DEF WriteQueued
<1>2. Aloft' = Aloft
  BY <1>1, AloftSame, OnWayMoves DEF Composed, OnceInv
<1>3. written + 1 \in Messages
  BY QueuedSendAssumption DEF WriteQueued, TypeOK, Messages
<1>4. /\ Len(queue) \in Nat /\ Len(queue') = Len(queue) + 1
      /\ \A i \in 1 .. Len(queue) : queue'[i] = queue[i]
      /\ queue'[Len(queue) + 1] = NewEntry(written + 1)
  BY <1>1, <1>3, NewEntryType, LenProperties, AppendProperties DEF TypeOK
<1>5. NewEntry(written + 1).status # "dispatching"
  BY DEF NewEntry
<1>6. IsQueued(queue', written + 1) /\ \A x : IsQueued(queue, x) => IsQueued(queue', x)
  BY <1>1, <1>3, EnqueueKeeps DEF TypeOK
<1>7. \A d \in DispatchingIn(queue') : d \in DispatchingIn(queue) /\ queue'[d] = queue[d]
  BY <1>4, <1>5 DEF DispatchingIn
<1>8. ASSUME NEW m \in Aloft PROVE Flight(m)'
  <2>1. Flight(m)
    BY DEF OneAtATime
  <2>2. m \in deferred' => IsQueued(queue', m)
    BY <1>1, <1>6, <2>1 DEF Flight
  <2> QED
    BY <1>1, <1>7, <2>1, <2>2 DEF Flight, AllRunning, NoneRunning
<1>9. Ground'
  BY <1>1 DEF Ground
<1> QED
  BY <1>2, <1>8, <1>9 DEF OneAtATime

\* A patient user sends directly only when nothing is aloft, and sees that.
LEMMA WriteDirectFlight ==
  ASSUME Patient, TypeOK, OnceInv, Sessions, OneAtATime, WriteDirect
  PROVE  OneAtATime'
<1> USE DEF user, transport, network, server
<1>1. /\ queue = <<>> /\ pending = {} /\ Unfinished = {} /\ snapshot = <<>> /\ ~view.running
      /\ composer' = [msg |-> written + 1, step |-> "settings"]
      /\ UNCHANGED <<deferred, queue, view, snapshot, active, replies, calls, turns, state, wire, outbound, inbox>>
  BY DEF WriteDirect
<1>2. OnWay' = OnWay /\ OnWay = {}
  BY <1>1, OnWayMoves DEF OnceInv, Travels
<1>3. Composed' = {written + 1} /\ Unfinished' = {}
  BY <1>1 DEF Composed, Unfinished
<1>4. PICK m : m = written + 1
  OBVIOUS
<1>5. m \notin deferred
  <2>1. written + 1 \notin 1 .. written
    BY DEF TypeOK
  <2> QED
    BY <1>4, <2>1 DEF OnceInv, Apart
<1>6. DispatchingIn(queue) = {} /\ NoneRunning
  BY <1>1, EmptySeq DEF DispatchingIn, NoneRunning
<1>7. Flight(m)'
  BY <1>1, <1>5, <1>6 DEF Flight, NoneRunning, AllRunning
<1>8. Aloft' = {m}
  BY <1>2, <1>3, <1>4 DEF Aloft
<1> QED
  BY <1>7, <1>8 DEF OneAtATime

\* The pump goes only when nothing is aloft.
LEMMA PumpFlight ==
  ASSUME TypeOK, OnceInv, OneAtATime, Pump
  PROVE  OneAtATime'
<1> USE DEF user, transport, network, server
<1>1. /\ DispatchingIn(queue) = {} /\ ~view.running
      /\ UNCHANGED <<view, snapshot, deferred, active, replies, turns, composer>>
  BY PumpOnce DEF Pump
<1>2. PICK h \in Waiting(queue) :
         /\ queue[h].msg \in Messages \ Called /\ queue[h].msg \in deferred
         /\ queue' = MarkDispatching(queue, queue[h].msg, replies)
         /\ calls' = Append(calls, [msg |-> queue[h].msg, kind |-> "queued"])
         /\ OnWay' = OnWay \cup {Len(calls) + 1}
  BY PumpOnce
<1>0. PICK m : m = queue[h].msg
  OBVIOUS
<1>3. h \in 1 .. Len(queue) /\ queue # <<>>
  BY <1>2, EmptySeq DEF Waiting
<1>4. Aloft = {}
  BY <1>1, <1>3, Held
<1>5. NoneRunning
  BY <1>1, <1>3, <1>4 DEF OneAtATime, Ground
<1>6. /\ Len(queue) \in Nat /\ Len(queue') = Len(queue)
      /\ \A i \in 1 .. Len(queue) :
            /\ queue'[i].msg = queue[i].msg
            /\ queue[i].msg = m => queue'[i].status = "dispatching" /\ ~queue'[i].seen /\ queue'[i].since = replies
            /\ queue[i].msg # m => queue'[i] = queue[i]
  <2>1. queue \in Seq(Entry(Messages)) /\ queue' = MarkDispatching(queue, m, replies)
    BY <1>0, <1>2 DEF TypeOK
  <2> QED
    BY <2>1, MarkPlaces
<1>7. Aloft' = {m}
  <2>1. Composed = {} /\ OnWay = {} /\ Unfinished = {}
    BY <1>4 DEF Aloft
  <2>2. Composed' = {} /\ Unfinished' = {}
    BY <1>1, <2>1 DEF Composed, Unfinished
  <2>3. OnWay' = {Len(calls) + 1}
    BY <1>2, <2>1
  <2>4. calls'[Len(calls) + 1].msg = m
    <3>1. calls \in Seq(Call) /\ [msg |-> m, kind |-> "queued"] \in Call
      BY <1>0, <1>2 DEF TypeOK, Call
    <3>2. calls' = Append(calls, [msg |-> m, kind |-> "queued"])
      BY <1>0, <1>2
    <3>3. calls'[Len(calls) + 1] = [msg |-> m, kind |-> "queued"]
      BY <3>1, <3>2, AppendProperties
    <3> QED
      BY <3>3
  <2> QED
    BY <2>2, <2>3, <2>4 DEF Aloft
<1>8. \A d \in DispatchingIn(queue') : queue'[d].msg = m /\ ~queue'[d].seen /\ queue'[d].since = replies
  <2>1. \A d \in 1 .. Len(queue) : queue[d].status # "dispatching"
    BY <1>1 DEF DispatchingIn
  <2> QED
    BY <1>6, <2>1 DEF DispatchingIn
<1>9. m \in deferred /\ IsQueued(queue', m)
  BY <1>0, <1>2, <1>3, <1>6 DEF IsQueued
<1>10. Flight(m)'
  BY <1>1, <1>5, <1>8, <1>9 DEF Flight, NoneRunning, AllRunning
<1> QED
  BY <1>7, <1>10 DEF OneAtATime

\* The server's reading shows a turn that runs.
LEMMA ReadFlight ==
  ASSUME TypeOK, OnceInv, Sessions, OneAtATime, ReadSnapshot
  PROVE  OneAtATime'
<1> USE DEF user, transport, network, server
<1>1. /\ snapshot' = <<ServerView>>
      /\ UNCHANGED <<composer, queue, view, deferred, active, replies, calls, turns, state, wire, outbound, inbox>>
  BY DEF ReadSnapshot
<1>2. Aloft' = Aloft
  BY <1>1, AloftSame, OnWayMoves DEF Composed, OnceInv
<1>3. Len(snapshot') = 1 /\ snapshot'[1] = ServerView
  BY <1>1
<1>4. (AllRunning' <=> active # 0) /\ (NoneRunning' <=> active = 0)
  BY <1>3, ServerShows DEF AllRunning, NoneRunning
<1>5. \A m \in Aloft : Flight(m)'
  BY <1>1, <1>4 DEF OneAtATime, Flight
<1>6. ASSUME Aloft = {} PROVE Ground'
  <2>1. active = 0
    <3> SUFFICES ASSUME active # 0 PROVE FALSE
      OBVIOUS
    <3>1. active \in Unfinished
      BY DEF Sessions, Unfinished, TypeOK
    <3> QED
      BY <1>6, <3>1 DEF Aloft
  <2> QED
    BY <1>4, <2>1 DEF Ground
<1> QED
  BY <1>2, <1>5, <1>6 DEF OneAtATime

\* A view that arrives completes no entry of a message aloft.
LEMMA ShowFlight ==
  ASSUME TypeOK, OnceInv, ViewsOld, OneAtATime, ShowSnapshot
  PROVE  OneAtATime'
<1> USE DEF user, transport, network, server
<1> DEFINE v == Head(snapshot)
<1>1. /\ snapshot # <<>> /\ view' = v /\ snapshot' = <<>> /\ queue' = Reconciled(queue, v)
      /\ UNCHANGED <<composer, deferred, active, replies, calls, turns, state, wire, outbound, inbox>>
  BY DEF ShowSnapshot
<1>2. v \in View(Messages) /\ v = snapshot[1] /\ 1 \in 1 .. Len(snapshot)
  BY <1>1, EmptySeq, HeadTailProperties DEF TypeOK
<1> HIDE DEF v
<1>3. Aloft' = Aloft
  BY <1>1, AloftSame, OnWayMoves DEF Composed, OnceInv
<1>4. PICK f : /\ From(queue', queue, f)
               /\ \A i \in 1 .. Len(queue') : queue'[i] = Observed(queue[f[i]], v)
               /\ \A i \in 1 .. Len(queue) :
                     Complete(Observed(queue[i], v), v) \/ \E j \in 1 .. Len(queue') : f[j] = i
  <2>1. queue \in Seq(Entry(Messages)) /\ queue' = Reconciled(queue, v)
    BY <1>1 DEF TypeOK
  <2>2. \E f : /\ From(Reconciled(queue, v), queue, f)
               /\ \A i \in 1 .. Len(Reconciled(queue, v)) : Reconciled(queue, v)[i] = Observed(queue[f[i]], v)
               /\ \A i \in 1 .. Len(queue) :
                     \/ Complete(Observed(queue[i], v), v)
                     \/ \E j \in 1 .. Len(Reconciled(queue, v)) : f[j] = i
    BY <1>2, <2>1, ReconciledPlaces
  <2> QED
    BY <2>1, <2>2, Zenon
<1>5. Len(snapshot') = 0 /\ AllRunning' /\ NoneRunning'
  BY <1>1, EmptySeq DEF AllRunning, NoneRunning
<1>6. \A i \in 1 .. Len(queue) :
        queue[i] \in [msg : Messages, status : {"queued", "dispatching"}, seen : BOOLEAN, since : Nat]
  BY ElementOfSeq DEF TypeOK, Entry
<1>7. v.running \in BOOLEAN /\ v.replies \in Nat /\ v.replies <= replies /\ replies \in Nat
      /\ (AllRunning => v.running) /\ (v.running => ~NoneRunning)
  BY <1>2 DEF View, ViewsOld, TypeOK, AllRunning, NoneRunning
<1>8. \A i \in DispatchingIn(queue) :
         /\ Observed(queue[i], v).msg = queue[i].msg /\ Observed(queue[i], v).since = queue[i].since
         /\ Observed(queue[i], v).status = "dispatching"
         /\ Observed(queue[i], v).seen <=> queue[i].seen \/ v.running
  BY <1>6, <1>7 DEF Observed, DispatchingIn
<1>9. ASSUME NEW m \in Aloft PROVE Flight(m)'
  <2>1. Flight(m)
    BY DEF OneAtATime
  <2>2. v.running => active # 0
    BY <1>7, <2>1 DEF Flight
  <2>3. ASSUME NEW d \in DispatchingIn(queue')
        PROVE  /\ queue'[d].msg = m /\ queue'[d].since = replies
               /\ queue'[d].seen => active # 0
    <3>1. f[d] \in DispatchingIn(queue) /\ d \in 1 .. Len(queue')
      BY <1>4 DEF From, DispatchingIn
    <3>2. queue'[d] = Observed(queue[f[d]], v)
      BY <1>4, <3>1
    <3>3. /\ queue[f[d]].msg = m /\ queue[f[d]].since = replies
          /\ queue[f[d]].seen => active # 0
      BY <2>1, <3>1 DEF Flight
    <3> QED
      BY <1>8, <2>2, <3>1, <3>2, <3>3
  <2>4. ASSUME m \in deferred PROVE IsQueued(queue', m)
    <3>1. PICK d \in 1 .. Len(queue) : queue[d].msg = m /\ queue[d].status = "dispatching"
      BY <2>4, Held
    <3>2. d \in DispatchingIn(queue)
      BY <3>1 DEF DispatchingIn
    <3>3. queue[d].since = replies /\ (queue[d].seen => v.running)
      BY <1>7, <2>1, <3>2 DEF Flight
    <3>4. ~Complete(Observed(queue[d], v), v)
      <4>1. Observed(queue[d], v).since = replies /\ (Observed(queue[d], v).seen => v.running)
        BY <1>8, <3>2, <3>3
      <4>2. ~(v.replies > replies)
        BY <1>7
      <4> QED
        BY <4>1, <4>2 DEF Complete, HasRun
    <3>5. PICK j \in 1 .. Len(queue') : f[j] = d
      BY <1>4, <3>4
    <3>6. queue'[j].msg = m
      BY <3>1, <3>5, <1>4 DEF From
    <3> QED
      BY <3>6 DEF IsQueued
  <2>5. ASSUME m \notin deferred, queue' # <<>> PROVE v.running
    <3>1. queue = <<>> => queue' = <<>>
      <4> SUFFICES ASSUME queue = <<>> PROVE queue' = <<>>
        OBVIOUS
      <4>1. Len(queue) = 0 /\ queue' \in Seq(Entry(Messages))
        BY <1>1, <1>2, EmptySeq, ReconciledKeeps DEF TypeOK
      <4>2. 1 \notin 1 .. Len(queue')
        BY <1>4, <4>1 DEF From
      <4>3. Len(queue') = 0
        BY <4>1, <4>2, LenProperties
      <4> QED
        BY <4>1, <4>3, EmptySeq
    <3>2. view.running
      BY <2>1, <2>5, <3>1 DEF Flight
    <3> QED
      BY <1>7, <2>1, <3>2 DEF Flight
  <2> QED
    BY <1>1, <1>5, <2>2, <2>3, <2>4, <2>5 DEF Flight
<1>10. Ground'
  BY <1>5 DEF Ground
<1> QED
  BY <1>3, <1>9, <1>10 DEF OneAtATime

\* A message that is sent, directly or from the wire, stays aloft.
LEMMA SendFlight ==
  ASSUME TypeOK, OnceInv, OneAtATime, SendDirect
  PROVE  OneAtATime'
<1> USE DEF user, transport, network, server
<1>1. /\ Request(composer.msg, "direct")
      /\ UNCHANGED <<view, snapshot, queue, deferred, replies, active, turns>>
  BY DEF SendDirect
<1>2. /\ composer.msg \in Messages /\ Composed = {composer.msg} /\ Composed' = {}
      /\ OnWay' = OnWay \cup {Len(calls) + 1}
  BY DirectOnce
<1>3. /\ \A c \in 1 .. Len(calls) : calls'[c] = calls[c]
      /\ calls'[Len(calls) + 1] = [msg |-> composer.msg, kind |-> "direct"]
  BY <1>1, <1>2, RequestCalls
<1>4. OnWay \subseteq 1 .. Len(calls)
  BY OnWayType
<1>5. {calls'[c].msg : c \in OnWay'} = {calls[c].msg : c \in OnWay} \cup {composer.msg}
  <2>1. \A c \in OnWay : calls'[c].msg = calls[c].msg
    BY <1>3, <1>4
  <2>2. calls'[Len(calls) + 1].msg = composer.msg
    BY <1>3
  <2> QED
    BY <1>2, <2>1, <2>2
<1>6. Unfinished' = Unfinished
  BY <1>1 DEF Unfinished
<1>7. Aloft' = Aloft
  BY <1>1, <1>2, <1>5, <1>6 DEF Aloft
<1> QED
  BY <1>1, <1>7, SameFlight

\* A request that becomes a turn start stays aloft.
LEMMA HandleFlight ==
  ASSUME TypeOK, OnceInv, OneAtATime, NEW c \in inbox, Handle(c)
  PROVE  OneAtATime'
<1> USE DEF user, transport, network, server
<1>1. UNCHANGED <<view, snapshot, queue, deferred, replies, active, calls, composer>>
  BY DEF Handle
<1>2. OnWay' = OnWay \ {c} /\ c \in OnWay /\ Composed' = Composed
  BY <1>1, HandleOnce DEF Composed
<1>3. PICK n : n = Len(turns) + 1
  OBVIOUS
<1>4. /\ Len(turns') = n
      /\ \A i \in 1 .. Len(turns) : turns'[i] = turns[i] /\ i \in 1 .. n /\ i # n
      /\ turns'[n].msg = calls[c].msg /\ turns'[n].phase = "requested"
      /\ \A i \in 1 .. n : i \in 1 .. Len(turns) \/ i = n
      /\ n \in 1 .. n
  <2>1. turns'[n] = [msg |-> calls[c].msg, phase |-> "requested"]
    BY <1>3, HandlePlaces
  <2>2. /\ Len(turns) \in Nat /\ Len(turns') = Len(turns) + 1
        /\ \A i \in 1 .. Len(turns) : turns'[i] = turns[i]
    BY HandlePlaces
  <2>3. /\ \A i \in 1 .. Len(turns) : i \in 1 .. n /\ i # n
        /\ \A i \in 1 .. n : i \in 1 .. Len(turns) \/ i = n
        /\ n \in 1 .. n
    BY <1>3, <2>2
  <2> QED
    BY <1>3, <2>1, <2>2, <2>3
<1>5. Unfinished' = Unfinished \cup {n}
  <2>1. \A i : i \in Unfinished' <=> i \in 1 .. n /\ turns'[i].phase \in {"requested", "running"}
    BY <1>4 DEF Unfinished
  <2> QED
    BY <1>4, <2>1 DEF Unfinished
<1>6. {turns'[i].msg : i \in Unfinished'} = {turns[i].msg : i \in Unfinished} \cup {calls[c].msg}
  <2>1. \A i \in Unfinished : turns'[i].msg = turns[i].msg
    BY <1>4 DEF Unfinished
  <2> QED
    BY <1>4, <1>5, <2>1
<1>7. {calls[d].msg : d \in OnWay} = {calls[d].msg : d \in OnWay \ {c}} \cup {calls[c].msg}
  BY <1>2
<1>8. Aloft' = Aloft
  BY <1>1, <1>2, <1>6, <1>7 DEF Aloft
<1> QED
  BY <1>1, <1>8, SameFlight

\* The user draws a message, or moves one: both wait.
LEMMA DrawFlight ==
  ASSUME TypeOK, OnceInv, OneAtATime, CancelQueued \/ \E to \in 1 .. Len(queue) : MoveQueued(to)
  PROVE  OneAtATime'
<1> USE DEF user, transport, network, server
<1>1. /\ UNCHANGED <<view, snapshot, deferred, active, replies, composer, calls, turns, state, wire, outbound, inbox>>
      /\ queue # <<>>
  BY DEF CancelQueued, MoveQueued, CanCancel, CanMove
<1>2. Aloft' = Aloft
  BY <1>1, AloftSame, OnWayMoves DEF Composed, OnceInv
<1>3. \E f : /\ From(queue', queue, f)
             /\ \A i \in 1 .. Len(queue') : queue'[i] = queue[f[i]]
             /\ \A i \in 1 .. Len(queue) :
                   queue[i].status = "dispatching" => \E j \in 1 .. Len(queue') : f[j] = i
  <2>1. CASE CancelQueued
    <3>1. queue \in Seq(Entry(Messages)) /\ queue' = Cancel(queue)
          /\ queue[Len(queue)].status # "dispatching"
      BY <2>1 DEF CancelQueued, CanCancel, TypeOK
    <3>2. /\ Len(queue) \in Nat /\ Len(queue') = Len(queue) - 1
          /\ \E f : /\ From(queue', queue, f)
                   /\ \A i \in 1 .. Len(queue') : f[i] = i /\ queue'[i] = queue[f[i]]
      <4>1. /\ Len(queue) \in Nat /\ Len(Cancel(queue)) = Len(queue) - 1
            /\ \E f : /\ From(Cancel(queue), queue, f)
                     /\ \A i \in 1 .. Len(Cancel(queue)) : f[i] = i /\ Cancel(queue)[i] = queue[f[i]]
        BY <1>1, <3>1, CancelPlaces
      <4> QED
        BY <3>1, <4>1, Zenon
    <3>3. PICK f : /\ From(queue', queue, f)
                   /\ \A i \in 1 .. Len(queue') : f[i] = i /\ queue'[i] = queue[f[i]]
      BY <3>2
    <3>4. \A i \in 1 .. Len(queue) : i \in 1 .. Len(queue') \/ i = Len(queue)
      BY <3>2
    <3>5. \A i \in 1 .. Len(queue) :
             queue[i].status = "dispatching" => \E j \in 1 .. Len(queue') : f[j] = i
      BY <3>1, <3>3, <3>4
    <3> QED
      BY <3>3, <3>5
  <2>2. ASSUME NEW to \in 1 .. Len(queue), MoveQueued(to)
        PROVE  \E f : /\ From(queue', queue, f)
                      /\ \A i \in 1 .. Len(queue') : queue'[i] = queue[f[i]]
                      /\ \A i \in 1 .. Len(queue) : \E j \in 1 .. Len(queue') : f[j] = i
    <3>1. queue \in Seq(Entry(Messages)) /\ queue' = Move(queue, to) /\ CanMove(queue, to)
      BY <2>2 DEF MoveQueued, TypeOK
    <3>2. \E f : Shuffled(queue', queue, f)
      BY <3>1, MoveFrom
    <3> QED
      BY <3>2 DEF Shuffled
  <2> QED
    BY <2>1, <2>2
<1> QED
  BY <1>1, <1>2, <1>3, DrawnFlight

\* The steps of the server and the transport that leave what is aloft.
LEMMA QuietFlight ==
  ASSUME ~ShowsStarting, TypeOK, OnceInv, Sessions, OneAtATime,
         \/ (\E m \in backoff : BackoffOver(m)) \/ Open \/ Receive \/ StartSession \/ SessionReady
         \/ \E a \in answers : a.ok /\ Answered(a)
  PROVE  OneAtATime'
<1> USE DEF user, transport, network, server
<1>1. UNCHANGED <<view, snapshot, queue, deferred, replies, calls, turns>>
  BY DEF BackoffOver, Open, Receive, StartSession, SessionReady, Answered
<1>2. active # 0 => active' # 0
  <2>1. StartSession => active = 0
    BY DEF StartSession, Sessions
  <2> QED
    BY <2>1 DEF BackoffOver, Open, Receive, StartSession, SessionReady, Answered
<1>3. Composed' = Composed /\ OnWay' = OnWay
  <2>1. CASE \E a \in answers : a.ok /\ Answered(a)
    BY <2>1, AnsweredOnce
  <2>2. CASE (\E m \in backoff : BackoffOver(m)) \/ Open \/ Receive \/ StartSession \/ SessionReady
    <3>1. composer' = composer
      BY <2>2 DEF BackoffOver, Open, Receive, StartSession, SessionReady
    <3>2. Receive \/ Open \/ UNCHANGED <<state, wire, outbound, inbox>>
      BY <2>2 DEF BackoffOver, StartSession, SessionReady
    <3> QED
      BY <3>1, <3>2, OnWayMoves DEF Composed, OnceInv
  <2> QED
    BY <2>1, <2>2
<1>4. Aloft' = Aloft
  BY <1>1, <1>3, AloftSame
<1> QED
  BY <1>1, <1>2, <1>4, SameFlight

\* The turn of the message aloft starts.
LEMMA StartFlight ==
  ASSUME TypeOK, OnceInv, OneAtATime, NEW i \in 1 .. Len(turns), StartTurn(i)
  PROVE  OneAtATime'
<1> USE DEF user, transport, network, server
<1>1. /\ UNCHANGED <<view, snapshot, queue, deferred, replies, calls, composer, state, wire, outbound, inbox>>
      /\ turns[i].phase = "requested"
      /\ turns' = [turns EXCEPT ![i].phase = "running"]
      /\ active' = IF active = 0 THEN i ELSE active
  BY DEF StartTurn, NextTurn
<1>2. /\ Len(turns') = Len(turns)
      /\ \A j \in 1 .. Len(turns) :
            /\ turns'[j].msg = turns[j].msg
            /\ turns'[j].phase = IF j = i THEN "running" ELSE turns[j].phase
  BY <1>1, TurnPlaces
<1>3. Unfinished' = Unfinished /\ \A j \in Unfinished : turns'[j].msg = turns[j].msg
  BY <1>1, <1>2 DEF Unfinished
<1>4. Composed' = Composed /\ OnWay' = OnWay
  BY <1>1, OnWayMoves DEF Composed, OnceInv
<1>5. Aloft' = Aloft
  <2>1. {turns'[j].msg : j \in Unfinished'} = {turns[j].msg : j \in Unfinished}
    BY <1>3
  <2> QED
    BY <1>1, <1>4, <2>1 DEF Aloft
<1>6. active # 0 => active' # 0
  BY <1>1
<1> QED
  BY <1>1, <1>5, <1>6, SameFlight

\* The turn of the message aloft is over.
LEMMA LandFlight ==
  ASSUME TypeOK, OnceInv, OneAtATime, NEW i \in 1 .. Len(turns), EndTurn(i) \/ FailTurn(i)
  PROVE  OneAtATime'
<1> USE DEF user, transport, network, server
<1>1. /\ UNCHANGED <<view, snapshot, queue, calls, composer, state, wire, outbound, inbox>>
      /\ turns[i].phase \in {"requested", "running"}
      /\ turns' = [turns EXCEPT ![i].phase = "done"]
  BY DEF EndTurn, FailTurn, NextTurn
<1>2. /\ Len(turns') = Len(turns)
      /\ \A j \in 1 .. Len(turns) : turns'[j].phase = IF j = i THEN "done" ELSE turns[j].phase
  BY <1>1, TurnPlaces
<1>3. i \in Unfinished
  BY <1>1 DEF Unfinished
<1>4. Composed = {} /\ OnWay = {} /\ (\A j \in Unfinished : j = i) /\ Aloft = {turns[i].msg}
  BY <1>3, Alone
<1>5. Composed' = {} /\ OnWay' = {}
  BY <1>1, <1>4, OnWayMoves DEF Composed, OnceInv
<1>6. Unfinished' = {}
  BY <1>2, <1>4 DEF Unfinished
<1>7. Aloft' = {}
  BY <1>5, <1>6 DEF Aloft
<1> QED
  BY <1>1, <1>4, <1>7, Landed

\* The process exits, with the turn it ran if there is one.
LEMMA ExitFlight ==
  ASSUME TypeOK, OnceInv, Sessions, OneAtATime, ProviderExits
  PROVE  OneAtATime'
<1> USE DEF user, transport, network, server
<1>1. /\ UNCHANGED <<view, snapshot, queue, deferred, replies, calls, composer, state, wire, outbound, inbox>>
      /\ LoseTurns({"running"}) /\ active' = 0
  BY DEF ProviderExits
<1>2. /\ Len(turns') = Len(turns)
      /\ \A j \in 1 .. Len(turns) :
            /\ turns'[j].msg = turns[j].msg
            /\ turns'[j].phase = IF turns[j].phase \in {"running"} THEN "lost" ELSE turns[j].phase
  BY <1>1, LostPlaces
<1>3. Composed' = Composed /\ OnWay' = OnWay
  BY <1>1, OnWayMoves DEF Composed, OnceInv
<1>4. CASE \E i \in 1 .. Len(turns) : turns[i].phase = "running"
  <2>1. PICK i \in 1 .. Len(turns) : turns[i].phase = "running"
    BY <1>4
  <2>2. i \in Unfinished
    BY <2>1 DEF Unfinished
  <2>3. Composed = {} /\ OnWay = {} /\ (\A j \in Unfinished : j = i) /\ Aloft = {turns[i].msg}
    BY <2>2, Alone
  <2>4. Unfinished' = {}
    BY <1>2, <2>1, <2>3 DEF Unfinished
  <2>5. Aloft' = {}
    BY <1>3, <2>3, <2>4 DEF Aloft
  <2> QED
    BY <1>1, <2>3, <2>5, Landed
<1>5. CASE \A i \in 1 .. Len(turns) : turns[i].phase # "running"
  <2>1. Unfinished' = Unfinished /\ \A j \in Unfinished : turns'[j].msg = turns[j].msg
    BY <1>2, <1>5 DEF Unfinished
  <2>2. {turns'[j].msg : j \in Unfinished'} = {turns[j].msg : j \in Unfinished}
    BY <2>1
  <2>3. Aloft' = Aloft
    BY <1>1, <1>3, <2>2 DEF Aloft
  <2>4. active = 0
    BY <1>5 DEF Sessions, TypeOK
  <2> QED
    BY <1>1, <2>3, <2>4, SameFlight
<1> QED
  BY <1>4, <1>5

\* Each step keeps the barrier.
LEMMA BarrierStep ==
  ASSUME Patient, ~ShowsStarting, TypeOK, OnceInv, BarrierInv, [Next]_vars
  PROVE  BarrierInv'
<1> USE DEF BarrierInv
<1>1. CASE UNCHANGED vars
  <2>1. Sessions' /\ ViewsOld'
    BY <1>1 DEF vars, user, transport, network, server, Sessions, ViewsOld
  <2>2. /\ UNCHANGED <<view, snapshot, queue, deferred, replies, active, calls, turns, composer>>
        /\ UNCHANGED <<state, wire, outbound, inbox>>
    BY <1>1 DEF vars, user, transport, network, server
  <2>3. Aloft' = Aloft
    BY <2>2, AloftSame, OnWayMoves DEF Composed, OnceInv
  <2> QED
    BY <2>1, <2>2, <2>3, SameFlight
<1>2. CASE Next
  <2>1. CalmNext
    BY <1>2, CalmSteps DEF OnceInv
  <2>2. Sessions' /\ ViewsOld'
    BY <1>2, <2>1, SessionsStay, ViewsStayOld
  <2> SUFFICES OneAtATime'
    BY <2>2
  <2>3. CASE WriteQueued \/ WriteDirect
    BY <2>3, WriteQueuedFlight, WriteDirectFlight
  <2>4. CASE CancelQueued \/ \E to \in 1 .. Len(queue) : MoveQueued(to)
    BY <2>4, DrawFlight
  <2>5. CASE SendDirect \/ Pump
    BY <2>5, SendFlight, PumpFlight
  <2>6. CASE ReadSnapshot \/ ShowSnapshot
    BY <2>6, ReadFlight, ShowFlight
  <2>7. CASE \/ (\E m \in backoff : BackoffOver(m)) \/ Open \/ Receive \/ StartSession \/ SessionReady
             \/ \E a \in answers : a.ok /\ Answered(a)
    BY <2>7, QuietFlight
  <2>8. CASE \E c \in inbox : Handle(c)
    BY <2>8, HandleFlight
  <2>9. ASSUME NEW i \in 1 .. Len(turns), StartTurn(i) \/ EndTurn(i) \/ FailTurn(i)
        PROVE  OneAtATime'
    BY <2>9, StartFlight, LandFlight
  <2>10. CASE ProviderExits
    BY <2>10, ExitFlight
  <2> QED
    BY <2>1, <2>3, <2>4, <2>5, <2>6, <2>7, <2>8, <2>9, <2>10 DEF CalmNext, Server
<1> QED
  BY <1>1, <1>2

\* At first nothing is aloft.
LEMMA BarrierInit ==
  ASSUME Init
  PROVE  BarrierInv
<1>1. /\ Len(queue) = 0 /\ Len(turns) = 0 /\ Len(snapshot) = 0 /\ Len(outbound) = 0 /\ queue = <<>>
      /\ session = "stopped" /\ active = 0 /\ inbox = {} /\ composer.step = "idle" /\ state = "connecting"
      /\ replies = 0 /\ view.replies = 0
  BY EmptySeq DEF Init, Nobody, NoView
<1>2. Composed = {} /\ Unfinished = {} /\ OnWay = {}
  BY <1>1 DEF Composed, Unfinished, OnWay, Line, Elements
<1>3. Aloft = {}
  BY <1>2 DEF Aloft
<1>4. OneAtATime
  BY <1>1, <1>3 DEF OneAtATime, Ground
<1> QED
  BY <1>1, <1>4 DEF BarrierInv, Sessions, ViewsOld

\* The barrier stands, for a provider that does not report its session's start and
\* a user who sends directly only when nothing else is under way, while nothing
\* fails: turns may be refused, the provider may exit with them, and views may be
\* old, and still no message is sent before the turn of the one before it is over.
THEOREM BarrierStands ==
  ASSUME NothingFails, Patient, ~ShowsStarting
  PROVE  Spec => []BarrierHolds
<1>1. TypeOK /\ OnceInv /\ BarrierInv => BarrierHolds
  <2> SUFFICES ASSUME TypeOK, OnceInv, BarrierInv, NEW i \in Unfinished
               PROVE  /\ \A j \in Unfinished : i = j
                      /\ turns[i].msg \in deferred \ cancelled => IsQueued(queue, turns[i].msg)
    BY DEF BarrierHolds
  <2>1. OneAtATime
    BY DEF BarrierInv
  <2>2. Aloft = {turns[i].msg} /\ \A j \in Unfinished : i = j
    BY <2>1, Alone
  <2>3. turns[i].msg \in deferred => IsQueued(queue, turns[i].msg)
    BY <2>1, <2>2, Held DEF IsQueued
  <2> QED
    BY <2>2, <2>3
<1>2. TypeOK /\ OnceInv /\ BarrierInv /\ [Next]_vars => BarrierInv'
  BY BarrierStep
<1> QED
  BY <1>1, <1>2, BarrierInit, TypeOKHolds, OnceHolds, PTL DEF Spec
=============================================================================
