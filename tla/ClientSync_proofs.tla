-------------------------- MODULE ClientSync_proofs --------------------------
(***************************************************************************)
(* Theorems about ClientSync, for any number of events, losses and         *)
(* suspensions: no variable leaves its type, a client to which everything  *)
(* has been delivered shows what the server has, and no client ever goes   *)
(* back to an older version.                                               *)
(***************************************************************************)
EXTENDS ClientSync, SequenceTheorems, TLAPS

---------------------------------------------------------------------------
(* The elements of a sequence.                                             *)

Elements(s) == {s[i] : i \in 1 .. Len(s)}

Distinct(s) == \A i, j \in 1 .. Len(s) : s[i] = s[j] => i = j

LEMMA ElementsEmpty == Elements(<<>>) = {} /\ Distinct(<<>>)
  BY DEF Elements, Distinct

LEMMA ElementsAppend ==
  ASSUME NEW S, NEW s \in Seq(S), NEW x \in S
  PROVE  /\ Append(s, x) \in Seq(S)
         /\ Elements(Append(s, x)) = Elements(s) \cup {x}
         /\ Distinct(s) /\ x \notin Elements(s) => Distinct(Append(s, x))
<1>1. /\ Len(s) \in Nat
      /\ Append(s, x) \in Seq(S)
      /\ Len(Append(s, x)) = Len(s) + 1
      /\ \A i \in 1 .. Len(s) : Append(s, x)[i] = s[i]
      /\ Append(s, x)[Len(s) + 1] = x
  OBVIOUS
<1> DEFINE t == Append(s, x)
<1> HIDE DEF t
<1>2. Elements(t) = Elements(s) \cup {x}
  BY <1>1 DEF Elements, t
<1>3. Distinct(s) /\ x \notin Elements(s) => Distinct(t)
  BY <1>1 DEF Elements, Distinct, t
<1> QED
  BY <1>1, <1>2, <1>3 DEF t

LEMMA ElementsTail ==
  ASSUME NEW S, NEW s \in Seq(S), s # <<>>
  PROVE  /\ Head(s) \in S /\ Tail(s) \in Seq(S)
         /\ Head(s) \in Elements(s)
         /\ Elements(s) = {Head(s)} \cup Elements(Tail(s))
         /\ Distinct(s) => Distinct(Tail(s)) /\ Head(s) \notin Elements(Tail(s))
<1>1. /\ Head(s) \in S
      /\ Tail(s) \in Seq(S)
      /\ Len(s) \in Nat \ {0}
      /\ Len(Tail(s)) = Len(s) - 1
      /\ \A i \in 1 .. Len(Tail(s)) : Tail(s)[i] = s[i + 1]
      /\ Head(s) = s[1]
  BY HeadTailProperties, EmptySeq
<1> DEFINE t == Tail(s)
<1> HIDE DEF t
<1>2. \A i \in 2 .. Len(s) : i - 1 \in 1 .. Len(t) /\ t[i - 1] = s[i]
  BY <1>1 DEF t
<1>3. Elements(s) = {Head(s)} \cup Elements(t)
  <2>1. Elements(s) \subseteq {Head(s)} \cup Elements(t)
    BY <1>1, <1>2 DEF Elements, t
  <2>2. {Head(s)} \cup Elements(t) \subseteq Elements(s)
    BY <1>1 DEF Elements, t
  <2> QED
    BY <2>1, <2>2
<1>4. Distinct(s) => Distinct(t) /\ Head(s) \notin Elements(t)
  BY <1>1 DEF Elements, Distinct, t
<1> QED
  BY <1>1, <1>3, <1>4 DEF t

LEMMA ElementsPrimed ==
  /\ Elements(bus)' = Elements(bus') /\ Elements(toClient)' = Elements(toClient')
  /\ Elements(toServer)' = Elements(toServer') /\ Distinct(toServer)' = Distinct(toServer')
  BY DEF Elements, Distinct

---------------------------------------------------------------------------
(* The inductive invariant.                                                *)

Answers == handled \cup {m \in Elements(toClient) : m.kind = "answer"}

Told(kind) == \E m \in Elements(toClient) : m.kind = kind

\* What a lost socket, and a client without a request, leave behind.
WiresOK ==
    /\ socket # "open" => /\ toServer = <<>> /\ toClient = <<>>
                          /\ handled = {} /\ admitted = "no"
    /\ outbound = IF socket # "open" /\ pending # 0 THEN <<pending>> ELSE <<>>
    /\ (again \/ ~subscribed) => pending # 0

\* A request is on its way, being handled, answered or given up.
RequestsOK ==
    /\ Distinct(toServer)
    /\ \A id \in Elements(toServer) : id \in 1 .. lastId
    /\ \A a \in Answers : a.id \in 1 .. lastId /\ a.id \notin Elements(toServer)
    /\ \A a, b \in Answers : a.id = b.id => a.version = b.version

\* What an answer shows is recorded, and newer than what is shown if awaited.
VersionsOK ==
    /\ \A a \in Answers : a.version \in 0 .. version
    /\ \A a \in Answers : a.id = pending => a.version >= view

\* The client will read a snapshot at a later time.
Promise ==
    \/ timer \/ again
    \/ pending \in Elements(toServer)
    \/ Told("welcome")
    \/ subscribed /\ Told("event")
    \/ ~subscribed /\ greeted

\* Whatever the server has that the client does not show is on its way.
FreshOK ==
    /\ socket = "open" /\ admitted = "no" =>
          \E job \in Elements(bus) : job.kind = "welcome" /\ job.connection = connection
    /\ admitted # "no" => greeted \/ Told("welcome")
    /\ admitted = "welcomed" => Promise
    /\ admitted = "in" /\ view # version =>
          \/ Promise
          \/ \E a \in Answers : a.id = pending /\ a.version = version
          \/ \E job \in Elements(bus) : job.kind = "event"

Inv == TypeOK /\ WiresOK /\ RequestsOK /\ VersionsOK /\ FreshOK

LEMMA InitInv == Init => Inv
<1> SUFFICES ASSUME Init PROVE Inv
  OBVIOUS
<1> USE SyncAssumption
<1>1. Elements(toServer) = {} /\ Distinct(toServer) /\ Elements(toClient) = {}
  BY ElementsEmpty DEF Init
<1>2. TypeOK
  <2>1. budget \in [{"commits", "losses", "suspends"} -> Nat]
    BY SyncAssumption DEF Init
  <2>2. /\ bus = <<>> /\ toClient = <<>> /\ toServer = <<>> /\ outbound = <<1>>
        /\ version = 0 /\ connection = 0 /\ lastId = 1 /\ pending = 1 /\ view = 0
        /\ handled = {} /\ admitted = "no" /\ socket = "connecting"
        /\ again = FALSE /\ timer = FALSE /\ subscribed = FALSE /\ greeted = FALSE
    BY DEF Init
  <2>3. <<>> \in Seq(Job) /\ <<>> \in Seq(ToClient) /\ <<>> \in Seq(Nat) /\ <<1>> \in Seq(Nat)
    OBVIOUS
  <2>4. pending \in 0 .. lastId /\ view \in 0 .. version /\ version \in Nat /\ connection \in Nat
        /\ lastId \in Nat
    BY <2>2
  <2>6. {again, timer, subscribed, greeted} \subseteq BOOLEAN
    BY <2>2
  <2>5. /\ bus \in Seq(Job) /\ toClient \in Seq(ToClient)
        /\ toServer \in Seq(Nat) /\ outbound \in Seq(Nat) /\ handled \subseteq Snapshot
        /\ admitted \in {"no", "welcomed", "in"}
        /\ socket \in {"connecting", "open", "closed", "suspended"}
    BY <2>2, <2>3
  <2> QED
    BY <2>1, <2>4, <2>5, <2>6 DEF TypeOK
<1> QED
  BY <1>1, <1>2 DEF Init, Inv, WiresOK, RequestsOK, VersionsOK, FreshOK, Answers

\* What the elements of the sequences are.
LEMMA ElementTypes ==
  ASSUME TypeOK
  PROVE  /\ \A m \in Elements(toClient) : m \in ToClient
         /\ \A job \in Elements(bus) : job \in Job
         /\ \A id \in Elements(toServer) : id \in Nat
  BY ElementOfSeq DEF TypeOK, Elements

\* What is kept when no answer is added, and only a new request.
LEMMA RequestsKept ==
  ASSUME TypeOK, RequestsOK, Answers' \subseteq Answers, Distinct(toServer)',
         \/ lastId' = lastId /\ Elements(toServer)' \subseteq Elements(toServer)
         \/ lastId' = lastId + 1 /\ Elements(toServer)' \subseteq Elements(toServer) \cup {lastId'}
  PROVE  RequestsOK'
<1>1. lastId \in Nat
  BY DEF TypeOK
<1> QED
  BY <1>1 DEF RequestsOK

LEMMA VersionsKept ==
  ASSUME TypeOK, TypeOK', RequestsOK, VersionsOK, Answers' \subseteq Answers,
         version' >= version,
         \/ view' = view /\ pending' = pending
         \/ pending' \in {0, lastId + 1}
  PROVE  VersionsOK'
<1>1. lastId \in Nat /\ version \in Nat /\ version' \in Nat /\ view \in Nat
  BY DEF TypeOK
<1>2. \A a \in Answers : a.id \in 1 .. lastId /\ a.version \in 0 .. version
  BY DEF RequestsOK, VersionsOK
<1> QED
  BY <1>1, <1>2 DEF VersionsOK

\* A request adds its number to what is asked, or to what is queued.
LEMMA RequestAdds ==
  ASSUME TypeOK, NEW up \in BOOLEAN, NEW sent \in Seq(Nat), NEW queued \in Seq(Nat),
         Request(up, sent, queued)
  PROVE  /\ lastId' = lastId + 1 /\ pending' = lastId + 1 /\ lastId' \in Nat
         /\ toServer' \in Seq(Nat) /\ outbound' \in Seq(Nat)
         /\ up => /\ Elements(toServer)' = Elements(sent) \cup {lastId + 1}
                  /\ Distinct(sent) /\ lastId + 1 \notin Elements(sent) => Distinct(toServer)'
                  /\ outbound' = queued
         /\ ~up => toServer' = sent /\ outbound' = Append(queued, lastId + 1)
<1>1. lastId \in Nat /\ lastId + 1 \in Nat
  BY DEF TypeOK
<1> QED
  BY <1>1, ElementsPrimed, ElementsAppend DEF Request

---------------------------------------------------------------------------
(* The server's steps.                                                     *)

LEMMA CommitInv == ASSUME Inv, Commit PROVE Inv'
<1> USE DEF Inv
<1>1. TypeOK'
  BY DEF Commit, Spend, TypeOK, Job, wires, transport, client
<1>2. /\ Answers' = Answers /\ Promise' = Promise
      /\ Elements(toServer)' = Elements(toServer) /\ Distinct(toServer)' = Distinct(toServer)
      /\ Told("welcome")' = Told("welcome")
  BY DEF Commit, wires, transport, client, Answers, Promise, Told, Elements, Distinct
<1>3. Elements(bus)' = Elements(bus) \cup {[kind |-> "event"]}
  <2>1. [kind |-> "event"] \in Job /\ bus \in Seq(Job)
    BY DEF Job, TypeOK
  <2> QED
    BY <2>1, ElementsPrimed, ElementsAppend DEF Commit
<1>4. WiresOK'
  BY DEF Commit, wires, transport, client, WiresOK
<1>5. RequestsOK'
  BY <1>2, RequestsKept DEF Commit, transport, RequestsOK
<1>6. VersionsOK'
  BY <1>1, <1>2, VersionsKept DEF Commit, transport, client, TypeOK
<1>7. FreshOK'
  BY <1>2, <1>3 DEF Commit, transport, client, FreshOK
<1> QED
  BY <1>1, <1>4, <1>5, <1>6, <1>7

LEMMA PushInv == ASSUME Inv, Push PROVE Inv'
<1> USE DEF Inv
<1>0. /\ bus \in Seq(Job) /\ bus # <<>> /\ Head(bus) \in Job
      /\ bus' = Tail(bus) /\ bus' \in Seq(Job)
      /\ Elements(bus) = {Head(bus)} \cup Elements(bus)'
  <2>1. bus \in Seq(Job) /\ bus # <<>> /\ bus' = Tail(bus)
    BY DEF Push, TypeOK
  <2> QED
    BY <2>1, ElementsPrimed, ElementsTail
<1>1. /\ Elements(toServer)' = Elements(toServer) /\ Distinct(toServer)' = Distinct(toServer)
  BY DEF Push, transport, Elements, Distinct
<1>2. UNCHANGED <<version, handled, toServer, transport, client, budget>>
  BY DEF Push
<1>3. CASE Head(bus).kind = "event" /\ admitted = "in"
  <2>1. toClient' = Append(toClient, [kind |-> "event"]) /\ admitted' = admitted
    BY <1>0, <1>3 DEF Push, ReachesClient
  <2>2. toClient' \in Seq(ToClient) /\ Elements(toClient)' = Elements(toClient) \cup {[kind |-> "event"]}
    <3>1. [kind |-> "event"] \in ToClient /\ toClient \in Seq(ToClient)
      BY DEF ToClient, TypeOK
    <3> QED
      BY <3>1, <2>1, ElementsPrimed, ElementsAppend
  <2>3. TypeOK'
    BY <1>0, <1>2, <2>1, <2>2 DEF TypeOK, transport, client
  <2>4. Answers' = Answers /\ Told("event")' /\ Told("welcome")' = Told("welcome")
    <3> DEFINE m == [kind |-> "event"]
    <3>1. m.kind = "event" /\ Elements(toClient)' = Elements(toClient) \cup {m}
      BY <2>2
    <3> HIDE DEF m
    <3> QED
      BY <1>2, <3>1 DEF Answers, Told
  <2>5. WiresOK'
    BY <1>2, <1>3, <2>1 DEF WiresOK, transport, client
  <2>6. RequestsOK'
    BY <1>1, <1>2, <2>4, RequestsKept DEF RequestsOK, transport
  <2>7. VersionsOK'
    BY <1>2, <2>3, <2>4, VersionsKept DEF transport, client, TypeOK
  <2>8. FreshOK'
    BY <1>1, <1>2, <1>3, <2>1, <2>4 DEF FreshOK, Promise, transport, client
  <2> QED
    BY <2>3, <2>5, <2>6, <2>7, <2>8
<1>4. CASE /\ Head(bus).kind = "welcome" /\ socket = "open"
           /\ Head(bus).connection = connection
  <2>1. toClient' = Append(toClient, [kind |-> "welcome"]) /\ admitted' = "welcomed"
    BY <1>0, <1>4 DEF Push
  <2>2. toClient' \in Seq(ToClient) /\ Elements(toClient)' = Elements(toClient) \cup {[kind |-> "welcome"]}
    <3>1. [kind |-> "welcome"] \in ToClient /\ toClient \in Seq(ToClient)
      BY DEF ToClient, TypeOK
    <3> QED
      BY <3>1, <2>1, ElementsPrimed, ElementsAppend
  <2>3. TypeOK'
    BY <1>0, <1>2, <2>1, <2>2 DEF TypeOK, transport, client
  <2>4. Answers' = Answers /\ Told("welcome")'
    <3> DEFINE m == [kind |-> "welcome"]
    <3>1. m.kind = "welcome" /\ Elements(toClient)' = Elements(toClient) \cup {m}
      BY <2>2
    <3> HIDE DEF m
    <3> QED
      BY <1>2, <3>1 DEF Answers, Told
  <2>5. WiresOK'
    BY <1>2, <1>4, <2>1 DEF WiresOK, transport, client
  <2>6. RequestsOK'
    BY <1>1, <1>2, <2>4, RequestsKept DEF RequestsOK, transport
  <2>7. VersionsOK'
    BY <1>2, <2>3, <2>4, VersionsKept DEF transport, client, TypeOK
  <2>8. FreshOK'
    BY <2>1, <2>4 DEF FreshOK, Promise
  <2> QED
    BY <2>3, <2>5, <2>6, <2>7, <2>8
<1>5. CASE \/ Head(bus).kind = "event" /\ admitted # "in"
           \/ /\ Head(bus).kind = "welcome"
              /\ ~(socket = "open" /\ Head(bus).connection = connection)
  <2>1. UNCHANGED <<toClient, admitted>>
    BY <1>0, <1>5 DEF Push, ReachesClient
  <2>2. TypeOK'
    BY <1>0, <1>2, <2>1 DEF TypeOK, transport, client
  <2>3. Answers' = Answers /\ Promise' = Promise /\ Told("welcome")' = Told("welcome")
    BY <1>1, <1>2, <2>1 DEF Answers, Promise, Told, Elements, transport, client
  <2>4. WiresOK'
    BY <1>2, <2>1 DEF WiresOK, transport, client
  <2>5. RequestsOK'
    BY <1>1, <1>2, <2>3, RequestsKept DEF RequestsOK, transport
  <2>6. VersionsOK'
    BY <1>2, <2>2, <2>3, VersionsKept DEF transport, client, TypeOK
  <2>7. FreshOK'
    BY <1>0, <1>2, <1>5, <2>1, <2>3 DEF FreshOK, transport, client
  <2> QED
    BY <2>2, <2>4, <2>5, <2>6, <2>7
<1> QED
  BY <1>0, <1>3, <1>4, <1>5 DEF Job

LEMMA AdmitInv == ASSUME Inv, Admit PROVE Inv'
<1> USE DEF Inv
<1>1. TypeOK' /\ WiresOK'
  BY DEF Admit, TypeOK, WiresOK, wires, transport, client
<1>2. /\ Answers' = Answers /\ Promise' = Promise /\ Told("welcome")' = Told("welcome")
      /\ Elements(toServer)' = Elements(toServer) /\ Distinct(toServer)' = Distinct(toServer)
  BY DEF Admit, wires, transport, client, Answers, Promise, Told, Elements, Distinct
<1>3. RequestsOK'
  BY <1>2, RequestsKept DEF Admit, transport, RequestsOK
<1>4. VersionsOK'
  BY <1>1, <1>2, VersionsKept DEF Admit, transport, client, TypeOK
<1>5. FreshOK'
  BY <1>2 DEF Admit, FreshOK, transport, client
<1> QED
  BY <1>1, <1>3, <1>4, <1>5

LEMMA ReadInv == ASSUME Inv, Read PROVE Inv'
<1> USE DEF Inv
<1> DEFINE new == [kind |-> "answer", id |-> Head(toServer), version |-> version]
<1>1. /\ toServer \in Seq(Nat) /\ toServer # <<>>
      /\ toServer' = Tail(toServer) /\ handled' = handled \cup {new}
      /\ UNCHANGED <<version, bus, admitted, toClient, transport, client, budget>>
      /\ admitted # "welcomed"
  BY DEF Read, TypeOK
<1>2. /\ Head(toServer) \in Nat /\ toServer' \in Seq(Nat)
      /\ Head(toServer) \in Elements(toServer)
      /\ Elements(toServer) = {Head(toServer)} \cup Elements(toServer)'
      /\ Distinct(toServer)' /\ Head(toServer) \notin Elements(toServer)'
  BY <1>1, ElementsPrimed, ElementsTail DEF RequestsOK
<1>3. new \in Snapshot /\ new.id = Head(toServer) /\ new.version = version
  BY <1>2 DEF Snapshot, TypeOK
<1>4. Answers' = Answers \cup {new}
  BY <1>1 DEF Answers, Elements
<1> HIDE DEF new
<1>5. TypeOK'
  BY <1>1, <1>2, <1>3 DEF TypeOK, transport, client
<1>6. WiresOK'
  BY <1>1 DEF WiresOK, transport, client
<1>7. RequestsOK'
  BY <1>1, <1>2, <1>3, <1>4 DEF RequestsOK, transport
<1>8. VersionsOK'
  BY <1>1, <1>3, <1>4 DEF VersionsOK, TypeOK, transport, client
<1>9. FreshOK'
  <2>1. Told("welcome")' = Told("welcome") /\ Told("event")' = Told("event")
        /\ Elements(bus)' = Elements(bus)
    BY <1>1 DEF Told, Elements
  <2>2. Promise => Promise' \/ pending = Head(toServer)
    BY <1>1, <1>2, <2>1 DEF Promise, transport, client
  <2> QED
    BY <1>1, <1>3, <1>4, <2>1, <2>2 DEF FreshOK, transport, client
<1> QED
  BY <1>5, <1>6, <1>7, <1>8, <1>9

LEMMA AnswerInv == ASSUME Inv, NEW a \in handled, Answer(a) PROVE Inv'
<1> USE DEF Inv
<1>1. /\ handled' = handled \ {a} /\ toClient' = Append(toClient, a)
      /\ UNCHANGED <<version, bus, admitted, toServer, transport, client, budget>>
  BY DEF Answer
<1>2. a \in Snapshot /\ a \in ToClient /\ a.kind = "answer"
  BY DEF TypeOK, Snapshot, ToClient
<1>3. toClient' \in Seq(ToClient) /\ Elements(toClient)' = Elements(toClient) \cup {a}
  BY <1>1, <1>2, ElementsPrimed, ElementsAppend DEF TypeOK
<1>4. Answers' = Answers /\ Told("welcome")' = Told("welcome") /\ Told("event")' = Told("event")
  BY <1>1, <1>2, <1>3 DEF Answers, Told
<1>5. /\ Elements(toServer)' = Elements(toServer) /\ Distinct(toServer)' = Distinct(toServer)
      /\ Elements(bus)' = Elements(bus)
  BY <1>1 DEF Elements, Distinct
<1>6. TypeOK'
  BY <1>1, <1>3 DEF TypeOK, transport, client
<1>7. WiresOK'
  BY <1>1 DEF WiresOK, transport, client
<1>8. RequestsOK'
  BY <1>1, <1>4, <1>5, RequestsKept DEF RequestsOK, transport
<1>9. VersionsOK'
  BY <1>1, <1>4, <1>6, VersionsKept DEF transport, client, TypeOK
<1>10. FreshOK'
  BY <1>1, <1>4, <1>5 DEF FreshOK, Promise, transport, client
<1> QED
  BY <1>6, <1>7, <1>8, <1>9, <1>10

---------------------------------------------------------------------------
(* The client's steps.                                                     *)

\* What a refresh leaves, run or remembered.
LEMMA RefreshDoes ==
  ASSUME Inv, NEW up \in BOOLEAN, NEW sent \in Seq(Nat), NEW queued \in Seq(Nat),
         queued = (IF up \/ pending = 0 THEN <<>> ELSE <<pending>>),
         Distinct(sent), \A id \in Elements(sent) : id \in 1 .. lastId,
         Refresh(up, sent, queued)
  PROVE  /\ lastId' \in Nat /\ pending' \in 1 .. lastId' /\ again' \in BOOLEAN
         /\ toServer' \in Seq(Nat) /\ outbound' \in Seq(Nat)
         /\ outbound' = IF up THEN <<>> ELSE <<pending'>>
         /\ Distinct(toServer)'
         /\ \/ lastId' = lastId /\ Elements(toServer)' = Elements(sent)
            \/ lastId' = lastId + 1 /\ Elements(toServer)' \subseteq Elements(sent) \cup {lastId'}
         /\ \/ pending' = pending /\ again'
            \/ pending' = lastId + 1 /\ (up => pending' \in Elements(toServer)')
         /\ ~up => toServer' = sent
<1> USE DEF Inv
<1>1. lastId \in Nat /\ pending \in 0 .. lastId /\ again \in BOOLEAN
  BY DEF TypeOK
<1>2. CASE pending # 0
  <2>1. again' = TRUE /\ toServer' = sent /\ outbound' = queued /\ UNCHANGED <<lastId, pending>>
    BY <1>2 DEF Refresh, NoRequest
  <2> QED
    BY <1>1, <1>2, <2>1, ElementsPrimed
<1>3. CASE pending = 0
  <2>1. Request(up, sent, queued) /\ again' = again
    BY <1>3 DEF Refresh
  <2>2. lastId + 1 \notin Elements(sent) /\ queued = <<>>
    BY <1>1, <1>3
  <2>3. /\ lastId' = lastId + 1 /\ pending' = lastId + 1 /\ lastId' \in Nat
        /\ toServer' \in Seq(Nat) /\ outbound' \in Seq(Nat)
        /\ up => /\ Elements(toServer)' = Elements(sent) \cup {lastId + 1}
                 /\ Distinct(toServer)' /\ outbound' = queued
        /\ ~up => toServer' = sent /\ outbound' = Append(queued, lastId + 1)
    BY <2>1, <2>2, RequestAdds
  <2>4. ~up => outbound' = <<pending'>>
    BY <2>2, <2>3
  <2> QED
    BY <1>1, <2>1, <2>2, <2>3, <2>4, ElementsPrimed
<1> QED
  BY <1>2, <1>3

\* What the end of a refresh leaves.
LEMMA RefreshOverDoes ==
  ASSUME Inv, NEW up \in BOOLEAN, NEW sent \in Seq(Nat), NEW queued \in Seq(Nat),
         queued = <<>>,
         Distinct(sent), \A id \in Elements(sent) : id \in 1 .. lastId,
         RefreshOver(up, sent, queued)
  PROVE  /\ lastId' \in Nat /\ pending' \in 0 .. lastId' /\ again' = FALSE
         /\ subscribed' = (subscribed \/ ~again)
         /\ toServer' \in Seq(Nat) /\ outbound' \in Seq(Nat)
         /\ outbound' = IF ~up /\ pending' # 0 THEN <<pending'>> ELSE <<>>
         /\ Distinct(toServer)'
         /\ \/ lastId' = lastId /\ Elements(toServer)' = Elements(sent)
            \/ lastId' = lastId + 1 /\ Elements(toServer)' \subseteq Elements(sent) \cup {lastId'}
         /\ pending' \in {0, lastId + 1}
         /\ up /\ pending' # 0 => pending' \in Elements(toServer)'
         /\ pending' = 0 => ~again /\ subscribed' /\ (subscribed \/ ~greeted)
         /\ ~up => toServer' = sent
<1> USE DEF Inv
<1>1. /\ lastId \in Nat /\ pending \in 0 .. lastId
      /\ again \in BOOLEAN /\ subscribed \in BOOLEAN /\ greeted \in BOOLEAN
  BY DEF TypeOK
<1>2. again' = FALSE /\ subscribed' = (subscribed \/ ~again)
  BY DEF RefreshOver
<1>3. CASE again \/ (~subscribed /\ greeted)
  <2>1. Request(up, sent, queued)
    BY <1>3 DEF RefreshOver
  <2>2. lastId + 1 \notin Elements(sent)
    BY <1>1
  <2>3. /\ lastId' = lastId + 1 /\ pending' = lastId + 1 /\ lastId' \in Nat
        /\ toServer' \in Seq(Nat) /\ outbound' \in Seq(Nat)
        /\ up => /\ Elements(toServer)' = Elements(sent) \cup {lastId + 1}
                 /\ Distinct(toServer)' /\ outbound' = queued
        /\ ~up => toServer' = sent /\ outbound' = Append(queued, lastId + 1)
    BY <2>1, <2>2, RequestAdds
  <2>4. ~up => outbound' = <<pending'>>
    BY <2>3
  <2> QED
    BY <1>1, <1>2, <2>2, <2>3, <2>4, ElementsPrimed
<1>4. CASE ~(again \/ (~subscribed /\ greeted))
  <2>1. toServer' = sent /\ outbound' = queued /\ lastId' = lastId /\ pending' = 0
    BY <1>4 DEF RefreshOver, NoRequest
  <2>2. Elements(toServer)' = Elements(sent) /\ Distinct(toServer)'
    BY <2>1, ElementsPrimed
  <2>3. pending' \in 0 .. lastId' /\ lastId' \in Nat
    BY <1>1, <2>1
  <2>4. toServer' \in Seq(Nat) /\ outbound' \in Seq(Nat) /\ outbound' = <<>>
    BY <2>1
  <2>5. ~again /\ subscribed' /\ (subscribed \/ ~greeted)
    BY <1>1, <1>2, <1>4
  <2> QED
    BY <1>2, <2>1, <2>2, <2>3, <2>4, <2>5
<1> QED
  BY <1>3, <1>4

\* A lost socket takes with it whatever was on it.
LEMMA DropInv ==
  ASSUME Inv, NEW state \in {"closed", "suspended"}, Drop(state),
         bus' \in Seq(Job), version' = version,
         budget' \in [{"commits", "losses", "suspends"} -> Nat]
  PROVE  Inv'
<1> USE DEF Inv
<1>1. /\ socket' = state /\ admitted' = "no" /\ handled' = {} /\ toClient' = <<>>
      /\ UNCHANGED <<connection, greeted, view>>
  BY DEF Drop
<1>2. Elements(toClient)' = {}
  BY <1>1, ElementsPrimed, ElementsEmpty
<1>3. /\ toServer' = <<>> /\ outbound' \in Seq(Nat)
      /\ outbound' = IF pending' # 0 THEN <<pending'>> ELSE <<>>
      /\ lastId' \in Nat /\ pending' \in 0 .. lastId'
      /\ {again', timer', subscribed'} \subseteq BOOLEAN
      /\ again' \/ ~subscribed' => pending' # 0
  <2>1. CASE pending # 0
    <3>1. RefreshOver(FALSE, <<>>, <<>>) /\ timer' \in BOOLEAN
      BY <2>1 DEF Drop, RetryLater
    <3>2. <<>> \in Seq(Nat)
      OBVIOUS
    <3>3. /\ lastId' \in Nat /\ pending' \in 0 .. lastId' /\ again' = FALSE
          /\ subscribed' = (subscribed \/ ~again)
          /\ outbound' \in Seq(Nat) /\ toServer' = <<>>
          /\ outbound' = IF pending' # 0 THEN <<pending'>> ELSE <<>>
          /\ pending' = 0 => subscribed'
      BY <3>1, <3>2, ElementsEmpty, RefreshOverDoes
    <3> QED
      BY <3>1, <3>3 DEF TypeOK
  <2>2. CASE pending = 0
    <3>1. /\ toServer' = <<>> /\ outbound' = <<>> /\ UNCHANGED <<lastId, pending, again, subscribed>>
          /\ timer' \in BOOLEAN
      BY <2>2 DEF Drop, NoRequest
    <3>2. <<>> \in Seq(Nat)
      OBVIOUS
    <3> QED
      BY <2>2, <3>1, <3>2 DEF TypeOK, WiresOK
  <2> QED
    BY <2>1, <2>2
<1>4. TypeOK'
  <2>1. toClient' \in Seq(ToClient) /\ toServer' \in Seq(Nat)
    BY <1>1, <1>3
  <2>2. socket' \in {"connecting", "open", "closed", "suspended"} /\ handled' \subseteq Snapshot
        /\ admitted' \in {"no", "welcomed", "in"}
    BY <1>1
  <2>3. version' \in Nat /\ connection' \in Nat /\ view' \in 0 .. version' /\ greeted' \in BOOLEAN
    BY <1>1 DEF TypeOK
  <2> QED
    BY <1>3, <2>1, <2>2, <2>3 DEF TypeOK
<1>5. WiresOK'
  BY <1>1, <1>3 DEF WiresOK
<1>6. Answers' = {}
  BY <1>1, <1>2 DEF Answers
<1>7. RequestsOK'
  BY <1>3, <1>6, ElementsPrimed, ElementsEmpty DEF RequestsOK
<1>8. VersionsOK'
  BY <1>6 DEF VersionsOK
<1>9. FreshOK'
  BY <1>1 DEF FreshOK
<1> QED
  BY <1>4, <1>5, <1>7, <1>8, <1>9

LEMMA CloseInv == ASSUME Inv, Close PROVE Inv'
<1>1. /\ Drop("closed") /\ bus' = bus /\ version' = version
      /\ budget' = [budget EXCEPT !["losses"] = @ - 1] /\ budget["losses"] > 0
  BY DEF Close, Spend
<1>2. bus' \in Seq(Job) /\ budget' \in [{"commits", "losses", "suspends"} -> Nat]
  BY <1>1 DEF Inv, TypeOK
<1> QED
  BY <1>1, <1>2, DropInv

LEMMA CrashInv == ASSUME Inv, Crash PROVE Inv'
<1>1. /\ Drop("closed") /\ bus' = <<>> /\ version' = version
      /\ budget' = [budget EXCEPT !["losses"] = @ - 1] /\ budget["losses"] > 0
  BY DEF Crash, Spend
<1>2. bus' \in Seq(Job)
  BY <1>1
<1>3. budget' \in [{"commits", "losses", "suspends"} -> Nat]
  BY <1>1 DEF Inv, TypeOK
<1> QED
  BY <1>1, <1>2, <1>3, DropInv

LEMMA SuspendInv == ASSUME Inv, Suspend PROVE Inv'
<1>1. /\ Drop("suspended") /\ bus' = bus /\ version' = version
      /\ budget' = [budget EXCEPT !["suspends"] = @ - 1] /\ budget["suspends"] > 0
  BY DEF Suspend, Spend
<1>2. bus' \in Seq(Job) /\ budget' \in [{"commits", "losses", "suspends"} -> Nat]
  BY <1>1 DEF Inv, TypeOK
<1> QED
  BY <1>1, <1>2, DropInv

\* The two ways back to connecting.
LEMMA ReconnectInv == ASSUME Inv, Reconnect \/ Resume PROVE Inv'
<1> USE DEF Inv
<1>1. /\ socket # "open" /\ socket' = "connecting"
      /\ UNCHANGED <<server, wires, connection, outbound, pending, lastId, client, budget>>
  BY DEF Reconnect, Resume
<1>2. TypeOK' /\ WiresOK'
  BY <1>1 DEF TypeOK, WiresOK, server, wires, client
<1>3. /\ Answers' = Answers
      /\ Elements(toServer)' = Elements(toServer) /\ Distinct(toServer)' = Distinct(toServer)
  BY <1>1 DEF server, wires, Answers, Elements, Distinct
<1>4. RequestsOK'
  BY <1>1, <1>3, RequestsKept DEF RequestsOK
<1>5. VersionsOK'
  BY <1>1, <1>2, <1>3, VersionsKept DEF server, client, TypeOK
<1>6. FreshOK'
  BY <1>1 DEF FreshOK, WiresOK, server
<1> QED
  BY <1>2, <1>4, <1>5, <1>6

LEMMA OpenInv == ASSUME Inv, Open PROVE Inv'
<1> USE DEF Inv
<1> DEFINE job == [kind |-> "welcome", connection |-> connection + 1]
<1>1. /\ socket = "connecting" /\ socket' = "open" /\ connection' = connection + 1
      /\ bus' = Append(bus, job)
      /\ UNCHANGED <<version, admitted, handled, toClient, timer, subscribed, greeted, view, budget>>
      /\ toServer = <<>> /\ toClient = <<>> /\ handled = {} /\ admitted = "no"
      /\ outbound = IF pending = 0 THEN <<>> ELSE <<pending>>
      /\ outbound \in Seq(Nat) /\ pending \in 0 .. lastId /\ lastId \in Nat
      /\ connection \in Nat /\ bus \in Seq(Job)
  BY DEF Open, WiresOK, TypeOK
<1>2. Elements(outbound) \subseteq {pending} /\ Distinct(outbound)
      /\ \A id \in Elements(outbound) : id \in 1 .. lastId
  <2>1. CASE pending = 0
    BY <1>1, <2>1, ElementsEmpty
  <2>2. CASE pending # 0
    <3>1. outbound = <<pending>> /\ pending \in Nat
      BY <1>1, <2>2
    <3>2. Elements(outbound) = {pending} /\ Distinct(outbound)
      BY <3>1 DEF Elements, Distinct
    <3> QED
      BY <1>1, <2>2, <3>2
  <2> QED
    BY <2>1, <2>2
<1>3. /\ job \in Job /\ job.kind = "welcome" /\ job.connection = connection'
  BY <1>1 DEF Job
<1> HIDE DEF job
<1>4. bus' \in Seq(Job) /\ Elements(bus)' = Elements(bus) \cup {job}
  BY <1>1, <1>3, ElementsPrimed, ElementsAppend
<1>5. /\ lastId' \in Nat /\ pending' \in 0 .. lastId' /\ again' \in BOOLEAN
      /\ toServer' \in Seq(Nat) /\ outbound' = <<>>
      /\ again' \/ ~subscribed => pending' # 0
      /\ Distinct(toServer)' /\ \A id \in Elements(toServer)' : id \in 1 .. lastId'
  <2>1. CASE connection > 0
    <3>1. Refresh(TRUE, outbound, <<>>)
      BY <2>1 DEF Open
    <3>2. <<>> \in Seq(Nat)
      OBVIOUS
    <3>3. /\ lastId' \in Nat /\ pending' \in 1 .. lastId' /\ again' \in BOOLEAN
          /\ toServer' \in Seq(Nat) /\ outbound' = <<>> /\ Distinct(toServer)'
          /\ \/ lastId' = lastId /\ Elements(toServer)' = Elements(outbound)
             \/ lastId' = lastId + 1 /\ Elements(toServer)' \subseteq Elements(outbound) \cup {lastId'}
      BY <1>1, <1>2, <3>1, <3>2, RefreshDoes
    <3>4. pending' # 0 /\ pending' \in 0 .. lastId'
      BY <3>3
    <3>5. \A id \in Elements(toServer)' : id \in 1 .. lastId'
      BY <1>1, <1>2, <3>3
    <3> QED
      BY <3>3, <3>4, <3>5
  <2>2. CASE ~(connection > 0)
    <3>1. toServer' = outbound /\ outbound' = <<>> /\ UNCHANGED <<lastId, pending, again>>
      BY <2>2 DEF Open, NoRequest
    <3> QED
      BY <1>1, <1>2, <3>1, ElementsPrimed DEF TypeOK, WiresOK
  <2> QED
    BY <2>1, <2>2
<1>6. Answers' = {}
  BY <1>1, ElementsPrimed, ElementsEmpty DEF Answers
<1>7. TypeOK'
  <2>1. outbound' \in Seq(Nat) /\ connection' \in Nat
    BY <1>1, <1>5
  <2> QED
    BY <1>1, <1>4, <1>5, <2>1 DEF TypeOK
<1>8. WiresOK'
  BY <1>1, <1>5 DEF WiresOK
<1>9. RequestsOK' /\ VersionsOK'
  BY <1>5, <1>6 DEF RequestsOK, VersionsOK
<1>10. FreshOK'
  BY <1>1, <1>3, <1>4 DEF FreshOK
<1> QED
  BY <1>7, <1>8, <1>9, <1>10

LEMMA FailInv == ASSUME Inv, Fail PROVE Inv'
<1> USE DEF Inv
<1> DEFINE queued == IF outbound # <<>> /\ Head(outbound) = pending THEN Tail(outbound) ELSE outbound
<1>1. /\ pending # 0 /\ RefreshOver(socket = "open", toServer, queued)
      /\ timer' = (socket # "suspended")
      /\ budget' = [budget EXCEPT !["losses"] = @ - 1] /\ budget["losses"] > 0
      /\ UNCHANGED <<server, toClient, socket, connection, greeted, view>>
  BY DEF Fail, Spend, RetryLater
<1>2. queued = <<>>
  <2>1. CASE socket = "open"
    BY <1>1, <2>1 DEF WiresOK
  <2>2. CASE socket # "open"
    <3>1. outbound = <<pending>>
      BY <1>1, <2>2 DEF WiresOK
    <3>2. outbound # <<>> /\ Head(outbound) = pending /\ Tail(outbound) = <<>>
      BY <3>1
    <3>3. queued = Tail(outbound)
      BY <3>2
    <3> QED
      BY <3>2, <3>3
  <2> QED
    BY <2>1, <2>2
<1> HIDE DEF queued
<1>3. /\ lastId' \in Nat /\ pending' \in 0 .. lastId' /\ again' = FALSE
      /\ subscribed' = (subscribed \/ ~again)
      /\ toServer' \in Seq(Nat) /\ outbound' \in Seq(Nat)
      /\ outbound' = IF ~(socket = "open") /\ pending' # 0 THEN <<pending'>> ELSE <<>>
      /\ Distinct(toServer)'
      /\ \/ lastId' = lastId /\ Elements(toServer)' = Elements(toServer)
         \/ lastId' = lastId + 1 /\ Elements(toServer)' \subseteq Elements(toServer) \cup {lastId'}
      /\ pending' \in {0, lastId + 1}
      /\ pending' = 0 => subscribed'
      /\ ~(socket = "open") => toServer' = toServer
  BY <1>1, <1>2, EmptySeq, RefreshOverDoes DEF TypeOK, RequestsOK
<1>4. TypeOK'
  <2>1. budget' \in [{"commits", "losses", "suspends"} -> Nat]
    BY <1>1 DEF TypeOK
  <2>2. {again', timer', subscribed', greeted'} \subseteq BOOLEAN
    BY <1>1, <1>3 DEF TypeOK
  <2> QED
    BY <1>1, <1>3, <2>1, <2>2 DEF TypeOK, server
<1>5. WiresOK'
  BY <1>1, <1>3 DEF WiresOK, server
<1>6. /\ Answers' = Answers /\ Told("welcome")' = Told("welcome")
      /\ Elements(bus)' = Elements(bus)
  BY <1>1 DEF Answers, Told, Elements, server
<1>7. RequestsOK'
  BY <1>3, <1>6, RequestsKept
<1>8. VersionsOK'
  BY <1>1, <1>3, <1>4, <1>6, VersionsKept DEF server, TypeOK
<1>9. FreshOK'
  <2>1. socket = "open" => Promise'
    BY <1>1 DEF Promise
  <2> QED
    BY <1>1, <1>6, <2>1 DEF FreshOK, WiresOK, server
<1> QED
  BY <1>4, <1>5, <1>7, <1>8, <1>9

\* A push read by the client.
LEMMA PushTaken ==
  ASSUME Inv, toClient # <<>>, Head(toClient).kind \in {"event", "welcome"},
         toClient' = Tail(toClient), handled' = handled
  PROVE  /\ toClient' \in Seq(ToClient)
         /\ Answers' = Answers
         /\ Told("welcome") => Told("welcome")' \/ Head(toClient).kind = "welcome"
         /\ Told("event") => Told("event")' \/ Head(toClient).kind = "event"
<1>1. toClient \in Seq(ToClient)
  BY DEF Inv, TypeOK
<1>2. toClient' \in Seq(ToClient) /\ Elements(toClient) = {Head(toClient)} \cup Elements(toClient)'
  BY <1>1, ElementsPrimed, ElementsTail
<1> QED
  BY <1>2 DEF Answers, Told

LEMMA TakePushInv == ASSUME Inv, TakePush PROVE Inv'
<1> USE DEF Inv
<1>1. /\ toClient # <<>> /\ Head(toClient).kind \in {"event", "welcome"}
      /\ toClient' = Tail(toClient)
      /\ greeted' = (greeted \/ Head(toClient).kind = "welcome")
      /\ UNCHANGED <<server, socket, connection, timer, subscribed, view, budget>>
      /\ socket = "open" /\ outbound = <<>>
  BY DEF TakePush, WiresOK
<1>2. /\ toClient' \in Seq(ToClient)
      /\ Answers' = Answers
      /\ Told("welcome") => Told("welcome")' \/ Head(toClient).kind = "welcome"
      /\ Told("event") => Told("event")' \/ Head(toClient).kind = "event"
  BY <1>1, PushTaken DEF server
<1>3. /\ lastId' \in Nat /\ pending' \in 0 .. lastId' /\ again' \in BOOLEAN
      /\ toServer' \in Seq(Nat) /\ outbound' = <<>>
      /\ again' \/ ~subscribed => pending' # 0
      /\ Distinct(toServer)'
      /\ \/ lastId' = lastId /\ Elements(toServer)' = Elements(toServer)
         \/ lastId' = lastId + 1 /\ Elements(toServer)' \subseteq Elements(toServer) \cup {lastId'}
      /\ \/ pending' = pending /\ again'
         \/ UNCHANGED <<pending, again, toServer>> /\ ~subscribed
         \/ pending' = lastId + 1 /\ pending' \in Elements(toServer)'
  <2>1. CASE subscribed
    <3>1. Refresh(TRUE, toServer, <<>>)
      BY <1>1, <2>1 DEF TakePush
    <3>2. <<>> \in Seq(Nat)
      OBVIOUS
    <3>3. /\ lastId' \in Nat /\ pending' \in 1 .. lastId' /\ again' \in BOOLEAN
          /\ toServer' \in Seq(Nat) /\ outbound' = <<>> /\ Distinct(toServer)'
          /\ \/ lastId' = lastId /\ Elements(toServer)' = Elements(toServer)
             \/ lastId' = lastId + 1 /\ Elements(toServer)' \subseteq Elements(toServer) \cup {lastId'}
          /\ \/ pending' = pending /\ again'
             \/ pending' = lastId + 1 /\ pending' \in Elements(toServer)'
      BY <3>1, <3>2, RefreshDoes DEF TypeOK, RequestsOK
    <3>4. pending' # 0 /\ pending' \in 0 .. lastId'
      BY <3>3
    <3> QED
      BY <3>3, <3>4
  <2>2. CASE ~subscribed
    <3>1. UNCHANGED <<toServer, outbound, lastId, pending, again>>
      BY <2>2 DEF TakePush, NoRequest
    <3>2. Distinct(toServer)' /\ Elements(toServer)' = Elements(toServer)
      BY <3>1, ElementsPrimed DEF RequestsOK
    <3> QED
      BY <1>1, <2>2, <3>1, <3>2 DEF TypeOK, WiresOK
  <2> QED
    BY <2>1, <2>2
<1>4. TypeOK'
  <2>1. outbound' \in Seq(Nat)
    BY <1>3
  <2>2. greeted \in BOOLEAN /\ greeted' \in BOOLEAN
    BY <1>1 DEF TypeOK
  <2> QED
    BY <1>1, <1>2, <1>3, <2>1, <2>2 DEF TypeOK, server
<1>5. WiresOK'
  BY <1>1, <1>3 DEF WiresOK
<1>6. RequestsOK'
  BY <1>2, <1>3, RequestsKept
<1>7. VersionsOK'
  BY <1>1, <1>2, <1>3, <1>4, VersionsKept DEF server, TypeOK
<1>8. Promise => Promise'
  <2>1. CASE again' \/ pending' \in Elements(toServer)'
    BY <2>1 DEF Promise
  <2>2. CASE UNCHANGED <<pending, again, toServer>> /\ ~subscribed
    <3>1. Elements(toServer)' = Elements(toServer)
      BY <2>2, ElementsPrimed
    <3> QED
      BY <1>1, <1>2, <2>2, <3>1 DEF Promise
  <2> QED
    BY <1>3, <2>1, <2>2
<1>9. FreshOK'
  <2>1. Elements(bus)' = Elements(bus)
    BY <1>1 DEF Elements, server
  <2>2. admitted # "no" => (greeted \/ Told("welcome"))'
    BY <1>1, <1>2 DEF FreshOK
  <2>3. ~Promise' => pending' = pending
    BY <1>3 DEF Promise
  <2> QED
    BY <1>1, <1>2, <1>8, <2>1, <2>2, <2>3 DEF FreshOK, server
<1> QED
  BY <1>4, <1>5, <1>6, <1>7, <1>9

LEMMA TakeAnswerInv == ASSUME Inv, TakeAnswer PROVE Inv'
<1> USE DEF Inv
<1> DEFINE a == Head(toClient)
<1>1. /\ toClient # <<>> /\ a.kind = "answer"
      /\ toClient' = Tail(toClient)
      /\ UNCHANGED <<server, socket, connection, timer, greeted, budget>>
      /\ socket = "open" /\ outbound = <<>>
  BY DEF TakeAnswer, WiresOK
<1>2. /\ toClient' \in Seq(ToClient) /\ a \in Answers
      /\ Elements(toClient) = {a} \cup Elements(toClient)'
  BY <1>1, ElementsPrimed, ElementsTail DEF TypeOK, Answers
<1>3. /\ Answers' \subseteq Answers /\ Answers \subseteq Answers' \cup {a}
      /\ Told("welcome")' = Told("welcome") /\ Told("event")' = Told("event")
      /\ Elements(bus)' = Elements(bus)
  <2>1. Answers' \subseteq Answers /\ Answers \subseteq Answers' \cup {a}
    BY <1>1, <1>2 DEF Answers, server
  <2>2. Told("welcome")' = Told("welcome") /\ Told("event")' = Told("event")
    BY <1>1, <1>2 DEF Told
  <2> QED
    BY <1>1, <2>1, <2>2 DEF Elements, server
<1>4. /\ a.id \in 1 .. lastId /\ a.id \notin Elements(toServer) /\ a.version \in 0 .. version
      /\ a.id = pending => a.version >= view
      /\ \A b \in Answers : a.id = b.id => a.version = b.version
  BY <1>2 DEF RequestsOK, VersionsOK
<1>5. CASE Awaited(a)
  <2>1. /\ view' = a.version /\ RefreshOver(TRUE, toServer, <<>>) /\ a.id = pending
    BY <1>1, <1>5 DEF TakeAnswer, Awaited
  <2>2. <<>> \in Seq(Nat)
    OBVIOUS
  <2>3. /\ lastId' \in Nat /\ pending' \in 0 .. lastId' /\ again' = FALSE
        /\ subscribed' = (subscribed \/ ~again)
        /\ toServer' \in Seq(Nat) /\ outbound' = <<>>
        /\ Distinct(toServer)'
        /\ \/ lastId' = lastId /\ Elements(toServer)' = Elements(toServer)
           \/ lastId' = lastId + 1 /\ Elements(toServer)' \subseteq Elements(toServer) \cup {lastId'}
        /\ pending' \in {0, lastId + 1}
        /\ pending' # 0 => pending' \in Elements(toServer)'
        /\ pending' = 0 => ~again /\ subscribed' /\ (subscribed \/ ~greeted)
    BY <2>1, <2>2, RefreshOverDoes DEF TypeOK, RequestsOK
  <2>4. TypeOK'
    <3>1. outbound' \in Seq(Nat) /\ view' \in 0 .. version
      BY <1>4, <2>1, <2>3
    <3>2. {again', timer', subscribed', greeted'} \subseteq BOOLEAN
      BY <1>1, <2>3 DEF TypeOK
    <3> QED
      BY <1>1, <1>2, <2>3, <3>1, <3>2 DEF TypeOK, server
  <2>5. WiresOK'
    BY <1>1, <2>3 DEF WiresOK
  <2>6. RequestsOK'
    BY <1>3, <2>3, RequestsKept
  <2>7. VersionsOK'
    BY <1>1, <1>3, <2>3, <2>4, VersionsKept DEF server, TypeOK
  <2>8. Promise => Promise'
    BY <1>1, <1>3, <1>4, <2>1, <2>3 DEF Promise
  <2>9. FreshOK'
    <3>1. admitted = "in" /\ view # version =>
            \/ Promise \/ a.version = version
            \/ \E job \in Elements(bus) : job.kind = "event"
      BY <1>4, <2>1 DEF FreshOK
    <3>2. admitted = "in" /\ view = version => a.version = version
      BY <1>4, <2>1 DEF TypeOK
    <3> QED
      BY <1>1, <1>3, <2>1, <2>8, <3>1, <3>2 DEF FreshOK, server
  <2> QED
    BY <2>4, <2>5, <2>6, <2>7, <2>9
<1>6. CASE ~Awaited(a)
  <2>1. /\ UNCHANGED <<toServer, outbound, lastId, pending, again, subscribed, view>>
        /\ a.id # pending
    BY <1>1, <1>6 DEF TakeAnswer, NoRequest, Awaited
  <2>2. Elements(toServer)' = Elements(toServer) /\ Distinct(toServer)' = Distinct(toServer)
    BY <2>1, ElementsPrimed
  <2>3. TypeOK'
    BY <1>1, <1>2, <2>1 DEF TypeOK, server
  <2>4. WiresOK'
    BY <1>1, <2>1 DEF WiresOK
  <2>5. RequestsOK'
    BY <1>3, <2>1, <2>2, RequestsKept DEF RequestsOK
  <2>6. VersionsOK'
    BY <1>1, <1>3, <2>1, <2>3, VersionsKept DEF server, TypeOK
  <2>7. Promise' = Promise
    BY <1>1, <1>3, <2>1, <2>2 DEF Promise
  <2>8. FreshOK'
    BY <1>1, <1>3, <2>1, <2>7 DEF FreshOK, server
  <2> QED
    BY <2>3, <2>4, <2>5, <2>6, <2>8
<1> QED
  BY <1>5, <1>6

LEMMA RetryNowInv == ASSUME Inv, RetryNow PROVE Inv'
<1> USE DEF Inv
<1>1. /\ timer' = FALSE /\ Refresh(socket = "open", toServer, outbound)
      /\ UNCHANGED <<server, toClient, socket, connection, subscribed, greeted, view, budget>>
  BY DEF RetryNow
<1>2. outbound = IF socket = "open" \/ pending = 0 THEN <<>> ELSE <<pending>>
  BY DEF WiresOK
<1>3. /\ lastId' \in Nat /\ pending' \in 1 .. lastId' /\ again' \in BOOLEAN
      /\ toServer' \in Seq(Nat) /\ outbound' \in Seq(Nat)
      /\ outbound' = IF socket = "open" THEN <<>> ELSE <<pending'>>
      /\ Distinct(toServer)'
      /\ \/ lastId' = lastId /\ Elements(toServer)' = Elements(toServer)
         \/ lastId' = lastId + 1 /\ Elements(toServer)' \subseteq Elements(toServer) \cup {lastId'}
      /\ \/ pending' = pending /\ again'
         \/ pending' = lastId + 1 /\ (socket = "open" => pending' \in Elements(toServer)')
      /\ ~(socket = "open") => toServer' = toServer
  BY <1>1, <1>2, RefreshDoes DEF TypeOK, RequestsOK
<1>4. TypeOK'
  <2>1. pending' \in 0 .. lastId'
    BY <1>3
  <2>2. {again', timer', subscribed', greeted'} \subseteq BOOLEAN
    BY <1>1, <1>3 DEF TypeOK
  <2> QED
    BY <1>1, <1>3, <2>1, <2>2 DEF TypeOK, server
<1>5. WiresOK'
  BY <1>1, <1>3 DEF WiresOK, server
<1>6. /\ Answers' = Answers /\ Told("welcome")' = Told("welcome")
      /\ Elements(bus)' = Elements(bus)
  BY <1>1 DEF Answers, Told, Elements, server
<1>7. RequestsOK'
  BY <1>3, <1>6, RequestsKept
<1>8. VersionsOK'
  BY <1>1, <1>3, <1>4, <1>6, VersionsKept DEF server, TypeOK
<1>9. FreshOK'
  <2>1. socket = "open" => Promise'
    BY <1>3 DEF Promise
  <2> QED
    BY <1>1, <1>6, <2>1 DEF FreshOK, WiresOK, server
<1> QED
  BY <1>4, <1>5, <1>7, <1>8, <1>9

---------------------------------------------------------------------------
(* The theorems.                                                           *)

LEMMA NextInv == ASSUME Inv, Next PROVE Inv'
  BY CommitInv, PushInv, AdmitInv, ReadInv, AnswerInv, OpenInv, CloseInv, CrashInv,
     ReconnectInv, SuspendInv, FailInv, TakePushInv, TakeAnswerInv, RetryNowInv DEF Next

LEMMA StutterInv == ASSUME Inv, UNCHANGED vars PROVE Inv'
<1> USE DEF Inv, vars, server, wires, transport, client
<1>1. TypeOK' /\ WiresOK'
  BY DEF TypeOK, WiresOK
<1>2. /\ Answers' = Answers /\ Promise' = Promise /\ Told("welcome")' = Told("welcome")
      /\ Elements(toServer)' = Elements(toServer) /\ Distinct(toServer)' = Distinct(toServer)
      /\ Elements(bus)' = Elements(bus)
  BY DEF Answers, Promise, Told, Elements, Distinct
<1>3. RequestsOK' /\ VersionsOK' /\ FreshOK'
  BY <1>2 DEF RequestsOK, VersionsOK, FreshOK
<1> QED
  BY <1>1, <1>3

\* The inductive invariant holds always.
THEOREM Invariance == Spec => []Inv
<1>1. Inv /\ [Next]_vars => Inv'
  BY NextInv, StutterInv
<1> QED
  BY InitInv, <1>1, PTL DEF Spec

\* Every variable keeps its type; a shown version was recorded (ui.tsx).
THEOREM TypeCorrect == Spec => []TypeOK
<1>1. Inv => TypeOK
  BY DEF Inv
<1> QED
  BY Invariance, <1>1, PTL

\* No update is missed (wsServer.ts, pushBus.ts, snapshotRefresh.ts): once
\* everything is delivered, the client shows what the server has recorded.
THEOREM NothingMissed == Spec => []QuietIsFresh
<1>1. Inv => QuietIsFresh
  <2> SUFFICES ASSUME Inv, Quiet PROVE view = version
    BY DEF QuietIsFresh
  <2>1. /\ Elements(bus) = {} /\ Elements(toServer) = {} /\ Elements(toClient) = {}
    BY ElementsEmpty DEF Quiet
  <2>2. Answers = {} /\ ~Told("welcome") /\ ~Told("event")
    BY <2>1 DEF Quiet, Answers, Told
  <2>3. ~Promise
    BY <2>1, <2>2 DEF Inv, WiresOK, FreshOK, Quiet, Promise
  <2> QED
    BY <2>1, <2>2, <2>3 DEF Inv, FreshOK, Quiet
<1> QED
  BY Invariance, <1>1, PTL

\* The client never goes back to an older version (wsTransport.ts, ui.tsx).
THEOREM NeverGoesBack == Spec => ViewOnlyAdvances
<1>1. Inv /\ [Next]_vars => [view' >= view]_vars
  <2> SUFFICES ASSUME Inv, Next PROVE view' >= view
    OBVIOUS
  <2>1. view \in Nat
    BY DEF Inv, TypeOK
  <2>2. CASE TakeAnswer
    <3>1. Head(toClient) \in Elements(toClient) /\ Head(toClient).kind = "answer"
      BY <2>2, ElementsTail DEF TakeAnswer, Inv, TypeOK
    <3>2. Head(toClient).id = pending => Head(toClient).version >= view
      BY <3>1 DEF Inv, VersionsOK, Answers
    <3>3. view' = view \/ (view' = Head(toClient).version /\ Head(toClient).id = pending)
      BY <2>2 DEF TakeAnswer, Awaited
    <3> QED
      BY <2>1, <3>2, <3>3
  <2>3. CASE ~TakeAnswer
    <3>1. view' = view
      BY <2>3 DEF Next, Commit, Push, Admit, Read, Answer, Open, Close, Crash, Reconnect, Suspend,
                  Resume, Fail, TakePush, RetryNow, Drop, client
    <3> QED
      BY <2>1, <3>1
  <2> QED
    BY <2>2, <2>3
<1> QED
  BY Invariance, <1>1, PTL DEF Spec, ViewOnlyAdvances

=============================================================================
