------------------------ MODULE ManagementChannel_proofs ------------------------
(* Proofs about ManagementChannel, for any windows and operations and any      *)
(* number of requests and connections.  Session and worker agree on the one    *)
(* request of each kind, which is in the queue of the worker, in its hands or  *)
(* answered in the queue of the GUI, and on connections, whose endings and     *)
(* openings stay in order (Invariance); the slot is therefore never lost       *)
(* (SlotCorrect), and a tool that ends is answered once (AnsweredCorrect).     *)
EXTENDS ManagementChannel, EventQueues, SequenceTheorems, TLAPS

----
(* Queues of events: the first is taken out, one is appended, or a queue is appended. *)

\* A queue with a first event, by its positions.
LEMMA FirstAndRest ==
    ASSUME NEW V, NEW q \in Seq(V), q # <<>>
    PROVE  /\ Len(q) \in Nat \ {0} /\ DOMAIN q = 1 .. Len(q) /\ Head(q) = q[1] /\ Head(q) \in V
           /\ Tail(q) \in Seq(V) /\ DOMAIN Tail(q) = 1 .. Len(q) - 1
           /\ \A i \in 1 .. Len(q) - 1 : Tail(q)[i] = q[i + 1] BY EmptySeq, LenProperties, HeadTailProperties

\* The queue without its first event.
LEMMA TakeNone ==
    ASSUME NEW V, NEW q \in Seq(V), q # <<>>, NEW S
    PROVE  NoneOf(q, S) <=> Head(q) \notin S /\ NoneOf(Tail(q), S)
<1> DEFINE n == Len(q)  h == Head(q)  t == Tail(q)
<1> HIDE DEF n, h, t
<1>1. /\ n \in Nat \ {0} /\ DOMAIN q = 1 .. n /\ h = q[1]
      /\ DOMAIN t = 1 .. n - 1 /\ \A i \in 1 .. n - 1 : t[i] = q[i + 1] BY FirstAndRest DEF n, h, t
<1>2. \A k \in 1 .. n : k = 1 \/ (k - 1 \in 1 .. n - 1 /\ q[k] = t[k - 1]) BY <1>1
<1>3. \A k \in 1 .. n - 1 : k + 1 \in 1 .. n BY <1>1
<1>4. NoneOf(q, S) => h \notin S /\ NoneOf(t, S) BY <1>1, <1>3 DEF NoneOf
<1>5. h \notin S /\ NoneOf(t, S) => NoneOf(q, S) BY <1>1, <1>2 DEF NoneOf
<1> QED BY <1>4, <1>5 DEF h, t

\* An order survives the taking of the first event, which is before all others.
LEMMA TakeOrdered ==
    ASSUME NEW V, NEW q \in Seq(V), q # <<>>, NEW S, NEW T
    PROVE  Ordered(q, S, T) => Ordered(Tail(q), S, T) /\ (Head(q) \in S => NoneOf(Tail(q), T))
<1> DEFINE n == Len(q)  h == Head(q)  t == Tail(q)
<1> HIDE DEF n, h, t
<1>1. /\ n \in Nat \ {0} /\ DOMAIN q = 1 .. n /\ h = q[1]
      /\ DOMAIN t = 1 .. n - 1 /\ \A i \in 1 .. n - 1 : t[i] = q[i + 1] BY FirstAndRest DEF n, h, t
<1>2. SUFFICES ASSUME Ordered(q, S, T) PROVE Ordered(t, S, T) /\ (h \in S => NoneOf(t, T)) BY DEF h, t
<1>3. ASSUME NEW i \in 1 .. n - 1, NEW k \in 1 .. n - 1, i < k, t[i] \in S PROVE t[k] \notin T
  <2>1. i + 1 \in 1 .. n /\ k + 1 \in 1 .. n /\ i + 1 < k + 1 BY <1>1, <1>3
  <2> QED BY <1>1, <1>2, <1>3, <2>1 DEF Ordered
<1>4. ASSUME h \in S, NEW k \in 1 .. n - 1 PROVE t[k] \notin T BY <1>1, <1>2, <1>4 DEF Ordered
<1> QED BY <1>1, <1>3, <1>4 DEF Ordered, NoneOf

\* So does a promise of later events, and the first event leaves behind what follows it.
LEMMA TakeFollowed ==
    ASSUME NEW V, NEW q \in Seq(V), q # <<>>, NEW S, NEW T
    PROVE  Followed(q, S, T) => Followed(Tail(q), S, T) /\ (Head(q) \in S => ~NoneOf(Tail(q), T))
<1> DEFINE n == Len(q)  h == Head(q)  t == Tail(q)
<1> HIDE DEF n, h, t
<1>1. /\ n \in Nat \ {0} /\ DOMAIN q = 1 .. n /\ h = q[1]
      /\ DOMAIN t = 1 .. n - 1 /\ \A i \in 1 .. n - 1 : t[i] = q[i + 1] BY FirstAndRest DEF n, h, t
<1>2. SUFFICES ASSUME Followed(q, S, T) PROVE Followed(t, S, T) /\ (h \in S => ~NoneOf(t, T)) BY DEF h, t
<1>3. ASSUME NEW i \in 1 .. n, NEW k \in 1 .. n, i < k
      PROVE  k - 1 \in 1 .. n - 1 /\ i - 1 < k - 1 /\ t[k - 1] = q[k] BY <1>1, <1>3
<1>4. ASSUME NEW i \in 1 .. n - 1, t[i] \in S PROVE \E k \in 1 .. n - 1 : i < k /\ t[k] \in T
  <2>1. i + 1 \in 1 .. n /\ q[i + 1] \in S /\ (i + 1) - 1 = i BY <1>1, <1>4
  <2>2. PICK k \in 1 .. n : i + 1 < k /\ q[k] \in T BY <1>1, <1>2, <2>1 DEF Followed
  <2> QED BY <1>3, <2>1, <2>2
<1>5. ASSUME h \in S PROVE \E k \in 1 .. n - 1 : t[k] \in T
  <2>1. 1 \in 1 .. n /\ q[1] \in S BY <1>1, <1>5
  <2>2. PICK k \in 1 .. n : 1 < k /\ q[k] \in T BY <1>1, <1>2, <2>1 DEF Followed
  <2> QED BY <1>3, <2>1, <2>2
<1> QED BY <1>1, <1>4, <1>5 DEF Followed, NoneOf

\* A queue with another appended, by its positions.
LEMMA BothParts ==
    ASSUME NEW V, NEW q \in Seq(V), NEW r \in Seq(V)
    PROVE  /\ q \o r \in Seq(V) /\ Len(q) \in Nat /\ Len(r) \in Nat
           /\ DOMAIN q = 1 .. Len(q) /\ DOMAIN r = 1 .. Len(r) /\ DOMAIN (q \o r) = 1 .. Len(q) + Len(r)
           /\ \A i \in 1 .. Len(q) : (q \o r)[i] = q[i]
           /\ \A i \in 1 .. Len(r) : (q \o r)[Len(q) + i] = r[i]
<1>1. /\ q \o r \in Seq(V) /\ Len(q \o r) = Len(q) + Len(r)
      /\ \A i \in 1 .. Len(q) + Len(r) : (q \o r)[i] = IF i <= Len(q) THEN q[i] ELSE r[i - Len(q)]
  BY ConcatProperties
<1>2. Len(q) \in Nat /\ Len(r) \in Nat /\ DOMAIN q = 1 .. Len(q) /\ DOMAIN r = 1 .. Len(r) BY LenProperties
<1>3. DOMAIN (q \o r) = 1 .. Len(q) + Len(r) BY <1>1, LenProperties
<1> DEFINE m == Len(q)  n == Len(r)  s == q \o r
<1> HIDE DEF m, n, s
<1>4. m \in Nat /\ n \in Nat /\ \A i \in 1 .. m + n : s[i] = IF i <= m THEN q[i] ELSE r[i - m]
  BY <1>1, <1>2 DEF m, n, s
<1>5. \A i \in 1 .. m : i \in 1 .. m + n /\ i <= m BY <1>4
<1>6. \A i \in 1 .. n : m + i \in 1 .. m + n /\ ~(m + i <= m) /\ (m + i) - m = i BY <1>4
<1>7. (\A i \in 1 .. m : s[i] = q[i]) /\ \A i \in 1 .. n : s[m + i] = r[i] BY <1>4, <1>5, <1>6
<1> QED BY <1>1, <1>2, <1>3, <1>7 DEF m, n, s

\* What waits in two queues in a row waits in one of them.
LEMMA JoinNone ==
    ASSUME NEW V, NEW q \in Seq(V), NEW r \in Seq(V), NEW S
    PROVE  NoneOf(q \o r, S) <=> NoneOf(q, S) /\ NoneOf(r, S)
<1> DEFINE m == Len(q)  n == Len(r)  s == q \o r
<1> HIDE DEF m, n, s
<1>1. /\ m \in Nat /\ n \in Nat /\ DOMAIN q = 1 .. m /\ DOMAIN r = 1 .. n /\ DOMAIN s = 1 .. m + n
      /\ (\A i \in 1 .. m : s[i] = q[i]) /\ \A i \in 1 .. n : s[m + i] = r[i] BY BothParts DEF m, n, s
<1>2. (\A i \in 1 .. m : i \in 1 .. m + n) /\ \A i \in 1 .. n : m + i \in 1 .. m + n BY <1>1
<1>3. \A k \in 1 .. m + n : k \in 1 .. m \/ (k - m \in 1 .. n /\ m + (k - m) = k) BY <1>1
<1>4. NoneOf(s, S) => NoneOf(q, S) /\ NoneOf(r, S) BY <1>1, <1>2 DEF NoneOf
<1>5. NoneOf(q, S) /\ NoneOf(r, S) => NoneOf(s, S) BY <1>1, <1>3 DEF NoneOf
<1> QED BY <1>4, <1>5 DEF s

\* An order survives the joining of two queues that do not break it between them.
LEMMA JoinOrdered ==
    ASSUME NEW V, NEW q \in Seq(V), NEW r \in Seq(V), NEW S, NEW T,
           Ordered(q, S, T), Ordered(r, S, T), NoneOf(q, S) \/ NoneOf(r, T)
    PROVE  Ordered(q \o r, S, T)
<1> DEFINE m == Len(q)  n == Len(r)  s == q \o r
<1> HIDE DEF m, n, s
<1>1. /\ m \in Nat /\ n \in Nat /\ DOMAIN q = 1 .. m /\ DOMAIN r = 1 .. n /\ DOMAIN s = 1 .. m + n
      /\ (\A i \in 1 .. m : s[i] = q[i]) /\ \A i \in 1 .. n : s[m + i] = r[i] BY BothParts DEF m, n, s
<1>2. \A k \in 1 .. m + n : k \in 1 .. m \/ (k - m \in 1 .. n /\ m + (k - m) = k /\ ~(k \in 1 .. m)) BY <1>1
<1>3. ASSUME NEW i \in 1 .. m + n, NEW k \in 1 .. m + n, i < k, s[i] \in S PROVE s[k] \notin T
  <2>1. CASE i \in 1 .. m /\ k \in 1 .. m BY <1>1, <1>3, <2>1 DEF Ordered
  <2>2. CASE i \in 1 .. m /\ k \notin 1 .. m BY <1>1, <1>2, <2>2, <1>3 DEF NoneOf
  <2>3. CASE i \notin 1 .. m
    <3>1. i - m \in 1 .. n /\ s[i] = r[i - m] BY <1>1, <1>2, <2>3
    <3>2. k \notin 1 .. m BY <1>1, <1>3, <2>3
    <3>3. k - m \in 1 .. n /\ s[k] = r[k - m] BY <1>1, <1>2, <3>2
    <3>4. i - m < k - m BY <1>1, <1>3
    <3> QED BY <1>1, <1>3, <3>1, <3>3, <3>4 DEF Ordered
  <2> QED BY <2>1, <2>2, <2>3
<1> QED BY <1>1, <1>3 DEF Ordered, s

\* Events of the first queue may be followed by those of the second.
LEMMA JoinFollowed ==
    ASSUME NEW V, NEW q \in Seq(V), NEW r \in Seq(V), NEW S, NEW T,
           Followed(q, S, T) \/ ~NoneOf(r, T), Followed(r, S, T)
    PROVE  Followed(q \o r, S, T)
<1> DEFINE m == Len(q)  n == Len(r)  s == q \o r
<1> HIDE DEF m, n, s
<1>1. /\ m \in Nat /\ n \in Nat /\ DOMAIN q = 1 .. m /\ DOMAIN r = 1 .. n /\ DOMAIN s = 1 .. m + n
      /\ (\A i \in 1 .. m : s[i] = q[i]) /\ \A i \in 1 .. n : s[m + i] = r[i] BY BothParts DEF m, n, s
<1>2. \A k \in 1 .. m + n : k \in 1 .. m \/ (k - m \in 1 .. n /\ m + (k - m) = k) BY <1>1
<1>3. ASSUME NEW i \in 1 .. m + n, s[i] \in S PROVE \E k \in 1 .. m + n : i < k /\ s[k] \in T
  <2>1. CASE i \in 1 .. m
    <3>1. CASE Followed(q, S, T)
      <4>1. PICK k \in 1 .. m : i < k /\ q[k] \in T BY <1>1, <1>3, <2>1, <3>1 DEF Followed
      <4>2. k \in 1 .. m + n /\ s[k] = q[k] BY <1>1
      <4> QED BY <4>1, <4>2
    <3>2. CASE ~NoneOf(r, T)
      <4>1. PICK k \in 1 .. n : r[k] \in T BY <1>1, <3>2 DEF NoneOf
      <4>2. m + k \in 1 .. m + n /\ s[m + k] = r[k] /\ i < m + k BY <1>1, <2>1
      <4> QED BY <4>1, <4>2
    <3> QED BY <3>1, <3>2
  <2>2. CASE i \notin 1 .. m
    <3>1. i - m \in 1 .. n /\ s[i] = r[i - m] BY <1>1, <1>2, <2>2
    <3>2. PICK k \in 1 .. n : i - m < k /\ r[k] \in T BY <1>1, <1>3, <3>1 DEF Followed
    <3>3. m + k \in 1 .. m + n /\ s[m + k] = r[k] /\ i < m + k BY <1>1, <3>2
    <3> QED BY <3>2, <3>3
  <2> QED BY <2>1, <2>2
<1> QED BY <1>1, <1>3 DEF Followed, s

\* An empty queue and one of a single event.
LEMMA NoEvents ==
    ASSUME NEW V, NEW S, NEW T
    PROVE  <<>> \in Seq(V) /\ NoneOf(<<>>, S) /\ Ordered(<<>>, S, T) /\ Followed(<<>>, S, T)
BY EmptySeq DEF NoneOf, Ordered, Followed

\* A queue of a single event is in any order, and nothing follows its event.
LEMMA OneEvent ==
    ASSUME NEW V, NEW a \in V, NEW S, NEW T
    PROVE  /\ <<a>> \in Seq(V) /\ (NoneOf(<<a>>, S) <=> a \notin S) /\ Ordered(<<a>>, S, T)
           /\ Followed(<<a>>, S, T) <=> a \notin S
<1>1. <<a>> \in Seq(V) /\ DOMAIN <<a>> = 1 .. 1 /\ <<a>>[1] = a OBVIOUS
<1> DEFINE q == <<a>>
<1> HIDE DEF q
<1>2. q \in Seq(V) /\ DOMAIN q = 1 .. 1 /\ q[1] = a BY <1>1 DEF q
<1>3. \A i \in 1 .. 1 : i = 1 OBVIOUS
<1>4. ~(1 < 1) /\ 1 \in 1 .. 1 OBVIOUS
<1> QED BY <1>2, <1>3, <1>4 DEF NoneOf, Ordered, Followed, q

\* An event is appended.
LEMMA AddNone ==
    ASSUME NEW V, NEW q \in Seq(V), NEW a \in V, NEW S
    PROVE  /\ Append(q, a) \in Seq(V) /\ Append(q, a) = q \o <<a>>
           /\ NoneOf(Append(q, a), S) <=> NoneOf(q, S) /\ a \notin S
<1>1. Append(q, a) = q \o <<a>> /\ <<a>> \in Seq(V) BY AppendIsConcat, OneEvent
<1>2. Append(q, a) \in Seq(V) BY AppendProperties
<1>3. NoneOf(q \o <<a>>, S) <=> NoneOf(q, S) /\ a \notin S BY <1>1, JoinNone, OneEvent
<1> QED BY <1>1, <1>2, <1>3

\* An order survives a new event that may come last.
LEMMA AddOrdered ==
    ASSUME NEW V, NEW q \in Seq(V), NEW a \in V, NEW S, NEW T,
           Ordered(q, S, T), NoneOf(q, S) \/ a \notin T
    PROVE  Ordered(q \o <<a>>, S, T)
BY OneEvent, JoinOrdered

\* A new event that needs no follower leaves the promises, and may keep one.
LEMMA AddFollowed ==
    ASSUME NEW V, NEW q \in Seq(V), NEW a \in V, NEW S, NEW T, a \notin S,
           Followed(q, S, T) \/ a \in T
    PROVE  Followed(q \o <<a>>, S, T)
BY OneEvent, JoinFollowed

\* None of a set is none of a smaller one, and then nothing has to follow.
LEMMA FewerNone ==
    ASSUME NEW q, NEW S, NEW T, S \subseteq T, NoneOf(q, T)
    PROVE  NoneOf(q, S) BY DEF NoneOf

\* Where no event is, none is out of order and none waits for a follower.
LEMMA NoneFollowed ==
    ASSUME NEW q, NEW S, NEW T, NoneOf(q, S)
    PROVE  Followed(q, S, T) /\ Ordered(q, S, T) BY DEF NoneOf, Followed, Ordered

----
(* Events and types. *)

All == Kinds \cup Ops
From(n) == {k \in Nat : k >= n}
Requests(ops, ids) == [op : ops, id : ids]
Answers(types, ids) == [type : types, id : ids]
Links(ops, gens) == [op : ops, gen : gens]
Reports(types, gens) == [type : types, gen : gens]

\* Operations and kinds of requests are not mixed up with each other or with links.
LEMMA Names ==
    /\ "tool" \in Kinds /\ "size" \in Kinds /\ Kinds \subseteq All /\ Ops \subseteq All
    /\ "tool" \notin Ops /\ "size" \notin Ops
    /\ \A o \in All : o \notin {"connect", "disconnect", "up", "down"}
    /\ NoJob \in Jobs /\ NoJob.kind = "size" /\ NoJob.id = 0
    /\ MaxRequests \in Nat /\ MaxConnections \in Nat
  BY OpAssumption, BoundAssumption DEF All, Kinds, NoJob, Jobs

\* The events of the two queues.
LEMMA EventKinds ==
    /\ \A o \in All, n \in Nat : [op |-> o, id |-> n] \in WorkerEvents /\ [type |-> o, id |-> n] \in GuiEvents
    /\ \A o \in {"connect", "disconnect"}, n \in Nat : [op |-> o, gen |-> n] \in WorkerEvents
    /\ \A o \in {"up", "down"}, n \in Nat : [type |-> o, gen |-> n] \in GuiEvents
    /\ \A e \in WorkerEvents : e.op \in All => e \in [op : All, id : Nat] /\ e.id \in Nat
    /\ \A e \in WorkerEvents : e.op \in {"connect", "disconnect"} => e \in [op : {"connect", "disconnect"}, gen : Nat] /\ e.gen \in Nat
    /\ \A e \in GuiEvents : e.type \in All => e \in [type : All, id : Nat] /\ e.id \in Nat
    /\ \A e \in GuiEvents : e.type \in {"up", "down"} => e \in [type : {"up", "down"}, gen : Nat] /\ e.gen \in Nat
  BY Names DEF WorkerEvents, GuiEvents, All

\* What the GUI thread takes from its queue.
LEMMA Delivered ==
    ASSUME TypeOK, NEW type, Deliver(type)
    PROVE  /\ toGui # <<>> /\ toGui' = Tail(toGui) /\ toGui' \in Seq(GuiEvents)
           /\ Head(toGui) \in GuiEvents /\ Head(toGui).type = type
BY FirstAndRest DEF TypeOK, Deliver

\* What the worker takes from its queue.
LEMMA Taken ==
    ASSUME TypeOK, NEW op, Take(op)
    PROVE  /\ toWorker # <<>> /\ toWorker' = Tail(toWorker) /\ toWorker' \in Seq(WorkerEvents)
           /\ Head(toWorker) \in WorkerEvents /\ Head(toWorker).op = op
BY FirstAndRest DEF TypeOK, Take

\* What the worker sends is made of events.
LEMMA SentTyped ==
    ASSUME TypeOK
    PROVE  /\ Interrupted \in Seq(GuiEvents) /\ \A type \in {"up", "down"} : Report(type) \in Seq(GuiEvents)
           /\ \A j \in Jobs : Finished(j) \in Seq(GuiEvents) /\ Answer(j.kind, j.id) \in Seq(GuiEvents)
           /\ \A o \in Ops, n \in Nat : Answer(o, n) \in Seq(GuiEvents)
           /\ <<>> \in Seq(GuiEvents)
<1>1. \A o \in All, n \in Nat : Answer(o, n) \in Seq(GuiEvents)
  <2> TAKE o \in All, n \in Nat
  <2>1. [type |-> o, id |-> n] \in GuiEvents BY EventKinds
  <2> QED BY <2>1, OneEvent DEF Answer
<1>2. ASSUME NEW type \in {"up", "down"} PROVE Report(type) \in Seq(GuiEvents)
  BY EventKinds, OneEvent DEF TypeOK, Report
<1>3. <<>> \in Seq(GuiEvents) BY NoEvents
<1>4. ASSUME NEW j \in Jobs PROVE Finished(j) \in Seq(GuiEvents) /\ Answer(j.kind, j.id) \in Seq(GuiEvents)
  BY <1>1, <1>3, Names DEF Jobs, Finished
<1>5. Interrupted \in Seq(GuiEvents) BY <1>1, <1>3, Names DEF TypeOK, Jobs, Interrupted
<1> QED BY <1>1, <1>2, <1>3, <1>4, <1>5, Names

\* Whatever the worker sends, its queue holds events.
LEMMA SendsTyped ==
    ASSUME TypeOK
    PROVE  \A r \in Seq(GuiEvents) : toGui \o r \in Seq(GuiEvents) BY ConcatProperties DEF TypeOK

\* What disconnectFromHost posts is made of events.
LEMMA PostedTyped ==
    ASSUME toolReq' \in Nat, toWorker \in Seq(WorkerEvents)
    PROVE  /\ Requested \in Seq(WorkerEvents) /\ Teardown \in Seq(WorkerEvents)
           /\ toWorker \o Requested \in Seq(WorkerEvents) /\ toWorker \o Teardown \in Seq(WorkerEvents)
           /\ \A g \in Nat : toWorker \o Teardown \o <<[op |-> "connect", gen |-> g]>> \in Seq(WorkerEvents)
<1> DEFINE t == [op |-> "tool", id |-> toolReq']  d == [op |-> "disconnect", gen |-> 0]
<1>0. "tool" \in All /\ "disconnect" \in {"connect", "disconnect"} /\ 0 \in Nat BY Names
<1>1. t \in WorkerEvents /\ d \in WorkerEvents BY <1>0, EventKinds
<1> HIDE DEF t, d
<1>2. <<t>> \in Seq(WorkerEvents) /\ <<d>> \in Seq(WorkerEvents) /\ <<>> \in Seq(WorkerEvents)
  BY <1>1, OneEvent, NoEvents
<1>3. Requested \in Seq(WorkerEvents) BY <1>2 DEF Requested, t
<1>4. Teardown \in Seq(WorkerEvents) BY <1>2, <1>3, ConcatProperties DEF Teardown, d
<1>5. toWorker \o Requested \in Seq(WorkerEvents) /\ toWorker \o Teardown \in Seq(WorkerEvents)
  BY <1>3, <1>4, ConcatProperties
<1>6. ASSUME NEW g \in Nat PROVE toWorker \o Teardown \o <<[op |-> "connect", gen |-> g]>> \in Seq(WorkerEvents)
  <2> DEFINE c == [op |-> "connect", gen |-> g]
  <2>1. c \in WorkerEvents BY EventKinds
  <2> HIDE DEF c
  <2>2. <<c>> \in Seq(WorkerEvents) BY <2>1, OneEvent
  <2>3. (toWorker \o Teardown) \o <<c>> \in Seq(WorkerEvents) BY <1>5, <2>2, ConcatProperties
  <2> QED BY <2>3 DEF c
<1> QED BY <1>3, <1>4, <1>5, <1>6

\* The end of a tool in the GUI thread keeps the types of what it changes.
LEMMA AnsweredTyped ==
    ASSUME TypeOK, ToolAnswered \/ UNCHANGED <<toolReq, lastId, windows>>
    PROVE  /\ lastId' \in 0 .. MaxRequests /\ toolReq' \in Nat /\ held' \in [Windows -> Nat]
           /\ refreshAfter' \in BOOLEAN /\ cancelRequested' \in BOOLEAN
<1>1. CASE ToolAnswered
  <2>1. lastId' = lastId \/ (lastId' = lastId + 1 /\ lastId < MaxRequests) BY <1>1 DEF ToolAnswered, SlotFree
  <2>2. lastId' \in 0 .. MaxRequests BY <2>1, Names DEF TypeOK
  <2>3. toolReq' = lastId' \/ toolReq' = 0 BY <1>1 DEF ToolAnswered
  <2>4. toolReq' \in Nat BY <2>2, <2>3, Names
  <2>5. held' \in [Windows -> Nat] BY <1>1, <2>4 DEF ToolAnswered, TypeOK
  <2> QED BY <1>1, <2>2, <2>4, <2>5 DEF ToolAnswered
<1>2. CASE UNCHANGED <<toolReq, lastId, windows>> BY <1>2 DEF TypeOK, windows
<1> QED BY <1>1, <1>2

\* The types hold at the start.
LEMMA TypeInit == Init => TypeOK
<1> SUFFICES ASSUME Init PROVE TypeOK OBVIOUS
<1>1. toWorker \in Seq(WorkerEvents) /\ toGui \in Seq(GuiEvents) BY NoEvents DEF Init
<1>2. lastId \in 0 .. MaxRequests BY Names DEF Init
<1> QED BY <1>1, <1>2, Names DEF Init, TypeOK, Phases

\* A new request is a new id and an event.
LEMMA SendTyped ==
    ASSUME TypeOK, NEW o \in All, lastId < MaxRequests, lastId' = lastId + 1,
           Send([op |-> o, id |-> lastId'])
    PROVE  lastId' \in 0 .. MaxRequests /\ lastId' \in Nat /\ toWorker' \in Seq(WorkerEvents)
<1>1. lastId' \in 0 .. MaxRequests /\ lastId' \in Nat BY Names DEF TypeOK
<1> DEFINE e == [op |-> o, id |-> lastId']
<1>2. e \in WorkerEvents BY <1>1, EventKinds
<1>3. toWorker' = Append(toWorker, e) BY DEF Send
<1> HIDE DEF e
<1>4. toWorker' \in Seq(WorkerEvents) BY <1>2, <1>3, AppendProperties DEF TypeOK
<1> QED BY <1>1, <1>4

\* The user keeps the types.
LEMMA TypeUser == ASSUME TypeOK, UserStep PROVE TypeOK'
<1> USE DEF windows, link, channel, worker
<1>1. ASSUME NEW w \in Windows, RunTool(w) PROVE TypeOK' BY <1>1, SendTyped, Names DEF RunTool, SlotFree, TypeOK
<1>2. CASE CalculateSize BY <1>2, SendTyped, Names DEF CalculateSize, TypeOK
<1>3. CASE CancelSize BY <1>3 DEF CancelSize, TypeOK
<1>4. ASSUME NEW o \in Ops, Ask(o) PROVE TypeOK' BY <1>4, SendTyped, Names DEF Ask, TypeOK
<1>5. CASE CancelTask \/ SwitchTab \/ HideTools \/ HideInstall \/ StopAgent
  <2>1. CancelTool /\ refreshAfter' \in BOOLEAN /\ cancelRequested' \in BOOLEAN
    BY <1>5 DEF CancelTask, SwitchTab, HideTools, HideInstall, StopAgent, TypeOK
  <2> QED BY <2>1 DEF CancelTool, TypeOK
<1>6. ASSUME EndConnection
      PROVE  /\ lastId' \in 0 .. MaxRequests /\ toolReq' \in Nat /\ held' \in [Windows -> Nat]
             /\ refreshAfter' \in BOOLEAN /\ cancelRequested' \in BOOLEAN /\ sizeReq' \in Nat
             /\ asked' \in [Ops -> Nat] /\ desired' \in Nat /\ up' \in BOOLEAN /\ wgen' \in Nat /\ agent' \in BOOLEAN
  <2>1. ToolAnswered \/ UNCHANGED <<toolReq, lastId, windows>> BY <1>6 DEF EndConnection
  <2>2. /\ lastId' \in 0 .. MaxRequests /\ toolReq' \in Nat /\ held' \in [Windows -> Nat]
        /\ refreshAfter' \in BOOLEAN /\ cancelRequested' \in BOOLEAN BY <2>1, AnsweredTyped
  <2>3. sizeReq' = 0 /\ asked' = [o \in Ops |-> 0] /\ desired' = toolReq' /\ up' = FALSE /\ wgen' = wgen + 1 /\ agent' = agent
    BY <1>6 DEF EndConnection
  <2>4. agent \in BOOLEAN /\ wgen \in Nat BY DEF TypeOK
  <2>5. wgen' \in Nat BY <2>3, <2>4
  <2>6. asked' \in [Ops -> Nat] /\ sizeReq' \in Nat BY <2>3
  <2>7. up' \in BOOLEAN /\ agent' \in BOOLEAN BY <2>3, <2>4
  <2> QED BY <2>2, <2>3, <2>5, <2>6, <2>7
<1>7. CASE Disconnect BY <1>7, <1>6, PostedTyped DEF Disconnect, TypeOK
<1>8. CASE Connect BY <1>8, <1>6, PostedTyped DEF Connect, TypeOK
<1> QED BY <1>1, <1>2, <1>3, <1>4, <1>5, <1>7, <1>8 DEF UserStep

\* The GUI thread keeps the types.
LEMMA TypeGui == ASSUME TypeOK, GuiStep PROVE TypeOK'
<1> USE DEF windows, link, slot, channel, worker
<1>1. CASE HandleToolFinished BY <1>1, Delivered, AnsweredTyped, PostedTyped DEF HandleToolFinished, TypeOK
<1>2. CASE HandleSizeCalculated BY <1>2, Delivered DEF HandleSizeCalculated, TypeOK
<1>3. CASE HandleUp BY <1>3, Delivered DEF HandleUp, TypeOK
<1>4. CASE HandleDown
  <2>1. toGui' \in Seq(GuiEvents) BY <1>4, Delivered DEF HandleDown
  <2>2. \/ up' = FALSE /\ held' = [w \in Windows |-> IF w = "install" THEN 0 ELSE held[w]]
        \/ UNCHANGED <<up, held>> BY <1>4 DEF HandleDown
  <2>4. up \in BOOLEAN /\ held \in [Windows -> Nat] BY DEF TypeOK
  <2>5. \A w \in Windows : (IF w = "install" THEN 0 ELSE held[w]) \in Nat BY <2>4
  <2>6. held' \in [Windows -> Nat] BY <2>2, <2>4, <2>5
  <2>3. up' \in BOOLEAN /\ held' \in [Windows -> Nat] BY <2>2, <2>4, <2>6
  <2> QED BY <1>4, <2>1, <2>3 DEF HandleDown, TypeOK
<1>5. ASSUME NEW o \in Ops, HandleOpDone(o) PROVE TypeOK' BY <1>5, Delivered DEF HandleOpDone, TypeOK
<1> QED BY <1>1, <1>2, <1>3, <1>4, <1>5 DEF GuiStep

\* Start, with the job it may start.
LEMMA StartTyped ==
    ASSUME TypeOK, ~Running, NEW j \in Jobs, Start(j)
    PROVE  /\ phase' \in Phases /\ job' \in Jobs /\ pending' \in Jobs /\ stopSent' \in BOOLEAN
           /\ clock' \in {"fresh", "late", "dead"} /\ (phase' = "idle" => job' = NoJob)
           /\ toGui' \in Seq(GuiEvents)
BY Names, SentTyped, SendsTyped DEF Start, TypeOK, Phases

\* The worker thread keeps the types.
LEMMA TypeWorker == ASSUME TypeOK, WorkerStep PROVE TypeOK'
<1> USE DEF windows, link, slot, channel, gui
<1>1. CASE WorkerConnects
  <2>1. /\ toWorker' \in Seq(WorkerEvents) /\ wactive' \in Nat BY <1>1, Taken, EventKinds DEF WorkerConnects
  <2>2. toGui' \in Seq(GuiEvents)
    <3>1. \/ toGui' = toGui \o Interrupted
          \/ \E type \in {"up", "down"} : toGui' = toGui \o Interrupted \o <<[type |-> type, gen |-> wactive']>>
      BY <1>1 DEF WorkerConnects
    <3>2. toGui \o Interrupted \in Seq(GuiEvents) BY SentTyped, ConcatProperties DEF TypeOK
    <3>3. ASSUME NEW type \in {"up", "down"}
          PROVE  (toGui \o Interrupted) \o <<[type |-> type, gen |-> wactive']>> \in Seq(GuiEvents)
      <4> DEFINE e == [type |-> type, gen |-> wactive']
      <4>1. e \in GuiEvents BY <2>1, EventKinds
      <4> HIDE DEF e
      <4>2. <<e>> \in Seq(GuiEvents) BY <4>1, OneEvent
      <4>3. (toGui \o Interrupted) \o <<e>> \in Seq(GuiEvents) BY <3>2, <4>2, ConcatProperties
      <4> QED BY <4>3 DEF e
    <3> QED BY <3>1, <3>2, <3>3
  <2>3. phase' = "idle" /\ job' = NoJob /\ pending' = NoJob /\ silent' = FALSE /\ UNCHANGED <<gui, stopSent, clock, deferred>>
    BY <1>1 DEF WorkerConnects
  <2>4. wup' \in BOOLEAN BY <1>1 DEF WorkerConnects
  <2> QED BY <2>1, <2>2, <2>3, <2>4, Names DEF TypeOK, Phases
<1>2. CASE WorkerDisconnects
  BY <1>2, Taken, SentTyped, ConcatProperties, Names DEF WorkerDisconnects, TypeOK, Cleanup, Phases
<1>3. ASSUME NEW kind \in Kinds, Accept(kind) PROVE TypeOK'
  <2>1. /\ toWorker' \in Seq(WorkerEvents) /\ Head(toWorker).id \in Nat
    BY <1>3, Taken, Names, EventKinds DEF Accept
  <2> DEFINE j == [kind |-> kind, id |-> Head(toWorker).id]
  <2>2. j \in Jobs /\ j.kind = kind BY <2>1 DEF Jobs
  <2>3. UNCHANGED <<gui, wup, wactive, silent, deferred>> BY <1>3 DEF Accept
  <2>4. \/ UNCHANGED channel /\ (toGui' = toGui \/ toGui' = toGui \o Answer(j.kind, j.id))
        \/ pending' = j /\ UNCHANGED <<phase, job, stopSent, clock, toGui>>
        \/ ~Running /\ Start(j) BY <1>3, <2>2 DEF Accept
  <2> HIDE DEF j
  <2>5. CASE UNCHANGED channel /\ (toGui' = toGui \/ toGui' = toGui \o Answer(j.kind, j.id))
    BY <2>2, <2>5, <2>1, <2>3, SentTyped, SendsTyped DEF TypeOK
  <2>6. CASE pending' = j /\ UNCHANGED <<phase, job, stopSent, clock, toGui>>
    BY <2>1, <2>2, <2>3, <2>6 DEF TypeOK
  <2>7. CASE ~Running /\ Start(j) BY <2>1, <2>2, <2>3, <2>7, StartTyped DEF TypeOK
  <2> QED BY <2>4, <2>5, <2>6, <2>7
<1>4. CASE StartPending BY <1>4, StartTyped DEF StartPending, TypeOK
<1>5. CASE HardTimeout BY <1>5, SentTyped, ConcatProperties, Names DEF HardTimeout, IsTool, TypeOK, Cleanup, Phases
<1>6. CASE Advance
  <2>1. /\ UNCHANGED <<gui, wup, wactive, silent, deferred, pending, clock, toWorker>> BY <1>6 DEF Advance
  <2>2. \/ phase' \in Phases \ {"idle"} /\ job' = job /\ stopSent' \in BOOLEAN /\ toGui' = toGui
        \/ Finish BY <1>6 DEF Advance, TypeOK, Phases, Running
  <2>3. CASE Finish BY <2>3, <2>1, SentTyped, ConcatProperties, Names DEF TypeOK, Finish, Phases
  <2> QED BY <2>1, <2>2, <2>3 DEF TypeOK
<1>7. ASSUME NEW o \in Ops, TakeOp(o) PROVE TypeOK'
  <2>1. /\ toWorker' \in Seq(WorkerEvents) /\ Head(toWorker).id \in Nat
    BY <1>7, Taken, Names, EventKinds DEF TakeOp
  <2>2. UNCHANGED <<gui, wup, wactive, channel, silent>> BY <1>7 DEF TakeOp
  <2>5. toGui' = toGui \/ toGui' = toGui \o Answer(o, Head(toWorker).id) BY <1>7 DEF TakeOp
  <2>3. toGui' \in Seq(GuiEvents) BY <2>1, <2>5, SentTyped, SendsTyped DEF TypeOK
  <2>4. deferred' \subseteq [op : Ops, id : Nat, gen : Nat] BY <1>7, <2>1 DEF TakeOp, TypeOK
  <2> QED BY <2>1, <2>2, <2>3, <2>4 DEF TypeOK
<1>8. ASSUME NEW d \in deferred, Retry(d) PROVE TypeOK' BY <1>8, SentTyped, ConcatProperties DEF TypeOK, Retry
<1> QED BY <1>1, <1>2, <1>3, <1>4, <1>5, <1>6, <1>7, <1>8 DEF WorkerStep

\* The rest of the steps keeps the types.
LEMMA TypeRest == ASSUME TypeOK, Elapse \/ TransportLost \/ GoSilent \/ UNCHANGED vars PROVE TypeOK'
<1> USE DEF windows, link, slot, channel, gui, worker
<1>1. CASE TransportLost
  <2>1. \E r, s \in Seq(GuiEvents) : toGui' = (toGui \o r) \o s BY <1>1, SentTyped DEF TransportLost
  <2>2. toGui' \in Seq(GuiEvents) BY <2>1, ConcatProperties DEF TypeOK
  <2> QED BY <1>1, <2>2, Names DEF TransportLost, Cleanup, TypeOK, Phases
<1>2. CASE Elapse BY <1>2 DEF Elapse, TypeOK
<1>3. CASE GoSilent BY <1>3 DEF GoSilent, TypeOK
<1>4. CASE UNCHANGED vars BY <1>4 DEF vars, TypeOK
<1> QED BY <1>1, <1>2, <1>3, <1>4

\* Every step keeps the types.
LEMMA TypeStep == TypeOK /\ [Next]_vars => TypeOK' BY TypeUser, TypeGui, TypeWorker, TypeRest DEF Next

\* For any windows, operations, requests and connections every variable keeps
\* the shape the session and the worker declare for it.
THEOREM TypeCorrect == Spec => []TypeOK BY TypeInit, TypeStep, PTL DEF Spec

----
(* The inductive invariant. *)

Disconnects == Links({"disconnect"}, Nat)
AnyLink == Links({"connect", "disconnect"}, Nat)

\* The GUI thread alone: who owns the slot, what keeps it, which ids are out.
SlotKnown ==
    /\ HolderOwnsSlot
    /\ toolReq <= lastId /\ sizeReq <= lastId /\ \A o \in Ops : asked[o] <= lastId
    /\ toolReq # 0 => sizeReq = 0 /\ \A o \in Ops \ {"files"} : asked[o] = 0
    /\ sizeReq # 0 => desired = sizeReq

\* The worker has taken no requests but those up to m ...
HeldTo(m) ==
    /\ job.id <= m /\ pending.id <= m /\ \A d \in deferred : d.id \in 1 .. m
    /\ NoneOf(toGui, Answers(All, From(m + 1)))

\* ... and all of these: the others wait.
TakenTo(m) == HeldTo(m) /\ NoneOf(toWorker, Requests(All, 0 .. m))

\* Requests wait in the order of their ids, which are those given out.
InOrder(q, n) ==
    /\ NoneOf(q, Requests(All, From(n + 1)))
    /\ \A x \in 0 .. MaxRequests : Ordered(q, Requests(All, From(x)), Requests(All, 0 .. x))

\* The running request is older than the one that waits for the channel.
Numbered ==
    /\ InOrder(toWorker, lastId)
    /\ \E m \in 0 .. lastId : TakenTo(m)
    /\ Running => job.id # 0
    /\ pending # NoJob => pending.id # 0
    /\ job.id # 0 /\ pending.id # 0 => job.id < pending.id

\* At most one answer for a tool ...
ToolsOnce(q) == \A x \in 0 .. MaxRequests : Ordered(q, Answers({"tool"}, {x}), Answers({"tool"}, {x}))

\* ... and none for what is still to be answered.
AnsweredApart ==
    /\ ToolsOnce(toGui)
    /\ job.kind = "tool" => NoneOf(toGui, Answers({"tool"}, {job.id}))
    /\ pending.kind = "tool" => NoneOf(toGui, Answers({"tool"}, {pending.id}))
    /\ \A d \in deferred : NoneOf(toGui, Answers({d.op}, {d.id}))
    /\ \A d, e \in deferred : d.id = e.id => d = e

\* After every request but the one asked for comes the end of its connection.
OwnIn(q, o, asker) ==
    \A x \in 0 .. MaxRequests : asker = x \/ Followed(q, Requests({o}, {x}), Disconnects)

\* What the worker holds is what the session waits for, or of a connection
\* whose end is queued.
OwnRequests ==
    LET Ending == ~NoneOf(toWorker, Disconnects)
    IN  /\ OwnIn(toWorker, "tool", toolReq)
        /\ \A o \in Ops : OwnIn(toWorker, o, asked[o])
        /\ job.kind = "tool" => job.id = toolReq \/ Ending
        /\ pending.kind = "tool" => pending.id = toolReq \/ Ending
        /\ wup => \A d \in deferred : d.gen = wactive => asked[d.op] = d.id \/ Ending

\* A scan or a sample that has not run is older than the tool.
ToolIsLast ==
    toolReq # 0 => /\ NoneOf(toWorker, Requests(All \ {"tool", "files"}, From(toolReq)))
                   /\ pending.kind = "size" => pending.id < toolReq

\* Connects wait in the order of their generations, which the worker has not
\* seen, and nothing follows that of the session's own.
LinksIn(q, own, current, begun) ==
    /\ NoneOf(q, Links({"connect"}, 0 .. begun)) /\ NoneOf(q, Links({"connect"}, From(current + 1)))
    /\ \A g \in 1 .. current : Ordered(q, Links({"connect"}, From(g)), Links({"connect"}, 0 .. g))
    /\ own # 0 => Ordered(q, Links({"connect"}, {own}), AnyLink)
    /\ own # 0 /\ begun = own => NoneOf(q, AnyLink)

LinkKnown ==
    /\ Running => wup
    /\ tgen \in {0, wgen} /\ wactive \in 1 .. wgen
    /\ LinksIn(toWorker, tgen, wgen, wactive)
    /\ \A d \in deferred : d.gen <= wactive

\* The session is up only on a connection the worker has made, and if that is
\* lost the session will hear of it.
UpKnown ==
    /\ NoneOf(toGui, Reports({"up", "down"}, From(wactive + 1) \cup {0}))
    /\ tgen # 0 /\ wactive # tgen => ~up /\ toolReq = 0 /\ sizeReq = 0
    /\ tgen = 0 => ~up
    /\ Ordered(toGui, Reports({"up"}, {tgen}), Reports({"up"}, {tgen}))
    /\ NoneOf(toGui, Reports({"up"}, {tgen})) \/ (~up /\ toolReq = 0 /\ sizeReq = 0)
    /\ tgen # 0 /\ wactive = tgen /\ ~wup =>
          /\ up => ~NoneOf(toGui, Reports({"down"}, {tgen}))
          /\ Followed(toGui, Reports({"up"}, {tgen}), Reports({"down"}, {tgen}))

\* A request of the session is on its way, waits, runs or is answered.
Sighted(kind, id) ==
    \/ id = 0 \/ ~NoneOf(toWorker, Requests({kind}, {id}))
    \/ [kind |-> kind, id |-> id] \in {job, pending}
    \/ ~NoneOf(toGui, Answers({kind}, {id}))

InSight ==
    up /\ NoneOf(toGui, Reports({"down"}, {tgen})) => Sighted("tool", toolReq) /\ Sighted("size", sizeReq)

Agreement == SlotKnown /\ Numbered /\ AnsweredApart /\ OwnRequests /\ ToolIsLast /\ LinkKnown /\ UpKnown /\ InSight
IInv == TypeOK /\ Agreement

----
(* The GUI thread alone. *)

\* The other threads leave the GUI thread's state alone.
LEMMA GuiAlone == WorkerStep \/ Elapse \/ TransportLost \/ GoSilent \/ UNCHANGED vars => UNCHANGED gui
<1> USE DEF gui
<1>1. WorkerConnects \/ WorkerDisconnects \/ StartPending \/ HardTimeout \/ Advance => UNCHANGED gui
  BY DEF WorkerConnects, WorkerDisconnects, StartPending, HardTimeout, Advance
<1>2. \A kind \in Kinds : Accept(kind) => UNCHANGED gui BY DEF Accept
<1>3. \A o \in Ops : TakeOp(o) => UNCHANGED gui BY DEF TakeOp
<1>4. \A d \in deferred : Retry(d) => UNCHANGED gui BY DEF Retry
<1>5. Elapse \/ TransportLost \/ GoSilent \/ UNCHANGED vars => UNCHANGED gui
  BY DEF Elapse, TransportLost, GoSilent, vars
<1> QED BY <1>1, <1>2, <1>3, <1>4, <1>5 DEF WorkerStep

\* The end of a tool frees the slot, or hands it to a query of a session that
\* is up and idle, and the windows know.
LEMMA AnsweredEffects ==
    ASSUME TypeOK, HolderOwnsSlot, toolReq # 0, ToolAnswered
    PROVE  /\ \/ toolReq' = 0 /\ lastId' = lastId
              \/ /\ toolReq' = lastId + 1 /\ lastId' = lastId + 1 /\ lastId < MaxRequests
                 /\ up /\ sizeReq = 0 /\ \A o \in Ops : asked[o] = 0
           /\ \A w \in Windows : held'[w] \in {0, toolReq'}
<1> DEFINE shown == "tools" \in Windows /\ held["tools"] = toolReq
           again == shown /\ refreshAfter /\ ~cancelRequested /\ SlotFree
<1>1. /\ lastId' = IF again THEN lastId + 1 ELSE lastId
      /\ toolReq' = IF again THEN lastId' ELSE 0
      /\ held' = [w \in Windows |-> IF held[w] # toolReq THEN held[w]
                                    ELSE IF w = "tools" THEN toolReq' ELSE 0] BY DEF ToolAnswered
<1>2. again => lastId < MaxRequests /\ up /\ sizeReq = 0 /\ \A o \in Ops : asked[o] = 0 BY DEF SlotFree
<1> HIDE DEF again, shown
<1>3. \/ toolReq' = 0 /\ lastId' = lastId
      \/ toolReq' = lastId + 1 /\ lastId' = lastId + 1 /\ again BY <1>1
<1>4. \A w \in Windows : held'[w] \in {0, toolReq'} BY <1>1 DEF HolderOwnsSlot
<1> QED BY <1>2, <1>3, <1>4

\* What disconnectFromHost does to the requests.
LEMMA EndEffects ==
    ASSUME TypeOK, HolderOwnsSlot, EndConnection
    PROVE  /\ \/ toolReq' = 0 /\ lastId' = lastId
              \/ toolReq' = lastId + 1 /\ lastId' = lastId + 1 /\ lastId < MaxRequests /\ up
           /\ \A w \in Windows : held'[w] \in {0, toolReq'}
           /\ sizeReq' = 0 /\ (\A o \in Ops : asked'[o] = 0) /\ desired' = toolReq' /\ up' = FALSE
           /\ wgen' = wgen + 1 /\ wgen \in Nat /\ wgen' \in Nat /\ lastId \in Nat /\ lastId' \in Nat /\ toolReq' \in Nat
<1>1. sizeReq' = 0 /\ asked' = [o \in Ops |-> 0] /\ desired' = toolReq' /\ up' = FALSE /\ wgen' = wgen + 1
  BY DEF EndConnection
<1>2. wgen \in Nat /\ wgen' \in Nat BY <1>1 DEF TypeOK
<1>3. lastId \in Nat BY Names DEF TypeOK
<1>4. CASE toolReq # 0 BY <1>1, <1>2, <1>3, <1>4, AnsweredEffects DEF EndConnection
<1>5. CASE toolReq = 0 BY <1>5, <1>1, <1>2, <1>3 DEF EndConnection, windows, HolderOwnsSlot
<1> QED BY <1>4, <1>5

\* The slot at the start.
LEMMA SlotInit == Init => SlotKnown
<1> SUFFICES ASSUME Init PROVE SlotKnown OBVIOUS
<1>1. HolderOwnsSlot BY DEF Init, HolderOwnsSlot
<1> QED BY <1>1 DEF Init, SlotKnown

\* Every step keeps the slot with its owner.
LEMMA SlotStep == ASSUME TypeOK, SlotKnown, [Next]_vars PROVE SlotKnown'
<1> USE DEF windows, link
<1>0. /\ lastId \in Nat /\ toolReq \in Nat /\ sizeReq \in Nat /\ held \in [Windows -> Nat] /\ asked \in [Ops -> Nat]
      /\ \A o \in Ops : asked[o] \in Nat BY Names DEF TypeOK
<1>1. ASSUME NEW w \in Windows, RunTool(w) PROVE SlotKnown'
  BY <1>1, <1>0 DEF RunTool, SlotFree, SlotKnown, HolderOwnsSlot
<1>2. CASE CalculateSize BY <1>2, <1>0 DEF CalculateSize, SlotKnown, HolderOwnsSlot
<1>3. CASE CancelSize BY <1>3, <1>0 DEF CancelSize, SlotKnown, HolderOwnsSlot
<1>4. ASSUME NEW o \in Ops, Ask(o) PROVE SlotKnown' BY <1>4, <1>0, OpAssumption DEF Ask, SlotKnown, HolderOwnsSlot
<1>5. CASE CancelTask \/ SwitchTab \/ HideTools \/ HideInstall \/ StopAgent
  <2>1. CancelTool BY <1>5 DEF CancelTask, SwitchTab, HideTools, HideInstall, StopAgent
  <2> QED BY <2>1 DEF CancelTool, SlotKnown, HolderOwnsSlot
<1>6. CASE Connect \/ Disconnect
  <2>1. EndConnection BY <1>6 DEF Connect, Disconnect
  <2>2. /\ \/ toolReq' = 0 /\ lastId' = lastId
           \/ toolReq' = lastId + 1 /\ lastId' = lastId + 1
        /\ (\A w \in Windows : held'[w] \in {0, toolReq'}) /\ sizeReq' = 0 /\ \A o \in Ops : asked'[o] = 0
    BY <2>1, EndEffects DEF SlotKnown
  <2> QED BY <1>0, <2>2 DEF SlotKnown, HolderOwnsSlot
<1>7. CASE HandleToolFinished
  <2>1. CASE UNCHANGED <<toolReq, lastId, windows, desired>>
    BY <1>7, <2>1 DEF HandleToolFinished, SlotKnown, HolderOwnsSlot
  <2>2. CASE ToolAnswered /\ toolReq # 0
    BY <2>2, <1>7, <1>0, AnsweredEffects DEF SlotKnown, HandleToolFinished, HolderOwnsSlot
  <2> QED BY <1>7, <2>1, <2>2 DEF HandleToolFinished
<1>8. CASE HandleSizeCalculated BY <1>8, <1>0 DEF HandleSizeCalculated, SlotKnown, HolderOwnsSlot
<1>9. CASE HandleUp BY <1>9 DEF HandleUp, SlotKnown, HolderOwnsSlot, slot
<1>10. CASE HandleDown BY <1>10 DEF HandleDown, slot, SlotKnown, HolderOwnsSlot
<1>11. ASSUME NEW o \in Ops, HandleOpDone(o) PROVE SlotKnown'
  BY <1>11, <1>0 DEF HandleOpDone, slot, SlotKnown, HolderOwnsSlot
<1>12. CASE UNCHANGED gui BY <1>12 DEF gui, slot, SlotKnown, HolderOwnsSlot
<1> QED BY <1>1, <1>2, <1>3, <1>4, <1>5, <1>6, <1>7, <1>8, <1>9, <1>10, <1>11, <1>12, GuiAlone
        DEF Next, UserStep, GuiStep

----
(* What is posted and what is taken. *)

\* Events are told apart by what they ask or say.
LEMMA Members ==
    /\ \A e \in WorkerEvents, X \in SUBSET All, Y \in SUBSET Nat :
          e \in Requests(X, Y) <=> e.op \in X /\ e.id \in Y
    /\ \A e \in WorkerEvents, X \in SUBSET {"connect", "disconnect"}, Y \in SUBSET Nat :
          e \in Links(X, Y) <=> e.op \in X /\ e.gen \in Y
    /\ \A e \in GuiEvents, X \in SUBSET All, Y \in SUBSET Nat :
          e \in Answers(X, Y) <=> e.type \in X /\ e.id \in Y
    /\ \A e \in GuiEvents, X \in SUBSET {"up", "down"}, Y \in SUBSET Nat :
          e \in Reports(X, Y) <=> e.type \in X /\ e.gen \in Y
<1>1. ASSUME NEW e \in WorkerEvents, NEW X \in SUBSET All, NEW Y \in SUBSET Nat
      PROVE  e \in Requests(X, Y) <=> e.op \in X /\ e.id \in Y BY EventKinds DEF Requests
<1>2. ASSUME NEW e \in WorkerEvents, NEW X \in SUBSET {"connect", "disconnect"}, NEW Y \in SUBSET Nat
      PROVE  e \in Links(X, Y) <=> e.op \in X /\ e.gen \in Y BY EventKinds DEF Links
<1>3. ASSUME NEW e \in GuiEvents, NEW X \in SUBSET All, NEW Y \in SUBSET Nat
      PROVE  e \in Answers(X, Y) <=> e.type \in X /\ e.id \in Y BY EventKinds DEF Answers
<1>4. ASSUME NEW e \in GuiEvents, NEW X \in SUBSET {"up", "down"}, NEW Y \in SUBSET Nat
      PROVE  e \in Reports(X, Y) <=> e.type \in X /\ e.gen \in Y BY EventKinds DEF Reports
<1> QED BY <1>1, <1>2, <1>3, <1>4

\* The numbers from n on are a set of numbers.
LEMMA FromIs == \A n \in Nat : From(n) \in SUBSET Nat /\ \A k \in Nat : k \in From(n) <=> k >= n BY DEF From

\* Nothing that asks for a request, or for the end or begin of a connection, is the other.
Link(e) == e \in WorkerEvents /\ e.op \in {"connect", "disconnect"}
Request(o, n) == [op |-> o, id |-> n]
Ending == [op |-> "disconnect", gen |-> 0]
Beginning(g) == [op |-> "connect", gen |-> g]

\* What a session posts for connections and for requests is not mixed up.
LEMMA PostedKinds ==
    /\ Link(Ending) /\ \A g \in Nat : Link(Beginning(g)) /\ Beginning(g).gen = g /\ Beginning(g).op = "connect"
    /\ Ending.op = "disconnect" /\ Ending \in Disconnects
    /\ \A o \in All, n \in Nat : Request(o, n) \in WorkerEvents /\ Request(o, n).op = o /\ Request(o, n).id = n
    /\ \A e : Link(e) => \A X \in SUBSET All, Y \in SUBSET Nat : e \notin Requests(X, Y)
    /\ \A o \in All, n \in Nat, X \in SUBSET {"connect", "disconnect"}, Y \in SUBSET Nat : Request(o, n) \notin Links(X, Y)
<1>1. Link(Ending) /\ Ending.op = "disconnect" /\ Ending \in Disconnects
  BY EventKinds DEF Link, Ending, Disconnects, Links
<1>2. \A g \in Nat : Link(Beginning(g)) /\ Beginning(g).gen = g /\ Beginning(g).op = "connect"
  BY EventKinds DEF Link, Beginning
<1>3. \A o \in All, n \in Nat : Request(o, n) \in WorkerEvents /\ Request(o, n).op = o /\ Request(o, n).id = n
  BY EventKinds DEF Request
<1>4. ASSUME NEW e, Link(e), NEW X \in SUBSET All, NEW Y \in SUBSET Nat PROVE e \notin Requests(X, Y)
  BY <1>4, Names, Members DEF Link
<1>5. ASSUME NEW o \in All, NEW n \in Nat, NEW X \in SUBSET {"connect", "disconnect"}, NEW Y \in SUBSET Nat
      PROVE Request(o, n) \notin Links(X, Y)
  <2>2. o \notin X BY Names
  <2>1. Request(o, n) \in WorkerEvents /\ Request(o, n).op \notin X BY <1>3, <2>2
  <2> QED BY <2>1, Members
<1> QED BY <1>1, <1>2, <1>3, <1>4, <1>5

\* What a step of the GUI thread posts: a request with the next id or none ...
Asked(q) ==
    \/ q = toWorker /\ lastId' = lastId
    \/ /\ lastId' = lastId + 1 /\ lastId < MaxRequests
       /\ \E o \in All : q = toWorker \o <<Request(o, lastId + 1)>>

\* ... and the end of a connection, the begin of another, or neither.
Ended(q) ==
    \/ toWorker' = q /\ UNCHANGED <<tgen, wgen>>
    \/ toWorker' = q \o <<Ending>> /\ tgen' = 0 /\ wgen' = wgen + 1
    \/ toWorker' = (q \o <<Ending>>) \o <<Beginning(wgen')>> /\ tgen' = wgen' /\ wgen' = wgen + 1 /\ ~up

\* The queue a query of the server tools leaves.
Queried == IF toolReq' = 0 THEN toWorker ELSE toWorker \o <<Request("tool", toolReq')>>

\* The queue after a query of the server tools, and after a teardown.
LEMMA PostedForm ==
    ASSUME TypeOK, toolReq' \in Nat
    PROVE  /\ Queried \in Seq(WorkerEvents)
           /\ toWorker \o Requested = Queried /\ toWorker \o Teardown = Queried \o <<Ending>>
<1>1. toWorker \in Seq(WorkerEvents) BY DEF TypeOK
<1>2. toWorker \o Requested = Queried /\ Queried \in Seq(WorkerEvents)
  BY <1>1, ConcatEmptySeq, PostedTyped, ConcatProperties DEF Requested, Queried, Request, TypeOK
<1>3. Requested \in Seq(WorkerEvents) BY PostedTyped DEF TypeOK
<1>4. <<Ending>> \in Seq(WorkerEvents) BY PostedKinds, OneEvent DEF Link
<1>5. Teardown = Requested \o <<Ending>> BY DEF Teardown, Ending
<1>6. toWorker \o (Requested \o <<Ending>>) = (toWorker \o Requested) \o <<Ending>>
  BY <1>1, <1>3, <1>4, ConcatAssociative
<1> QED BY <1>2, <1>5, <1>6

\* Every step of the GUI thread posts in this form.
LEMMA GuiPosts ==
    ASSUME TypeOK, SlotKnown, UserStep \/ GuiStep
    PROVE  /\ \E q \in Seq(WorkerEvents) : Asked(q) /\ Ended(q)
           /\ UNCHANGED worker /\ (toGui' = toGui \/ (toGui # <<>> /\ toGui' = Tail(toGui)))
           /\ toGui' # toGui => GuiStep
<1>0. toWorker \in Seq(WorkerEvents) BY DEF TypeOK
<1>1. ASSUME NEW o \in All, lastId < MaxRequests, lastId' = lastId + 1, Send([op |-> o, id |-> lastId']),
             UNCHANGED <<tgen, wgen>>
      PROVE  \E q \in Seq(WorkerEvents) : Asked(q) /\ Ended(q)
  <2> DEFINE e == Request(o, lastId + 1)
  <2>1. e \in WorkerEvents BY Names, PostedKinds DEF TypeOK
  <2>2. toWorker' = Append(toWorker, e) BY <1>1 DEF Send, Request
  <2> HIDE DEF e
  <2>3. Append(toWorker, e) \in Seq(WorkerEvents) /\ Append(toWorker, e) = toWorker \o <<e>>
    BY <1>0, <2>1, AddNone
  <2>4. Asked(Append(toWorker, e)) BY <1>1, <2>3 DEF Asked, e
  <2> QED BY <1>1, <2>2, <2>3, <2>4 DEF Ended
<1>2. ASSUME UNCHANGED <<toWorker, lastId, tgen, wgen>> PROVE \E q \in Seq(WorkerEvents) : Asked(q) /\ Ended(q)
  BY <1>0, <1>2 DEF Asked, Ended
<1>3. ASSUME NEW w \in Windows, RunTool(w)
      PROVE  (\E q \in Seq(WorkerEvents) : Asked(q) /\ Ended(q)) /\ UNCHANGED <<worker, toGui>>
  BY <1>1, <1>3, Names DEF RunTool, SlotFree, link
<1>4. ASSUME CalculateSize
      PROVE  (\E q \in Seq(WorkerEvents) : Asked(q) /\ Ended(q)) /\ UNCHANGED <<worker, toGui>>
  BY <1>1, <1>4, Names DEF CalculateSize, link
<1>5. ASSUME NEW o \in Ops, Ask(o)
      PROVE  (\E q \in Seq(WorkerEvents) : Asked(q) /\ Ended(q)) /\ UNCHANGED <<worker, toGui>>
  BY <1>1, <1>5, Names DEF Ask, link
<1>6. ASSUME CancelSize \/ CancelTask \/ SwitchTab \/ HideTools \/ HideInstall \/ StopAgent
      PROVE  UNCHANGED <<toWorker, lastId, worker, toGui, tgen, wgen>>
  BY <1>6 DEF CancelSize, CancelTask, SwitchTab, HideTools, HideInstall, StopAgent, CancelTool, link
<1>7. ASSUME \/ toolReq' = 0 /\ lastId' = lastId
             \/ toolReq' = lastId + 1 /\ lastId' = lastId + 1 /\ lastId < MaxRequests
      PROVE  toolReq' \in Nat /\ Asked(Queried)
  <2>1. lastId \in Nat BY Names DEF TypeOK
  <2>2. CASE toolReq' = 0 /\ lastId' = lastId BY <2>2 DEF Asked, Queried
  <2>3. CASE toolReq' = lastId + 1 /\ lastId' = lastId + 1 /\ lastId < MaxRequests
    BY <2>1, <2>3, Names DEF Asked, Queried
  <2> QED BY <1>7, <2>2, <2>3
<1>8. ASSUME Connect \/ Disconnect
      PROVE  (\E q \in Seq(WorkerEvents) : Asked(q) /\ Ended(q)) /\ UNCHANGED <<worker, toGui>>
  BY <1>8, <1>7, EndEffects, PostedForm DEF Connect, Disconnect, SlotKnown, EndConnection, Ended, Beginning
<1>9. ASSUME HandleToolFinished
      PROVE  (\E q \in Seq(WorkerEvents) : Asked(q) /\ Ended(q)) /\ UNCHANGED worker
  BY <1>2, <1>9, <1>7, AnsweredEffects, PostedForm DEF HandleToolFinished, link, SlotKnown, Ended
<1>10. ASSUME HandleSizeCalculated \/ HandleUp \/ HandleDown \/ \E o \in Ops : HandleOpDone(o)
       PROVE  UNCHANGED <<toWorker, lastId, worker, tgen, wgen>>
  BY <1>10 DEF HandleSizeCalculated, HandleUp, HandleDown, HandleOpDone, slot, link
<1>11. ASSUME GuiStep PROVE toGui # <<>> /\ toGui' = Tail(toGui)
  BY <1>11 DEF GuiStep, HandleToolFinished, HandleSizeCalculated, HandleUp, HandleDown, HandleOpDone, Deliver
<1>12. CASE UserStep BY <1>2, <1>3, <1>4, <1>5, <1>6, <1>8, <1>12 DEF UserStep
<1>13. CASE GuiStep BY <1>2, <1>9, <1>10, <1>11, <1>13 DEF GuiStep
<1> QED BY <1>12, <1>13

----
(* The order of the requests. *)

\* A queue of requests in order stays so when the next one is posted, when a
\* link is, and when the first event is taken.
LEMMA InOrderAsked ==
    ASSUME TypeOK, InOrder(toWorker, lastId), NEW q, Asked(q)
    PROVE  /\ q \in Seq(WorkerEvents) /\ InOrder(q, lastId') /\ lastId \in Nat /\ lastId' \in lastId .. MaxRequests
           /\ \A m \in 0 .. lastId : NoneOf(toWorker, Requests(All, 0 .. m)) => NoneOf(q, Requests(All, 0 .. m))
<1>0. toWorker \in Seq(WorkerEvents) /\ lastId \in Nat /\ lastId \in 0 .. MaxRequests BY Names DEF TypeOK
<1>1. CASE q = toWorker /\ lastId' = lastId BY <1>0, <1>1, Names
<1>2. ASSUME NEW o \in All, q = toWorker \o <<Request(o, lastId + 1)>>, lastId' = lastId + 1, lastId < MaxRequests
      PROVE  /\ q \in Seq(WorkerEvents) /\ InOrder(q, lastId') /\ lastId' \in lastId .. MaxRequests
             /\ \A m \in 0 .. lastId : NoneOf(toWorker, Requests(All, 0 .. m)) => NoneOf(q, Requests(All, 0 .. m))
  <2> DEFINE n == lastId  e == Request(o, lastId + 1)
  <2>1. e \in WorkerEvents /\ e.op = o /\ e.id = n + 1 BY <1>0, PostedKinds
  <2>2. n \in Nat /\ n + 1 \in Nat /\ n + 1 \in n .. MaxRequests BY <1>0, <1>2, Names
  <2>3. toWorker \o <<e>> = q BY <1>2
  <2> HIDE DEF n, e
  <2>4. ASSUME NEW S PROVE NoneOf(q, S) <=> NoneOf(toWorker, S) /\ e \notin S
    <3>1. Append(toWorker, e) = q BY <1>0, <2>1, <2>3, AddNone
    <3> QED BY <1>0, <2>1, <3>1, AddNone
  <2>5. q \in Seq(WorkerEvents) BY <1>0, <2>1, <2>3, AddNone
  <2>6. \A Y \in SUBSET Nat : e \in Requests(All, Y) <=> n + 1 \in Y BY <2>1, Members
  <2>7. NoneOf(toWorker, Requests(All, From(n + 1))) BY DEF InOrder, n
  <2>8. ASSUME NEW x \in Nat, x > n PROVE NoneOf(toWorker, Requests(All, From(x)))
    <3>1. From(x) \subseteq From(n + 1) BY <2>2, <2>8 DEF From
    <3>2. Requests(All, From(x)) \subseteq Requests(All, From(n + 1)) BY <3>1 DEF Requests
    <3> QED BY <2>7, <3>2, FewerNone
  <2>9. NoneOf(q, Requests(All, From((n + 1) + 1))) BY <2>2, <2>4, <2>6, <2>8, FromIs
  <2>10. ASSUME NEW x \in 0 .. MaxRequests PROVE Ordered(q, Requests(All, From(x)), Requests(All, 0 .. x))
    <3>1. Ordered(toWorker, Requests(All, From(x)), Requests(All, 0 .. x)) BY DEF InOrder
    <3>2. x \in Nat /\ 0 .. x \in SUBSET Nat /\ (n + 1 \in 0 .. x <=> n + 1 <= x) BY <2>2, Names
    <3>3. NoneOf(toWorker, Requests(All, From(x))) \/ e \notin Requests(All, 0 .. x) BY <2>2, <2>8, <3>2, <2>6
    <3> QED BY <1>0, <2>1, <2>3, <3>1, <3>3, AddOrdered
  <2>11. ASSUME NEW m \in 0 .. n, NoneOf(toWorker, Requests(All, 0 .. m)) PROVE NoneOf(q, Requests(All, 0 .. m))
    BY <2>2, <2>4, <2>6, <2>11
  <2> QED BY <1>2, <2>2, <2>5, <2>9, <2>10, <2>11 DEF InOrder, n
<1> QED BY <1>0, <1>1, <1>2 DEF Asked

\* An opening or an ending of a connection leaves the requests in order.
LEMMA InOrderLink ==
    ASSUME NEW q \in Seq(WorkerEvents), NEW e, Link(e), NEW n \in Nat
    PROVE  /\ q \o <<e>> \in Seq(WorkerEvents) /\ (InOrder(q, n) => InOrder(q \o <<e>>, n))
           /\ \A Y \in SUBSET Nat : NoneOf(q, Requests(All, Y)) => NoneOf(q \o <<e>>, Requests(All, Y))
<1>1. e \in WorkerEvents BY DEF Link
<1>2. \A Y \in SUBSET Nat : e \notin Requests(All, Y) BY PostedKinds
<1> DEFINE p == Append(q, e)
<1>7. p \in Seq(WorkerEvents) /\ p = q \o <<e>> BY <1>1, AddNone
<1>8. ASSUME NEW S PROVE NoneOf(p, S) <=> NoneOf(q, S) /\ e \notin S BY <1>1, AddNone
<1> HIDE DEF p
<1>3. q \o <<e>> \in Seq(WorkerEvents) /\ \A S : NoneOf(q \o <<e>>, S) <=> NoneOf(q, S) /\ e \notin S
  BY <1>7, <1>8
<1>4. \A Y \in SUBSET Nat : NoneOf(q, Requests(All, Y)) => NoneOf(q \o <<e>>, Requests(All, Y)) BY <1>2, <1>3
<1>5. ASSUME NEW x \in 0 .. MaxRequests, Ordered(q, Requests(All, From(x)), Requests(All, 0 .. x))
      PROVE  Ordered(q \o <<e>>, Requests(All, From(x)), Requests(All, 0 .. x))
  BY <1>2, <1>1, <1>5, Names, AddOrdered
<1>6. From(n + 1) \in SUBSET Nat BY FromIs
<1> QED BY <1>3, <1>4, <1>5, <1>6 DEF InOrder

\* So do an ending and the opening that may follow it at once.
LEMMA InOrderEnded ==
    ASSUME NEW q \in Seq(WorkerEvents), Ended(q), NEW n \in Nat, wgen' \in Nat
    PROVE  /\ toWorker' \in Seq(WorkerEvents) /\ (InOrder(q, n) => InOrder(toWorker', n))
           /\ \A Y \in SUBSET Nat : NoneOf(q, Requests(All, Y)) => NoneOf(toWorker', Requests(All, Y))
<1>1. Link(Ending) /\ Link(Beginning(wgen')) BY PostedKinds
<1> DEFINE p == q \o <<Ending>>
<1>2. p \in Seq(WorkerEvents) /\ (InOrder(q, n) => InOrder(p, n))
      /\ \A Y \in SUBSET Nat : NoneOf(q, Requests(All, Y)) => NoneOf(p, Requests(All, Y)) BY <1>1, InOrderLink
<1>3. toWorker' = q \/ toWorker' = p \/ toWorker' = p \o <<Beginning(wgen')>> BY DEF Ended
<1> HIDE DEF p
<1>4. CASE toWorker' = p \o <<Beginning(wgen')>> BY <1>1, <1>2, <1>4, InOrderLink
<1>5. CASE toWorker' = q \/ toWorker' = p BY <1>2, <1>5
<1> QED BY <1>3, <1>4, <1>5

\* The first request of a queue in order is older than all that wait behind it.
LEMMA InOrderTaken ==
    ASSUME NEW q \in Seq(WorkerEvents), q # <<>>, NEW n \in 0 .. MaxRequests, InOrder(q, n)
    PROVE  /\ InOrder(Tail(q), n)
           /\ Head(q).op \in All =>
                 /\ Head(q).id \in 0 .. n /\ NoneOf(Tail(q), Requests(All, 0 .. Head(q).id))
                 /\ \A m \in Nat : NoneOf(q, Requests(All, 0 .. m)) => m < Head(q).id
<1> DEFINE h == Head(q)  t == Tail(q)
<1>1. h \in WorkerEvents BY FirstAndRest
<1>2. \A S : NoneOf(q, S) => h \notin S /\ NoneOf(t, S) BY TakeNone
<1>3. \A S, T : Ordered(q, S, T) => Ordered(t, S, T) /\ (h \in S => NoneOf(t, T)) BY TakeOrdered
<1>4. n \in Nat /\ n + 1 \in Nat BY Names
<1> HIDE DEF h, t
<1>5. InOrder(t, n) BY <1>2, <1>3 DEF InOrder
<1>6. ASSUME h.op \in All
      PROVE  /\ h.id \in 0 .. n /\ NoneOf(t, Requests(All, 0 .. h.id))
             /\ \A m \in Nat : NoneOf(q, Requests(All, 0 .. m)) => m < h.id
  <2>1. h.id \in Nat BY <1>1, <1>6, EventKinds
  <2>2. \A Y \in SUBSET Nat : h \in Requests(All, Y) <=> h.id \in Y BY <1>1, <1>6, Members
  <2>3. h \notin Requests(All, From(n + 1)) BY <1>2 DEF InOrder
  <2>4. h.id \in 0 .. n BY <1>4, <2>1, <2>2, <2>3, FromIs
  <2>5. h.id \in 0 .. MaxRequests BY <1>4, <2>4, Names
  <2>6. Ordered(q, Requests(All, From(h.id)), Requests(All, 0 .. h.id)) BY <2>5 DEF InOrder
  <2>7. h \in Requests(All, From(h.id)) BY <2>1, <2>2, FromIs
  <2>8. ASSUME NEW m \in Nat, NoneOf(q, Requests(All, 0 .. m)) PROVE m < h.id BY <1>2, <2>8, <2>2, <2>1
  <2> QED BY <1>3, <2>4, <2>6, <2>7, <2>8
<1> QED BY <1>5, <1>6 DEF h, t

----
(* What the worker answers and reports. *)

\* A queue p holds the answers of q, or one more.
SameAnswers(q, p) ==
    \A X \in SUBSET All, Y \in SUBSET Nat :
        /\ NoneOf(p, Answers(X, Y)) <=> NoneOf(q, Answers(X, Y))
        /\ Ordered(q, Answers(X, Y), Answers(X, Y)) => Ordered(p, Answers(X, Y), Answers(X, Y))

OneMoreAnswer(q, p, t, i) ==
    \A X \in SUBSET All, Y \in SUBSET Nat :
        /\ NoneOf(p, Answers(X, Y)) <=> NoneOf(q, Answers(X, Y)) /\ ~(t \in X /\ i \in Y)
        /\ Ordered(q, Answers(X, Y), Answers(X, Y)) /\ (NoneOf(q, Answers(X, Y)) \/ ~(t \in X /\ i \in Y))
              => Ordered(p, Answers(X, Y), Answers(X, Y))

\* A queue p holds the reports of q, or one more.
SameReports(q, p) ==
    /\ \A X \in SUBSET {"up", "down"}, Y \in SUBSET Nat : NoneOf(p, Reports(X, Y)) <=> NoneOf(q, Reports(X, Y))
    /\ \A X, Z \in SUBSET {"up", "down"}, Y \in SUBSET Nat :
          Ordered(q, Reports(X, Y), Reports(Z, Y)) => Ordered(p, Reports(X, Y), Reports(Z, Y))
    /\ \A X, Z \in SUBSET {"up", "down"}, Y \in SUBSET Nat :
          Followed(q, Reports(X, Y), Reports(Z, Y)) => Followed(p, Reports(X, Y), Reports(Z, Y))

OneMoreReport(q, p, t, g) ==
    /\ \A X \in SUBSET {"up", "down"}, Y \in SUBSET Nat :
          NoneOf(p, Reports(X, Y)) <=> NoneOf(q, Reports(X, Y)) /\ ~(t \in X /\ g \in Y)
    /\ \A X, Z \in SUBSET {"up", "down"}, Y \in SUBSET Nat :
          Ordered(q, Reports(X, Y), Reports(Z, Y)) /\ (NoneOf(q, Reports(X, Y)) \/ ~(t \in Z /\ g \in Y))
              => Ordered(p, Reports(X, Y), Reports(Z, Y))
    /\ \A X, Z \in SUBSET {"up", "down"}, Y \in SUBSET Nat :
          ~(t \in X /\ g \in Y) => /\ Followed(q, Reports(X, Y), Reports(Z, Y)) => Followed(p, Reports(X, Y), Reports(Z, Y))
                                   /\ t \in Z /\ g \in Y => Followed(p, Reports(X, Y), Reports(Z, Y))

\* An answer appended to the queue of the GUI is one more answer and no report.
LEMMA AnswerAdded ==
    ASSUME NEW q \in Seq(GuiEvents), NEW t \in All, NEW i \in Nat
    PROVE  /\ q \o Answer(t, i) \in Seq(GuiEvents)
           /\ OneMoreAnswer(q, q \o Answer(t, i), t, i) /\ SameReports(q, q \o Answer(t, i))
<1> DEFINE e == [type |-> t, id |-> i]  p == Append(q, e)
<1>1. e \in GuiEvents /\ e.type = t /\ e.id = i BY EventKinds
<1>2. q \o Answer(t, i) = q \o <<e>> BY DEF Answer
<1>9. e.type \notin {"up", "down"} BY Names
<1> HIDE DEF e
<1>3. p \in Seq(GuiEvents) /\ p = q \o <<e>> BY <1>1, AddNone
<1>4. ASSUME NEW S PROVE NoneOf(p, S) <=> NoneOf(q, S) /\ e \notin S BY <1>1, AddNone
<1>5. ASSUME NEW S, NEW T, Ordered(q, S, T), NoneOf(q, S) \/ e \notin T PROVE Ordered(p, S, T)
  BY <1>1, <1>3, <1>5, AddOrdered
<1>6. ASSUME NEW S, NEW T, Followed(q, S, T), e \notin S PROVE Followed(p, S, T)
  BY <1>1, <1>3, <1>6, AddFollowed
<1> HIDE DEF p
<1>7. \A X \in SUBSET All, Y \in SUBSET Nat : e \in Answers(X, Y) <=> t \in X /\ i \in Y BY <1>1, Members
<1>8. \A X \in SUBSET {"up", "down"}, Y \in SUBSET Nat : e \notin Reports(X, Y)
  <2> TAKE X \in SUBSET {"up", "down"}, Y \in SUBSET Nat
  <2>1. e.type \notin X BY <1>9
  <2> QED BY <1>1, <2>1, Members
<1>10. OneMoreAnswer(q, p, t, i) BY <1>4, <1>5, <1>7 DEF OneMoreAnswer
<1>11. SameReports(q, p) BY <1>4, <1>5, <1>6, <1>8 DEF SameReports
<1> QED BY <1>2, <1>3, <1>10, <1>11

\* A report appended to the queue of the GUI is one more report and no answer.
LEMMA ReportAdded ==
    ASSUME NEW q \in Seq(GuiEvents), NEW t \in {"up", "down"}, NEW g \in Nat
    PROVE  /\ q \o <<[type |-> t, gen |-> g]>> \in Seq(GuiEvents)
           /\ SameAnswers(q, q \o <<[type |-> t, gen |-> g]>>)
           /\ OneMoreReport(q, q \o <<[type |-> t, gen |-> g]>>, t, g)
<1> DEFINE e == [type |-> t, gen |-> g]  p == Append(q, e)
<1>1. e \in GuiEvents /\ e.type = t /\ e.gen = g BY EventKinds
<1>9. e.type \notin All BY Names
<1> HIDE DEF e
<1>3. p \in Seq(GuiEvents) /\ p = q \o <<e>> BY <1>1, AddNone
<1>4. ASSUME NEW S PROVE NoneOf(p, S) <=> NoneOf(q, S) /\ e \notin S BY <1>1, AddNone
<1>5. ASSUME NEW S, NEW T, Ordered(q, S, T), NoneOf(q, S) \/ e \notin T PROVE Ordered(p, S, T)
  BY <1>1, <1>3, <1>5, AddOrdered
<1>6. ASSUME NEW S, NEW T, Followed(q, S, T) \/ e \in T, e \notin S PROVE Followed(p, S, T)
  BY <1>1, <1>3, <1>6, AddFollowed
<1> HIDE DEF p
<1>7. \A X \in SUBSET {"up", "down"}, Y \in SUBSET Nat : e \in Reports(X, Y) <=> t \in X /\ g \in Y BY <1>1, Members
<1>8. \A X \in SUBSET All, Y \in SUBSET Nat : e \notin Answers(X, Y)
  <2> TAKE X \in SUBSET All, Y \in SUBSET Nat
  <2>1. e.type \notin X BY <1>9
  <2> QED BY <1>1, <2>1, Members
<1>10. SameAnswers(q, p) BY <1>4, <1>5, <1>8 DEF SameAnswers
<1>11. \A X \in SUBSET {"up", "down"}, Y \in SUBSET Nat :
          NoneOf(p, Reports(X, Y)) <=> NoneOf(q, Reports(X, Y)) /\ ~(t \in X /\ g \in Y) BY <1>4, <1>7
<1>12. \A X, Z \in SUBSET {"up", "down"}, Y \in SUBSET Nat :
          Ordered(q, Reports(X, Y), Reports(Z, Y)) /\ (NoneOf(q, Reports(X, Y)) \/ ~(t \in Z /\ g \in Y))
              => Ordered(p, Reports(X, Y), Reports(Z, Y)) BY <1>5, <1>7
<1>13. \A X, Z \in SUBSET {"up", "down"}, Y \in SUBSET Nat :
          ~(t \in X /\ g \in Y) => /\ Followed(q, Reports(X, Y), Reports(Z, Y)) => Followed(p, Reports(X, Y), Reports(Z, Y))
                                   /\ t \in Z /\ g \in Y => Followed(p, Reports(X, Y), Reports(Z, Y))
  <2> TAKE X, Z \in SUBSET {"up", "down"}, Y \in SUBSET Nat
  <2> HAVE ~(t \in X /\ g \in Y)
  <2> DEFINE S == Reports(X, Y)  T == Reports(Z, Y)
  <2>1. e \notin S /\ (t \in Z /\ g \in Y => e \in T) BY <1>7
  <2> HIDE DEF S, T
  <2>2. Followed(q, S, T) => Followed(p, S, T) BY <1>6, <2>1
  <2>3. e \in T => Followed(p, S, T) BY <1>6, <2>1
  <2> QED BY <2>1, <2>2, <2>3 DEF S, T
<1>14. OneMoreReport(q, p, t, g) BY <1>11, <1>12, <1>13 DEF OneMoreReport
<1> QED BY <1>3, <1>10, <1>14 DEF e

\* Nothing said, and one thing after another.
LEMMA Sayings ==
    /\ \A q : SameAnswers(q, q) /\ SameReports(q, q)
    /\ \A q, p, r, t, i : SameAnswers(q, p) /\ OneMoreAnswer(p, r, t, i) => OneMoreAnswer(q, r, t, i)
    /\ \A q, p, r, t, i : OneMoreAnswer(q, p, t, i) /\ SameAnswers(p, r) => OneMoreAnswer(q, r, t, i)
    /\ \A q, p, r : SameAnswers(q, p) /\ SameAnswers(p, r) => SameAnswers(q, r)
    /\ \A q, p, r, t, i : SameReports(q, p) /\ OneMoreReport(p, r, t, i) => OneMoreReport(q, r, t, i)
    /\ \A q, p, r, t, i : OneMoreReport(q, p, t, i) /\ SameReports(p, r) => OneMoreReport(q, r, t, i)
    /\ \A q, p, r : SameReports(q, p) /\ SameReports(p, r) => SameReports(q, r)
<1>1. \A q : SameAnswers(q, q) /\ SameReports(q, q) BY DEF SameAnswers, SameReports
<1>2. \A q, p, r, t, i : SameAnswers(q, p) /\ OneMoreAnswer(p, r, t, i) => OneMoreAnswer(q, r, t, i)
  BY DEF SameAnswers, OneMoreAnswer
<1>3. \A q, p, r, t, i : OneMoreAnswer(q, p, t, i) /\ SameAnswers(p, r) => OneMoreAnswer(q, r, t, i)
  BY DEF SameAnswers, OneMoreAnswer
<1>4. \A q, p, r : SameAnswers(q, p) /\ SameAnswers(p, r) => SameAnswers(q, r) BY DEF SameAnswers
<1>5. ASSUME NEW q, NEW p, NEW r, NEW t, NEW i, SameReports(q, p), OneMoreReport(p, r, t, i)
      PROVE  OneMoreReport(q, r, t, i)
  <2>1. ASSUME NEW X \in SUBSET {"up", "down"}, NEW Y \in SUBSET Nat, NEW Z \in SUBSET {"up", "down"}
        PROVE  /\ NoneOf(p, Reports(X, Y)) <=> NoneOf(q, Reports(X, Y))
               /\ Ordered(q, Reports(X, Y), Reports(Z, Y)) => Ordered(p, Reports(X, Y), Reports(Z, Y))
               /\ Followed(q, Reports(X, Y), Reports(Z, Y)) => Followed(p, Reports(X, Y), Reports(Z, Y))
    BY <1>5 DEF SameReports
  <2>2. ASSUME NEW X \in SUBSET {"up", "down"}, NEW Y \in SUBSET Nat, NEW Z \in SUBSET {"up", "down"}
        PROVE  /\ NoneOf(r, Reports(X, Y)) <=> NoneOf(p, Reports(X, Y)) /\ ~(t \in X /\ i \in Y)
               /\ Ordered(p, Reports(X, Y), Reports(Z, Y)) /\ (NoneOf(p, Reports(X, Y)) \/ ~(t \in Z /\ i \in Y))
                      => Ordered(r, Reports(X, Y), Reports(Z, Y))
               /\ ~(t \in X /\ i \in Y) =>
                     /\ Followed(p, Reports(X, Y), Reports(Z, Y)) => Followed(r, Reports(X, Y), Reports(Z, Y))
                     /\ t \in Z /\ i \in Y => Followed(r, Reports(X, Y), Reports(Z, Y))
    BY <1>5 DEF OneMoreReport
  <2> QED BY <2>1, <2>2 DEF OneMoreReport
<1>6. \A q, p, r, t, i : OneMoreReport(q, p, t, i) /\ SameReports(p, r) => OneMoreReport(q, r, t, i)
  BY DEF SameReports, OneMoreReport
<1>7. \A q, p, r : SameReports(q, p) /\ SameReports(p, r) => SameReports(q, r) BY DEF SameReports
<1> QED BY <1>1, <1>2, <1>3, <1>4, <1>5, <1>6, <1>7

----
(* The worker's steps, by what they do with the requests. *)

\* The request j is answered, unless it is a scan that is no longer wanted.
Settles(j) ==
    \/ OneMoreAnswer(toGui, toGui', j.kind, j.id)
    \/ j.kind = "size" /\ j.id # desired /\ SameAnswers(toGui, toGui')

\* The idle channel takes the request j, or is done with it at once.
Starts(j) ==
    /\ ~Running /\ pending' = NoJob
    /\ \/ Running' /\ job' = j /\ wup /\ SameAnswers(toGui, toGui')
       \/ ~Running' /\ job' = NoJob /\ Settles(j)

\* The first event is taken.
Pops == toWorker # <<>> /\ toWorker' = Tail(toWorker)

\* The channel is given up with the transport.
Abandons ==
    /\ ~Running' /\ job' = NoJob /\ pending' = NoJob
    /\ IF IsTool THEN OneMoreAnswer(toGui, toGui', "tool", job.id) ELSE SameAnswers(toGui, toGui')

\* A request for the channel is taken.
Accepts ==
    /\ Pops /\ Head(toWorker).op \in Kinds
    /\ LET j == [kind |-> Head(toWorker).op, id |-> Head(toWorker).id]
       IN  \/ UNCHANGED <<phase, job, pending>> /\ Settles(j)
           \/ /\ Running /\ j.id = desired /\ UNCHANGED <<phase, job>>
              /\ pending' = j /\ SameAnswers(toGui, toGui')
           \/ j.id = desired /\ Starts(j)

\* The channel makes a step, or is done.
Advances ==
    /\ Running /\ pending' = pending
    /\ \/ Running' /\ job' = job /\ SameAnswers(toGui, toGui')
       \/ ~Running' /\ job' = NoJob /\ Settles(job)

\* A blocking operation is taken, and put off or done.
Operates(o) ==
    /\ Pops /\ Head(toWorker).op = o /\ UNCHANGED <<phase, job, pending>>
    /\ \/ /\ deferred' = deferred \cup {[op |-> o, id |-> Head(toWorker).id, gen |-> wactive]}
          /\ SameAnswers(toGui, toGui')
       \/ /\ UNCHANGED deferred
          /\ OneMoreAnswer(toGui, toGui', o, Head(toWorker).id)

\* An operation that was put off is done, or dropped.
Retries(d) ==
    /\ UNCHANGED <<toWorker, phase, job, pending>>
    /\ deferred' = deferred \ {d}
    /\ SameAnswers(toGui, toGui') \/ OneMoreAnswer(toGui, toGui', d.op, d.id)

\* The worker gives up a connection, and says so.
Drops ==
    /\ Abandons /\ UNCHANGED <<toWorker, deferred, wactive>> /\ wup /\ wup' = FALSE
    /\ OneMoreReport(toGui, toGui', "down", wactive)

\* The worker keeps its connection, and says nothing of it.
Quiet == UNCHANGED <<wup, wactive>> /\ SameReports(toGui, toGui')

\* No request is taken, the channel and the operations are left alone.
Idles == UNCHANGED <<phase, job, pending, deferred, toWorker, toGui, wup, wactive>>

\* The steps of the worker within a connection, ...
Works ==
    /\ Quiet
    /\ \/ Accepts /\ UNCHANGED deferred
       \/ Starts(pending) /\ pending # NoJob /\ UNCHANGED <<toWorker, deferred>>
       \/ Advances /\ UNCHANGED <<toWorker, deferred>>
       \/ \E o \in Ops : Operates(o)
       \/ \E d \in deferred : Retries(d)
       \/ Idles

\* ... at its end, ...
Leaves ==
    /\ Pops /\ Head(toWorker).op = "disconnect" /\ Abandons /\ wup' = FALSE /\ UNCHANGED <<wactive, deferred>>
    /\ SameReports(toGui, toGui') \/ OneMoreReport(toGui, toGui', "down", wactive)

\* ... and at its begin.
Joins ==
    /\ Pops /\ Head(toWorker).op = "connect" /\ Abandons /\ wactive' = Head(toWorker).gen /\ UNCHANGED deferred
    /\ \/ wactive' = wgen /\ wup' = TRUE /\ OneMoreReport(toGui, toGui', "up", wactive')
       \/ wactive' = wgen /\ wup' = FALSE /\ OneMoreReport(toGui, toGui', "down", wactive')
       \/ wactive' # wgen /\ wup' = FALSE /\ SameReports(toGui, toGui')

\* cleanup answers the running tool, if any.
LEMMA InterruptedSays ==
    ASSUME TypeOK, NEW q \in Seq(GuiEvents), Running => job.id # 0
    PROVE  /\ q \o Interrupted \in Seq(GuiEvents) /\ SameReports(q, q \o Interrupted)
           /\ IF IsTool THEN OneMoreAnswer(q, q \o Interrupted, "tool", job.id) ELSE SameAnswers(q, q \o Interrupted)
<1>1. job.id \in Nat BY DEF TypeOK, Jobs
<1>2. CASE IsTool BY <1>2, <1>1, Names, AnswerAdded DEF Interrupted, IsTool
<1>3. CASE ~IsTool BY <1>3, ConcatEmptySeq, Sayings DEF Interrupted
<1> QED BY <1>2, <1>3

\* What becomes of a request that is finished.
LEMMA FinishedSays ==
    ASSUME TypeOK, NEW j \in Jobs, toGui' = toGui \o Finished(j)
    PROVE  Settles(j) /\ SameReports(toGui, toGui')
<1>1. toGui \in Seq(GuiEvents) /\ j.kind \in All /\ j.id \in Nat /\ j.kind \in Kinds BY Names DEF TypeOK, Jobs
<1>2. CASE j.kind = "tool" \/ j.id = desired BY <1>2, <1>1, AnswerAdded DEF Finished, Settles
<1>3. CASE ~(j.kind = "tool" \/ j.id = desired) BY <1>1, <1>3, ConcatEmptySeq, Sayings DEF Finished, Kinds, Settles
<1> QED BY <1>2, <1>3

\* The idle branch of advanceDirectorySize.
LEMMA StartSays ==
    ASSUME TypeOK, ~Running, NEW j \in Jobs, Start(j)
    PROVE  Starts(j) /\ SameReports(toGui, toGui')
<1>1. toGui \in Seq(GuiEvents) /\ j.kind \in All /\ j.id \in Nat /\ j.kind \in Kinds BY Names DEF TypeOK, Jobs
<1>2. pending' = NoJob BY DEF Start
<1>3. phase = "idle" /\ job = NoJob BY DEF Running, TypeOK
<1>4. CASE j.id # desired
  <2>1. UNCHANGED <<phase, job>> BY <1>4 DEF Start
  <2>2. CASE j.kind = "tool" BY <1>4, <2>2, <1>1, <1>2, <1>3, <2>1, AnswerAdded DEF Start, Settles, Starts, Running
  <2>3. CASE j.kind # "tool" BY <1>1, <1>4, <2>3, <1>2, <1>3, <2>1, Sayings DEF Start, Kinds, Settles, Starts, Running
  <2> QED BY <2>2, <2>3
<1>5. CASE j.id = desired
  <2>1. CASE wup BY <1>5, <2>1, <1>2, Sayings DEF Start, Starts, Running
  <2>2. CASE ~wup BY <1>5, <2>2, <1>2, <1>3, FinishedSays DEF Start, Starts, Running
  <2> QED BY <2>1, <2>2
<1> QED BY <1>4, <1>5

\* The worker takes the end of a connection.
LEMMA DisconnectsForm ==
    ASSUME TypeOK, Running => job.id # 0, WorkerDisconnects
    PROVE  Leaves
<1> DEFINE q == toGui \o Interrupted
<1>1. /\ q \in Seq(GuiEvents) /\ SameReports(toGui, q)
      /\ IF IsTool THEN OneMoreAnswer(toGui, q, "tool", job.id) ELSE SameAnswers(toGui, q)
  BY InterruptedSays DEF TypeOK
<1>2. toGui' = q \o (IF wup THEN Report("down") ELSE <<>>) BY DEF WorkerDisconnects
<1>3. Pops /\ Head(toWorker).op = "disconnect" /\ UNCHANGED <<wactive, deferred>> /\ wup' = FALSE
  BY DEF WorkerDisconnects, Take, Pops, Cleanup
<1>4. ~Running' /\ job' = NoJob /\ pending' = NoJob BY DEF WorkerDisconnects, Cleanup, Running
<1> HIDE DEF q
<1>5. CASE wup BY <1>2, <1>5, <1>1, <1>3, <1>4, ReportAdded, Sayings DEF Report, TypeOK, Abandons, Leaves
<1>6. CASE ~wup BY <1>1, <1>2, <1>6, <1>3, <1>4, ConcatEmptySeq DEF Abandons, Leaves
<1> QED BY <1>5, <1>6

\* The worker takes the begin of a connection.
LEMMA ConnectsForm ==
    ASSUME TypeOK, Running => job.id # 0, WorkerConnects
    PROVE  Joins
<1> DEFINE q == toGui \o Interrupted
<1>1. /\ q \in Seq(GuiEvents) /\ SameReports(toGui, q)
      /\ IF IsTool THEN OneMoreAnswer(toGui, q, "tool", job.id) ELSE SameAnswers(toGui, q)
  BY InterruptedSays DEF TypeOK
<1>3. Pops /\ Head(toWorker).op = "connect" /\ UNCHANGED deferred /\ wactive' = Head(toWorker).gen
  BY DEF WorkerConnects, Take, Pops
<1>4. ~Running' /\ job' = NoJob /\ pending' = NoJob BY DEF WorkerConnects, Running
<1>5. wactive' \in Nat BY <1>3, Taken, EventKinds DEF WorkerConnects
<1>6. \/ wactive' = wgen /\ wup' = TRUE /\ toGui' = q \o <<[type |-> "up", gen |-> wactive']>>
      \/ wactive' = wgen /\ wup' = FALSE /\ toGui' = q \o <<[type |-> "down", gen |-> wactive']>>
      \/ wactive' # wgen /\ wup' = FALSE /\ toGui' = q BY DEF WorkerConnects
<1> HIDE DEF q
<1>7. ASSUME NEW t \in {"up", "down"}, toGui' = q \o <<[type |-> t, gen |-> wactive']>>
      PROVE  /\ OneMoreReport(toGui, toGui', t, wactive')
             /\ IF IsTool THEN OneMoreAnswer(toGui, toGui', "tool", job.id) ELSE SameAnswers(toGui, toGui')
  BY <1>1, <1>5, <1>7, ReportAdded, Sayings
<1>8. CASE toGui' = q BY <1>1, <1>3, <1>4, <1>6, <1>7, <1>8 DEF Abandons, Joins
<1>9. CASE wactive' = wgen /\ wup' = TRUE /\ toGui' = q \o <<[type |-> "up", gen |-> wactive']>>
  BY <1>3, <1>4, <1>7, <1>9 DEF Abandons, Joins
<1>10. CASE wactive' = wgen /\ wup' = FALSE /\ toGui' = q \o <<[type |-> "down", gen |-> wactive']>>
  BY <1>3, <1>4, <1>7, <1>10 DEF Abandons, Joins
<1>11. CASE wactive' # wgen /\ wup' = FALSE /\ toGui' = q BY <1>1, <1>3, <1>4, <1>11 DEF Abandons, Joins
<1> QED BY <1>6, <1>9, <1>10, <1>11

\* Every other step of the worker, and what happens to it.
LEMMA WorkerForm ==
    ASSUME TypeOK, Running => job.id # 0 /\ wup,
           (WorkerStep /\ ~WorkerConnects /\ ~WorkerDisconnects) \/ Elapse \/ TransportLost \/ GoSilent \/ UNCHANGED vars
    PROVE  Drops \/ Works
<1>0. toGui \in Seq(GuiEvents) /\ wactive \in Nat /\ job.id \in Nat /\ job \in Jobs /\ pending \in Jobs
  BY DEF TypeOK, Jobs
<1>1. CASE TransportLost
  <2>1. /\ ~Running' /\ job' = NoJob /\ pending' = NoJob /\ wup /\ wup' = FALSE /\ UNCHANGED <<toWorker, deferred, wactive>>
    BY <1>1 DEF TransportLost, Cleanup, Running
  <2> DEFINE q == toGui \o Interrupted  p == toGui \o Report("down")
  <2>2. /\ q \in Seq(GuiEvents) /\ SameReports(toGui, q)
        /\ IF IsTool THEN OneMoreAnswer(toGui, q, "tool", job.id) ELSE SameAnswers(toGui, q)
    BY <1>0, InterruptedSays
  <2>3. p = toGui \o <<[type |-> "down", gen |-> wactive]>> BY DEF Report
  <2>4. toGui' = q \o <<[type |-> "down", gen |-> wactive]>> \/ toGui' = p \o Interrupted
    BY <1>1 DEF TransportLost, Report
  <2> HIDE DEF p, q
  <2>5. p \in Seq(GuiEvents) /\ SameAnswers(toGui, p) /\ OneMoreReport(toGui, p, "down", wactive)
    BY <1>0, <2>3, ReportAdded
  <2>6. CASE toGui' = q \o <<[type |-> "down", gen |-> wactive]>>
    BY <1>0, <2>2, <2>6, <2>1, ReportAdded, Sayings DEF Abandons, Drops
  <2>7. CASE toGui' = p \o Interrupted BY <2>5, <2>7, <2>1, InterruptedSays, Sayings DEF Abandons, Drops
  <2> QED BY <2>4, <2>6, <2>7
<1>2. CASE HardTimeout
  <2>1. /\ ~Running' /\ job' = NoJob /\ pending' = NoJob /\ wup' = FALSE /\ UNCHANGED <<toWorker, deferred, wactive>> /\ IsTool
        /\ wup BY <1>2 DEF HardTimeout, Cleanup, IsTool, Running
  <2> DEFINE q == toGui \o Answer("tool", job.id)
  <2>2. q \in Seq(GuiEvents) /\ OneMoreAnswer(toGui, q, "tool", job.id) /\ SameReports(toGui, q)
    BY <1>0, Names, AnswerAdded
  <2>3. toGui' = q \o <<[type |-> "down", gen |-> wactive]>> BY <1>2 DEF HardTimeout, Report
  <2> HIDE DEF q
  <2>4. SameAnswers(q, toGui') /\ OneMoreReport(q, toGui', "down", wactive) BY <1>0, <2>2, <2>3, ReportAdded
  <2>5. OneMoreReport(toGui, toGui', "down", wactive) /\ OneMoreAnswer(toGui, toGui', "tool", job.id)
    BY <2>2, <2>4, Sayings
  <2> QED BY <1>2, <2>1, <2>5 DEF Abandons, Drops
<1>3. ASSUME NEW kind \in Kinds, Accept(kind) PROVE Accepts /\ UNCHANGED deferred /\ Quiet
  <2>1. toWorker # <<>> /\ toWorker' = Tail(toWorker) /\ Head(toWorker).op = kind BY <1>3 DEF Accept, Take
  <2>2. Head(toWorker).id \in Nat BY <1>3, Taken, Names, EventKinds DEF Accept
  <2> DEFINE j == [kind |-> kind, id |-> Head(toWorker).id]
  <2>3. j \in Jobs /\ j.kind = kind /\ j.id \in Nat BY <2>2 DEF Jobs
  <2>4. UNCHANGED <<wup, wactive, deferred>> BY <1>3 DEF Accept
  <2>5. \/ /\ UNCHANGED channel /\ j.id # desired
           /\ toGui' = IF kind = "tool" THEN toGui \o Answer(kind, j.id) ELSE toGui
        \/ Running /\ j.id = desired /\ pending' = j /\ UNCHANGED <<phase, job, toGui>>
        \/ ~Running /\ j.id = desired /\ Start(j) BY <1>3 DEF Accept
  <2> HIDE DEF j
  <2>6. CASE /\ UNCHANGED channel /\ j.id # desired
             /\ toGui' = IF kind = "tool" THEN toGui \o Answer(kind, j.id) ELSE toGui
    <3>1. Settles(j) /\ SameReports(toGui, toGui') BY <1>0, <2>3, <2>6, Names, AnswerAdded, Sayings DEF Settles, Kinds
    <3>2. UNCHANGED <<phase, job, pending>> BY <2>6 DEF channel
    <3> QED BY <2>1, <2>4, <3>1, <3>2 DEF Accepts, Pops, Quiet, j
  <2>7. CASE Running /\ j.id = desired /\ pending' = j /\ UNCHANGED <<phase, job, toGui>>
    BY <2>7, <2>1, <2>4, Sayings DEF Accepts, Pops, Quiet, j
  <2>8. CASE ~Running /\ j.id = desired /\ Start(j) BY <2>3, <2>8, <2>1, <2>4, StartSays DEF Accepts, Pops, Quiet, j
  <2> QED BY <2>5, <2>6, <2>7, <2>8
<1>4. CASE StartPending BY <1>4, <1>0, StartSays DEF StartPending, Quiet, Works
<1>5. CASE Advance
  <2>1. Running /\ UNCHANGED <<pending, toWorker, deferred, wup, wactive>> BY <1>5 DEF Advance
  <2>2. \/ phase' # "idle" /\ job' = job /\ toGui' = toGui
        \/ Finish BY <1>5 DEF Advance, TypeOK, Phases, Running
  <2>3. CASE phase' # "idle" /\ job' = job /\ toGui' = toGui BY <2>3, <2>1, Sayings DEF Works, Advances, Quiet, Running
  <2>4. CASE Finish BY <1>0, <2>4, <2>1, FinishedSays DEF Finish, Works, Advances, Quiet, Running
  <2> QED BY <2>2, <2>3, <2>4
<1>6. ASSUME NEW o \in Ops, TakeOp(o) PROVE Operates(o) /\ Quiet
  <2>1. toWorker # <<>> /\ toWorker' = Tail(toWorker) /\ Head(toWorker).op = o BY <1>6 DEF TakeOp, Take
  <2>2. Head(toWorker).id \in Nat BY <1>6, Taken, Names, EventKinds DEF TakeOp
  <2>3. UNCHANGED <<phase, job, pending, wup, wactive>> BY <1>6 DEF TakeOp, channel
  <2>4. \/ deferred' = deferred \cup {[op |-> o, id |-> Head(toWorker).id, gen |-> wactive]} /\ toGui' = toGui
        \/ UNCHANGED deferred /\ toGui' = toGui \o Answer(o, Head(toWorker).id) BY <1>6 DEF TakeOp
  <2>5. CASE deferred' = deferred \cup {[op |-> o, id |-> Head(toWorker).id, gen |-> wactive]} /\ toGui' = toGui
    BY <2>5, <2>1, <2>3, Sayings DEF Operates, Pops, Quiet
  <2>6. CASE UNCHANGED deferred /\ toGui' = toGui \o Answer(o, Head(toWorker).id)
    BY <1>0, <2>2, <2>6, <2>1, <2>3, Names, AnswerAdded DEF Operates, Pops, Quiet
  <2> QED BY <2>4, <2>5, <2>6
<1>7. ASSUME NEW d \in deferred, Retry(d) PROVE Retries(d) /\ Quiet
  BY <1>7, <1>0, Sayings, Names, AnswerAdded DEF TypeOK, Retry, channel, Retries, Quiet
<1>8. CASE Elapse \/ GoSilent \/ UNCHANGED vars
  <2>1. Idles BY <1>8 DEF Elapse, GoSilent, vars, worker, channel, Idles
  <2> QED BY <2>1, Sayings DEF Works, Idles, Quiet
<1> QED BY <1>1, <1>2, <1>3, <1>4, <1>5, <1>6, <1>7, <1>8 DEF WorkerStep, Works

----
(* Requests are numbered and answered once. *)

\* The numbers of the worker's requests.
LEMMA TakenNumbers ==
    ASSUME TypeOK, Numbered
    PROVE  \E m \in 0 .. lastId :
              /\ TakenTo(m) /\ m \in Nat /\ lastId \in Nat /\ m <= lastId /\ lastId <= MaxRequests
              /\ job.id \in Nat /\ pending.id \in Nat /\ 0 .. m \in SUBSET Nat /\ m + 1 \in Nat
              /\ From(m + 1) \in SUBSET Nat
<1>1. PICK m \in 0 .. lastId : TakenTo(m) BY DEF Numbered
<1>2. lastId \in Nat /\ lastId <= MaxRequests BY Names DEF TypeOK
<1>3. m \in Nat /\ m + 1 \in Nat /\ m <= lastId BY <1>2
<1>4. job.id \in Nat /\ pending.id \in Nat BY DEF TypeOK, Jobs
<1>5. 0 .. m \in SUBSET Nat /\ From(m + 1) \in SUBSET Nat BY <1>3, FromIs
<1> QED BY <1>1, <1>2, <1>3, <1>4, <1>5

\* The GUI thread keeps the requests numbered.
LEMMA NumberedGui ==
    ASSUME TypeOK, SlotKnown, Numbered, UserStep \/ GuiStep
    PROVE  Numbered'
<1>1. PICK q \in Seq(WorkerEvents) : Asked(q) /\ Ended(q) BY GuiPosts
<1>2. UNCHANGED worker /\ (toGui' = toGui \/ (toGui # <<>> /\ toGui' = Tail(toGui))) BY GuiPosts
<1>3. UNCHANGED <<phase, job, pending, deferred>> BY <1>2 DEF worker, channel
<1>4. TypeOK' BY TypeUser, TypeGui
<1>5. PICK m \in 0 .. lastId : /\ TakenTo(m) /\ m \in Nat /\ lastId \in Nat /\ m <= lastId
                               /\ 0 .. m \in SUBSET Nat BY TakenNumbers
<1>6. InOrder(toWorker, lastId) BY DEF Numbered
<1>7. /\ q \in Seq(WorkerEvents) /\ InOrder(q, lastId') /\ lastId' \in lastId .. MaxRequests
      /\ NoneOf(q, Requests(All, 0 .. m)) BY <1>1, <1>5, <1>6, InOrderAsked DEF TakenTo, HeldTo
<1>8. lastId' \in Nat /\ wgen' \in Nat /\ m \in 0 .. lastId' BY <1>4, <1>5, <1>7, Names DEF TypeOK
<1>9. InOrder(toWorker', lastId') /\ NoneOf(toWorker', Requests(All, 0 .. m))
  BY <1>1, <1>5, <1>7, <1>8, InOrderEnded
<1>10. NoneOf(toGui', Answers(All, From(m + 1)))
  <2>1. NoneOf(toGui, Answers(All, From(m + 1))) BY <1>5 DEF TakenTo, HeldTo
  <2>2. toGui \in Seq(GuiEvents) BY DEF TypeOK
  <2> DEFINE S == Answers(All, From(m + 1))
  <2> HIDE DEF S
  <2>3. NoneOf(toGui, S) BY <2>1 DEF S
  <2>4. NoneOf(toGui', S) BY <2>3, <2>2, <1>2, TakeNone
  <2> QED BY <2>4 DEF S
<1>11. TakenTo(m)' BY <1>3, <1>5, <1>9, <1>10 DEF TakenTo, HeldTo
<1> QED BY <1>3, <1>8, <1>9, <1>11 DEF Numbered, Running

\* The GUI thread keeps the answers apart.
LEMMA ApartGui ==
    ASSUME TypeOK, SlotKnown, AnsweredApart, UserStep \/ GuiStep
    PROVE  AnsweredApart'
<1>1. UNCHANGED worker /\ (toGui' = toGui \/ (toGui # <<>> /\ toGui' = Tail(toGui))) BY GuiPosts
<1>2. UNCHANGED <<job, pending, deferred>> BY <1>1 DEF worker, channel
<1>3. toGui \in Seq(GuiEvents) BY DEF TypeOK
<1>4. ASSUME NEW S, NoneOf(toGui, S) PROVE NoneOf(toGui', S) BY <1>1, <1>3, <1>4, TakeNone
<1>5. ASSUME NEW S, NEW T, Ordered(toGui, S, T) PROVE Ordered(toGui', S, T) BY <1>1, <1>3, <1>5, TakeOrdered
<1>6. ToolsOnce(toGui') BY <1>5 DEF AnsweredApart, ToolsOnce
<1> QED BY <1>2, <1>4, <1>6 DEF AnsweredApart

\* An answer for what was not answered leaves the others apart.
LEMMA OneMoreApart ==
    ASSUME NEW t \in All, NEW i \in Nat, OneMoreAnswer(toGui, toGui', t, i), ToolsOnce(toGui),
           t = "tool" => NoneOf(toGui, Answers({"tool"}, {i}))
    PROVE  /\ ToolsOnce(toGui')
           /\ \A k \in All, n \in Nat :
                 NoneOf(toGui, Answers({k}, {n})) /\ (k # t \/ n # i) => NoneOf(toGui', Answers({k}, {n}))
           /\ \A n \in Nat : NoneOf(toGui, Answers(All, From(n))) /\ i < n => NoneOf(toGui', Answers(All, From(n)))
<1>1. ASSUME NEW x \in 0 .. MaxRequests PROVE Ordered(toGui', Answers({"tool"}, {x}), Answers({"tool"}, {x}))
  BY Names DEF ToolsOnce, OneMoreAnswer
<1>2. ASSUME NEW k \in All, NEW n \in Nat, NoneOf(toGui, Answers({k}, {n})), k # t \/ n # i
      PROVE  NoneOf(toGui', Answers({k}, {n})) BY <1>2 DEF OneMoreAnswer
<1>3. ASSUME NEW n \in Nat, NoneOf(toGui, Answers(All, From(n))), i < n
      PROVE  NoneOf(toGui', Answers(All, From(n))) BY <1>3, FromIs DEF OneMoreAnswer
<1> QED BY <1>1, <1>2, <1>3 DEF ToolsOnce

\* So does no answer.
LEMMA SameApart ==
    ASSUME SameAnswers(toGui, toGui'), ToolsOnce(toGui)
    PROVE  /\ ToolsOnce(toGui')
           /\ \A k \in All, n \in Nat : NoneOf(toGui, Answers({k}, {n})) => NoneOf(toGui', Answers({k}, {n}))
           /\ \A n \in Nat : NoneOf(toGui, Answers(All, From(n))) => NoneOf(toGui', Answers(All, From(n)))
<1>1. ASSUME NEW x \in 0 .. MaxRequests PROVE Ordered(toGui', Answers({"tool"}, {x}), Answers({"tool"}, {x}))
  BY Names DEF SameAnswers, ToolsOnce
<1>2. ASSUME NEW k \in All, NEW n \in Nat, NoneOf(toGui, Answers({k}, {n}))
      PROVE  NoneOf(toGui', Answers({k}, {n})) BY <1>2 DEF SameAnswers
<1>3. ASSUME NEW n \in Nat, NoneOf(toGui, Answers(All, From(n))) PROVE NoneOf(toGui', Answers(All, From(n)))
  BY <1>3, FromIs DEF SameAnswers
<1> QED BY <1>1, <1>2, <1>3 DEF ToolsOnce

\* What the invariant says of the answers for what the worker holds.
LEMMA NoneTwice ==
    ASSUME TypeOK, Numbered, AnsweredApart, NEW m \in Nat, HeldTo(m)
    PROVE  /\ \A k \in All, n \in Nat : n > m => NoneOf(toGui, Answers({k}, {n}))
           /\ job.kind \in Kinds /\ pending.kind \in Kinds
           /\ \A d \in deferred : d.op \in Ops /\ d.id \in Nat /\ d.id # 0
<1>1. ASSUME NEW k \in All, NEW n \in Nat, n > m PROVE NoneOf(toGui, Answers({k}, {n}))
  <2>1. {n} \subseteq From(m + 1) BY <1>1 DEF From
  <2>2. Answers({k}, {n}) \subseteq Answers(All, From(m + 1)) BY <2>1 DEF Answers
  <2> QED BY <2>2, FewerNone DEF TakenTo, HeldTo
<1>2. job.kind \in Kinds /\ pending.kind \in Kinds BY DEF TypeOK, Jobs
<1>3. \A d \in deferred : d.op \in Ops /\ d.id \in Nat /\ d.id # 0 BY DEF TypeOK, TakenTo, HeldTo
<1> QED BY <1>1, <1>2, <1>3

\* What stays of the requests when the worker takes an event or none.
LEMMA NumbersLeft ==
    ASSUME TypeOK, Numbered, toWorker' = toWorker \/ Pops, NEW m \in Nat, TakenTo(m)
    PROVE  InOrder(toWorker', lastId) /\ NoneOf(toWorker', Requests(All, 0 .. m)) /\ lastId \in 0 .. MaxRequests
<1>1. toWorker \in Seq(WorkerEvents) /\ lastId \in 0 .. MaxRequests BY DEF TypeOK
<1>2. InOrder(toWorker, lastId) /\ NoneOf(toWorker, Requests(All, 0 .. m)) BY DEF Numbered, TakenTo, HeldTo
<1>3. CASE toWorker' = toWorker BY <1>1, <1>2, <1>3
<1>4. CASE Pops BY <1>1, <1>2, <1>4, InOrderTaken, TakeNone DEF Pops
<1> QED BY <1>3, <1>4

\* The request the worker takes is newer than those it has.
LEMMA NumberTaken ==
    ASSUME TypeOK, Numbered, Pops, Head(toWorker).op \in All, NEW m \in 0 .. lastId, TakenTo(m)
    PROVE  /\ Head(toWorker).id \in 0 .. lastId /\ Head(toWorker).id \in Nat /\ m < Head(toWorker).id
           /\ NoneOf(toWorker', Requests(All, 0 .. Head(toWorker).id)) /\ InOrder(toWorker', lastId)
BY Names, InOrderTaken DEF TypeOK, Pops, Numbered, TakenTo, HeldTo

\* The worker keeps the requests numbered and the answers apart.
Counted == Numbered /\ AnsweredApart

\* ... when it gives up the channel,
LEMMA CountedAbandons ==
    ASSUME TypeOK, Counted, Abandons, UNCHANGED <<deferred, lastId>>, toWorker' = toWorker \/ Pops
    PROVE  Counted'
<1>0. Numbered /\ AnsweredApart BY DEF Counted
<1>1. PICK m \in 0 .. lastId : TakenTo(m) /\ m \in Nat /\ m + 1 \in Nat /\ job.id \in Nat BY <1>0, TakenNumbers
<1>2. InOrder(toWorker', lastId) /\ NoneOf(toWorker', Requests(All, 0 .. m)) BY <1>0, <1>1, NumbersLeft
<1>3. /\ \A d \in deferred : d.op \in Ops /\ d.id \in Nat /\ d.id # 0
      /\ ToolsOnce(toGui) /\ NoneOf(toGui, Answers(All, From(m + 1)))
      /\ \A d \in deferred : NoneOf(toGui, Answers({d.op}, {d.id}))
  BY <1>0, <1>1, NoneTwice DEF AnsweredApart, TakenTo, HeldTo
<1>4. /\ ToolsOnce(toGui') /\ NoneOf(toGui', Answers(All, From(m + 1)))
      /\ \A d \in deferred : NoneOf(toGui', Answers({d.op}, {d.id}))
  <2>1. CASE IsTool
    <3>1. OneMoreAnswer(toGui, toGui', "tool", job.id) /\ NoneOf(toGui, Answers({"tool"}, {job.id}))
      BY <1>0, <2>1 DEF Abandons, IsTool, AnsweredApart
    <3>2. "tool" \in All /\ job.id < m + 1 /\ \A d \in deferred : d.op # "tool" /\ d.op \in All
      BY <1>1, <1>3, Names DEF TakenTo, HeldTo
    <3> QED BY <1>1, <1>3, <3>1, <3>2, OneMoreApart
  <2>2. CASE ~IsTool BY <2>2, <1>3, <1>1, Names, SameApart DEF Abandons
  <2> QED BY <2>1, <2>2
<1>5. ~Running' /\ job' = NoJob /\ pending' = NoJob BY DEF Abandons
<1>6. TakenTo(m)' BY <1>1, <1>2, <1>4, <1>5, Names DEF TakenTo, HeldTo
<1>7. Numbered' BY <1>1, <1>2, <1>5, <1>6, Names DEF Numbered
<1>8. AnsweredApart' BY <1>0, <1>4, <1>5, Names DEF AnsweredApart
<1> QED BY <1>7, <1>8 DEF Counted

\* What is done with a request leaves the answers apart.
LEMMA SettlesApart ==
    ASSUME NEW j \in Jobs, Settles(j), ToolsOnce(toGui),
           j.kind = "tool" => NoneOf(toGui, Answers({"tool"}, {j.id}))
    PROVE  /\ ToolsOnce(toGui') /\ j.kind \in All /\ j.id \in Nat
           /\ \A k \in All, n \in Nat :
                 NoneOf(toGui, Answers({k}, {n})) /\ (k # j.kind \/ n # j.id) => NoneOf(toGui', Answers({k}, {n}))
           /\ \A n \in Nat : NoneOf(toGui, Answers(All, From(n))) /\ j.id < n => NoneOf(toGui', Answers(All, From(n)))
BY Names, OneMoreApart, SameApart DEF Jobs, Settles

\* What the invariant says when a new request n is taken.
LEMMA NewRequest ==
    ASSUME TypeOK, Counted, Pops, Head(toWorker).op \in All
    PROVE  \E m \in Nat :
             /\ m < Head(toWorker).id /\ Head(toWorker).id \in 0 .. lastId /\ Head(toWorker).id \in Nat
             /\ Head(toWorker).id # 0 /\ Head(toWorker).id + 1 \in Nat
             /\ NoneOf(toWorker', Requests(All, 0 .. Head(toWorker).id)) /\ InOrder(toWorker', lastId)
             /\ job.id \in Nat /\ pending.id \in Nat /\ job.id <= m /\ pending.id <= m
             /\ \A d \in deferred : d.id \in 1 .. m /\ d.op \in Ops /\ d.op \in All /\ d.id \in Nat
             /\ \A k \in All : NoneOf(toGui, Answers({k}, {Head(toWorker).id}))
             /\ NoneOf(toGui, Answers(All, From(Head(toWorker).id + 1)))
<1>0. Numbered /\ AnsweredApart BY DEF Counted
<1>1. PICK m \in 0 .. lastId : /\ TakenTo(m) /\ m \in Nat /\ m + 1 \in Nat
                               /\ job.id \in Nat /\ pending.id \in Nat BY <1>0, TakenNumbers
<1> DEFINE n == Head(toWorker).id
<1>2. /\ n \in 0 .. lastId /\ n \in Nat /\ m < n
      /\ NoneOf(toWorker', Requests(All, 0 .. n)) /\ InOrder(toWorker', lastId) BY <1>0, <1>1, NumberTaken
<1> HIDE DEF n
<1>3. HeldTo(m) BY <1>1 DEF TakenTo
<1>4. /\ \A k \in All : NoneOf(toGui, Answers({k}, {n}))
      /\ \A d \in deferred : d.op \in Ops /\ d.id \in Nat /\ d.op \in All
  BY <1>0, <1>1, <1>2, <1>3, NoneTwice, Names
<1>5. NoneOf(toGui, Answers(All, From(n + 1)))
  <2>1. From(n + 1) \subseteq From(m + 1) BY <1>1, <1>2 DEF From
  <2>2. Answers(All, From(n + 1)) \subseteq Answers(All, From(m + 1)) BY <2>1 DEF Answers
  <2> QED BY <1>3, <2>2, FewerNone DEF HeldTo
<1>6. n # 0 /\ n + 1 \in Nat BY <1>1, <1>2
<1>7. job.id <= m /\ pending.id <= m /\ \A d \in deferred : d.id \in 1 .. m BY <1>3 DEF HeldTo
<1> QED BY <1>1, <1>2, <1>4, <1>5, <1>6, <1>7 DEF n

\* ... when a request for the channel is taken,
LEMMA CountedAccepts ==
    ASSUME TypeOK, Counted, Accepts, UNCHANGED <<deferred, lastId>>
    PROVE  Counted'
<1>0. Numbered /\ AnsweredApart /\ Pops /\ Head(toWorker).op \in Kinds /\ Head(toWorker).op \in All
  BY Names DEF Counted, Accepts
<1>1. PICK m \in Nat :
             /\ m < Head(toWorker).id /\ Head(toWorker).id \in 0 .. lastId /\ Head(toWorker).id \in Nat
             /\ Head(toWorker).id # 0 /\ Head(toWorker).id + 1 \in Nat
             /\ NoneOf(toWorker', Requests(All, 0 .. Head(toWorker).id)) /\ InOrder(toWorker', lastId)
             /\ job.id \in Nat /\ pending.id \in Nat /\ job.id <= m /\ pending.id <= m
             /\ \A d \in deferred : d.id \in 1 .. m /\ d.op \in Ops /\ d.op \in All /\ d.id \in Nat
             /\ \A k \in All : NoneOf(toGui, Answers({k}, {Head(toWorker).id}))
             /\ NoneOf(toGui, Answers(All, From(Head(toWorker).id + 1))) BY <1>0, NewRequest
<1>15. PICK n \in Nat : n = Head(toWorker).id BY <1>1
<1>16. PICK j \in Jobs : j = [kind |-> Head(toWorker).op, id |-> n] BY <1>0 DEF Jobs
<1>2. j \in Jobs /\ j.id = n /\ j.kind \in All BY <1>0, <1>16
<1>3. \/ UNCHANGED <<phase, job, pending>> /\ Settles(j)
      \/ Running /\ UNCHANGED <<phase, job>> /\ pending' = j /\ SameAnswers(toGui, toGui')
      \/ Starts(j) BY <1>15, <1>16 DEF Accepts
<1>4. /\ m < n /\ n \in 0 .. lastId /\ n \in Nat /\ n # 0 /\ n + 1 \in Nat
      /\ NoneOf(toWorker', Requests(All, 0 .. n)) /\ InOrder(toWorker', lastId)
      /\ \A k \in All : NoneOf(toGui, Answers({k}, {n}))
      /\ NoneOf(toGui, Answers(All, From(n + 1))) BY <1>1, <1>15
<1>5. job.kind \in All /\ pending.kind \in All BY Names DEF TypeOK, Jobs
<1>6. /\ ToolsOnce(toGui) /\ \A d \in deferred : NoneOf(toGui, Answers({d.op}, {d.id}))
      /\ job.kind = "tool" => NoneOf(toGui, Answers({"tool"}, {job.id}))
      /\ pending.kind = "tool" => NoneOf(toGui, Answers({"tool"}, {pending.id}))
      /\ \A d, e \in deferred : d.id = e.id => d = e BY <1>0 DEF AnsweredApart
<1>7. \A d \in deferred : d.op \in All /\ d.id \in Nat /\ d.id # n /\ d.id <= n BY <1>1, <1>4
<1>8. job.id <= n /\ pending.id <= n /\ job.id # n /\ pending.id # n BY <1>1, <1>4
<1>9. ASSUME Settles(j) \/ SameAnswers(toGui, toGui')
      PROVE  /\ ToolsOnce(toGui') /\ NoneOf(toGui', Answers(All, From(n + 1)))
             /\ \A d \in deferred : NoneOf(toGui', Answers({d.op}, {d.id}))
             /\ job.kind = "tool" => NoneOf(toGui', Answers({"tool"}, {job.id}))
             /\ pending.kind = "tool" => NoneOf(toGui', Answers({"tool"}, {pending.id}))
  <2>1. CASE Settles(j)
    <3>1. /\ ToolsOnce(toGui')
          /\ \A k \in All, i \in Nat :
                 NoneOf(toGui, Answers({k}, {i})) /\ (k # j.kind \/ i # j.id) => NoneOf(toGui', Answers({k}, {i}))
          /\ \A i \in Nat : NoneOf(toGui, Answers(All, From(i))) /\ j.id < i => NoneOf(toGui', Answers(All, From(i)))
      BY <1>2, <1>4, <1>6, <2>1, SettlesApart
    <3>2. n < n + 1 BY <1>4
    <3> QED BY <1>1, <1>2, <1>4, <1>5, <1>6, <1>7, <1>8, <3>1, <3>2
  <2>2. CASE SameAnswers(toGui, toGui') BY <1>1, <1>4, <1>5, <1>6, <1>7, <2>2, SameApart
  <2> QED BY <1>9, <2>1, <2>2
<1>10. ASSUME SameAnswers(toGui, toGui'), j.kind = "tool" PROVE NoneOf(toGui', Answers({"tool"}, {n}))
  BY <1>2, <1>4, <1>6, <1>10, SameApart
<1>11. \A d \in deferred : d.id \in 1 .. n BY <1>1, <1>4
<1>12. CASE UNCHANGED <<phase, job, pending>> /\ Settles(j)
  BY <1>4, <1>8, <1>9, <1>11, <1>12, <1>0, <1>6 DEF TakenTo, HeldTo, Numbered, Running, AnsweredApart, Counted
<1>13. CASE Running /\ UNCHANGED <<phase, job>> /\ pending' = j /\ SameAnswers(toGui, toGui')
  <2>1. TakenTo(n)' BY <1>2, <1>4, <1>8, <1>9, <1>11, <1>13 DEF TakenTo, HeldTo
  <2>4. job.id < n BY <1>1, <1>4
  <2>2. Numbered' BY <1>0, <1>2, <1>4, <1>13, <2>1, <2>4 DEF Numbered, Running
  <2>3. AnsweredApart' BY <1>2, <1>6, <1>9, <1>10, <1>13 DEF AnsweredApart
  <2> QED BY <2>2, <2>3 DEF Counted
<1>14. CASE Starts(j)
  <2>1. pending' = NoJob BY <1>14 DEF Starts
  <2>2. \/ job' = j /\ SameAnswers(toGui, toGui')
        \/ ~Running' /\ job' = NoJob /\ Settles(j) BY <1>14 DEF Starts
  <2>3. job'.id <= n /\ pending'.id <= n /\ NoJob.id = 0 /\ NoJob.kind = "size" BY <1>2, <1>4, <2>1, <2>2, Names
  <2>4. TakenTo(n)' BY <1>4, <1>9, <1>11, <2>2, <2>3, <1>14 DEF TakenTo, HeldTo
  <2>5. Numbered' BY <1>2, <1>4, <2>1, <2>2, <2>3, <2>4 DEF Numbered
  <2>6. AnsweredApart' BY <1>2, <1>6, <1>9, <1>10, <2>1, <2>2, <2>3 DEF AnsweredApart
  <2> QED BY <2>5, <2>6 DEF Counted
<1> QED BY <1>3, <1>12, <1>13, <1>14

\* What the invariant says when no request is taken.
LEMMA OldRequests ==
    ASSUME TypeOK, Counted, UNCHANGED toWorker
    PROVE  \E m \in 0 .. lastId :
             /\ m \in Nat /\ m + 1 \in Nat /\ InOrder(toWorker', lastId) /\ NoneOf(toWorker', Requests(All, 0 .. m))
             /\ job \in Jobs /\ pending \in Jobs /\ job.kind \in All /\ pending.kind \in All
             /\ job.id \in Nat /\ pending.id \in Nat /\ job.id <= m /\ pending.id <= m
             /\ \A d \in deferred : d.id \in 1 .. m /\ d.op \in Ops /\ d.op \in All /\ d.op # "tool" /\ d.id \in Nat
             /\ ToolsOnce(toGui) /\ NoneOf(toGui, Answers(All, From(m + 1)))
             /\ \A d \in deferred : NoneOf(toGui, Answers({d.op}, {d.id}))
             /\ job.kind = "tool" => NoneOf(toGui, Answers({"tool"}, {job.id}))
             /\ pending.kind = "tool" => NoneOf(toGui, Answers({"tool"}, {pending.id}))
             /\ \A d, e \in deferred : d.id = e.id => d = e
<1>0. Numbered /\ AnsweredApart BY DEF Counted
<1>1. PICK m \in 0 .. lastId : /\ TakenTo(m) /\ m \in Nat /\ m + 1 \in Nat
                               /\ job.id \in Nat /\ pending.id \in Nat BY <1>0, TakenNumbers
<1>2. InOrder(toWorker', lastId) /\ NoneOf(toWorker', Requests(All, 0 .. m)) BY <1>0, <1>1, NumbersLeft
<1>3. HeldTo(m) BY <1>1 DEF TakenTo
<1>4. job.kind \in All /\ pending.kind \in All /\ \A d \in deferred : d.op \in Ops /\ d.id \in Nat /\ d.op \in All /\ d.op # "tool"
  BY <1>0, <1>1, <1>3, NoneTwice, Names
<1>5. /\ job.id <= m /\ pending.id <= m /\ \A d \in deferred : d.id \in 1 .. m
      /\ NoneOf(toGui, Answers(All, From(m + 1))) BY <1>3 DEF HeldTo
<1>6. job \in Jobs /\ pending \in Jobs BY DEF TypeOK
<1> QED BY <1>0, <1>1, <1>2, <1>4, <1>5, <1>6 DEF AnsweredApart

\* ... when the idle channel takes the one that waits,
LEMMA CountedStarts ==
    ASSUME TypeOK, Counted, Starts(pending), pending # NoJob, UNCHANGED <<toWorker, deferred, lastId>>
    PROVE  Counted'
<1>0. Numbered /\ AnsweredApart BY DEF Counted
<1>1. PICK m \in 0 .. lastId :
             /\ m \in Nat /\ m + 1 \in Nat /\ InOrder(toWorker', lastId) /\ NoneOf(toWorker', Requests(All, 0 .. m))
             /\ job \in Jobs /\ pending \in Jobs /\ job.kind \in All /\ pending.kind \in All
             /\ job.id \in Nat /\ pending.id \in Nat /\ job.id <= m /\ pending.id <= m
             /\ \A d \in deferred : d.id \in 1 .. m /\ d.op \in Ops /\ d.op \in All /\ d.op # "tool" /\ d.id \in Nat
             /\ ToolsOnce(toGui) /\ NoneOf(toGui, Answers(All, From(m + 1)))
             /\ \A d \in deferred : NoneOf(toGui, Answers({d.op}, {d.id}))
             /\ job.kind = "tool" => NoneOf(toGui, Answers({"tool"}, {job.id}))
             /\ pending.kind = "tool" => NoneOf(toGui, Answers({"tool"}, {pending.id}))
             /\ \A d, e \in deferred : d.id = e.id => d = e BY OldRequests
<1>2. pending.id # 0 /\ NoJob.id = 0 /\ NoJob.kind = "size" /\ pending.id < m + 1 /\ pending.kind \in Kinds
  BY <1>0, <1>1, Names DEF Numbered, Jobs
<1>3. ASSUME Settles(pending)
      PROVE  /\ ToolsOnce(toGui') /\ NoneOf(toGui', Answers(All, From(m + 1)))
             /\ \A d \in deferred : NoneOf(toGui', Answers({d.op}, {d.id}))
  BY <1>1, <1>3, <1>2, SettlesApart, OpAssumption DEF Kinds
<1>4. ASSUME SameAnswers(toGui, toGui')
      PROVE  /\ ToolsOnce(toGui') /\ NoneOf(toGui', Answers(All, From(m + 1)))
             /\ \A d \in deferred : NoneOf(toGui', Answers({d.op}, {d.id}))
             /\ pending.kind = "tool" => NoneOf(toGui', Answers({"tool"}, {pending.id}))
  BY <1>1, <1>4, SameApart
<1>5. pending' = NoJob BY DEF Starts
<1>6. \/ job' = pending /\ SameAnswers(toGui, toGui')
      \/ ~Running' /\ job' = NoJob /\ Settles(pending) BY DEF Starts
<1>7. job'.id <= m /\ pending'.id <= m BY <1>1, <1>2, <1>5, <1>6
<1>8. TakenTo(m)' BY <1>1, <1>3, <1>4, <1>6, <1>7 DEF TakenTo, HeldTo
<1>9. Numbered' BY <1>1, <1>2, <1>5, <1>6, <1>8 DEF Numbered
<1>10. AnsweredApart' BY <1>1, <1>2, <1>3, <1>4, <1>5, <1>6 DEF AnsweredApart
<1> QED BY <1>9, <1>10 DEF Counted

\* ... when the channel makes a step,
LEMMA CountedAdvances ==
    ASSUME TypeOK, Counted, Advances, UNCHANGED <<toWorker, deferred, lastId>>
    PROVE  Counted'
<1>0. Numbered /\ AnsweredApart BY DEF Counted
<1>1. PICK m \in 0 .. lastId :
             /\ m \in Nat /\ m + 1 \in Nat /\ InOrder(toWorker', lastId) /\ NoneOf(toWorker', Requests(All, 0 .. m))
             /\ job \in Jobs /\ pending \in Jobs /\ job.kind \in All /\ pending.kind \in All
             /\ job.id \in Nat /\ pending.id \in Nat /\ job.id <= m /\ pending.id <= m
             /\ \A d \in deferred : d.id \in 1 .. m /\ d.op \in Ops /\ d.op \in All /\ d.op # "tool" /\ d.id \in Nat
             /\ ToolsOnce(toGui) /\ NoneOf(toGui, Answers(All, From(m + 1)))
             /\ \A d \in deferred : NoneOf(toGui, Answers({d.op}, {d.id}))
             /\ job.kind = "tool" => NoneOf(toGui, Answers({"tool"}, {job.id}))
             /\ pending.kind = "tool" => NoneOf(toGui, Answers({"tool"}, {pending.id}))
             /\ \A d, e \in deferred : d.id = e.id => d = e BY OldRequests
<1>2. /\ NoJob.id = 0 /\ NoJob.kind = "size" /\ job.id < m + 1 /\ job.kind \in Kinds
      /\ Running /\ pending' = pending /\ job.id # 0
      /\ pending # NoJob => pending.id # 0
      /\ pending.id # 0 => job.id < pending.id BY <1>0, <1>1, Names DEF Numbered, Jobs, Advances
<1>3. ASSUME Settles(job)
      PROVE  /\ ToolsOnce(toGui') /\ NoneOf(toGui', Answers(All, From(m + 1)))
             /\ \A d \in deferred : NoneOf(toGui', Answers({d.op}, {d.id}))
             /\ pending.kind = "tool" => NoneOf(toGui', Answers({"tool"}, {pending.id}))
  <2>1. /\ ToolsOnce(toGui')
        /\ \A k \in All, i \in Nat :
               NoneOf(toGui, Answers({k}, {i})) /\ (k # job.kind \/ i # job.id) => NoneOf(toGui', Answers({k}, {i}))
        /\ \A i \in Nat : NoneOf(toGui, Answers(All, From(i))) /\ job.id < i => NoneOf(toGui', Answers(All, From(i)))
    BY <1>1, <1>3, SettlesApart
  <2>2. \A d \in deferred : d.op # job.kind BY <1>1, <1>2, OpAssumption DEF Kinds
  <2>3. pending.kind = "tool" => pending.id # job.id BY <1>2, <1>1
  <2> QED BY <1>1, <1>2, <2>1, <2>2, <2>3
<1>4. ASSUME SameAnswers(toGui, toGui')
      PROVE  /\ ToolsOnce(toGui') /\ NoneOf(toGui', Answers(All, From(m + 1)))
             /\ \A d \in deferred : NoneOf(toGui', Answers({d.op}, {d.id}))
             /\ job.kind = "tool" => NoneOf(toGui', Answers({"tool"}, {job.id}))
             /\ pending.kind = "tool" => NoneOf(toGui', Answers({"tool"}, {pending.id}))
  BY <1>1, <1>4, SameApart
<1>6. \/ job' = job /\ SameAnswers(toGui, toGui')
      \/ ~Running' /\ job' = NoJob /\ Settles(job) BY DEF Advances
<1>7. job'.id <= m /\ pending'.id <= m BY <1>1, <1>2, <1>6
<1>8. TakenTo(m)' BY <1>1, <1>3, <1>4, <1>6, <1>7 DEF TakenTo, HeldTo
<1>9. Numbered' BY <1>1, <1>2, <1>6, <1>8 DEF Numbered
<1>10. AnsweredApart' BY <1>1, <1>2, <1>3, <1>4, <1>6 DEF AnsweredApart
<1> QED BY <1>9, <1>10 DEF Counted

\* ... when an operation that was put off is done or dropped,
LEMMA CountedRetries ==
    ASSUME TypeOK, Counted, NEW d \in deferred, Retries(d), UNCHANGED lastId
    PROVE  Counted'
<1>0. Numbered /\ AnsweredApart /\ UNCHANGED <<toWorker, phase, job, pending>> /\ deferred' = deferred \ {d}
  BY DEF Counted, Retries
<1>1. PICK m \in 0 .. lastId :
             /\ m \in Nat /\ m + 1 \in Nat /\ InOrder(toWorker', lastId) /\ NoneOf(toWorker', Requests(All, 0 .. m))
             /\ job \in Jobs /\ pending \in Jobs /\ job.kind \in All /\ pending.kind \in All
             /\ job.id \in Nat /\ pending.id \in Nat /\ job.id <= m /\ pending.id <= m
             /\ \A e \in deferred : e.id \in 1 .. m /\ e.op \in Ops /\ e.op \in All /\ e.op # "tool" /\ e.id \in Nat
             /\ ToolsOnce(toGui) /\ NoneOf(toGui, Answers(All, From(m + 1)))
             /\ \A e \in deferred : NoneOf(toGui, Answers({e.op}, {e.id}))
             /\ job.kind = "tool" => NoneOf(toGui, Answers({"tool"}, {job.id}))
             /\ pending.kind = "tool" => NoneOf(toGui, Answers({"tool"}, {pending.id}))
             /\ \A c, e \in deferred : c.id = e.id => c = e BY <1>0, OldRequests
<1>2. d.op \in All /\ d.op # "tool" /\ d.id \in Nat /\ d.id < m + 1 BY <1>1
<1>3. /\ ToolsOnce(toGui') /\ NoneOf(toGui', Answers(All, From(m + 1)))
      /\ \A e \in deferred \ {d} : NoneOf(toGui', Answers({e.op}, {e.id}))
      /\ job.kind = "tool" => NoneOf(toGui', Answers({"tool"}, {job.id}))
      /\ pending.kind = "tool" => NoneOf(toGui', Answers({"tool"}, {pending.id}))
  <2>1. CASE SameAnswers(toGui, toGui') BY <1>1, <2>1, SameApart
  <2>2. CASE OneMoreAnswer(toGui, toGui', d.op, d.id)
    <3>1. /\ ToolsOnce(toGui')
          /\ \A k \in All, n \in Nat :
                 NoneOf(toGui, Answers({k}, {n})) /\ (k # d.op \/ n # d.id) => NoneOf(toGui', Answers({k}, {n}))
          /\ \A n \in Nat : NoneOf(toGui, Answers(All, From(n))) /\ d.id < n => NoneOf(toGui', Answers(All, From(n)))
      BY <1>1, <1>2, <2>2, OneMoreApart
    <3>2. \A e \in deferred \ {d} : e.id # d.id BY <1>1
    <3> QED BY <1>1, <1>2, <3>1, <3>2
  <2> QED BY <2>1, <2>2 DEF Retries
<1>4. TakenTo(m)' BY <1>0, <1>1, <1>3 DEF TakenTo, HeldTo
<1>5. Numbered' BY <1>0, <1>1, <1>4 DEF Numbered, Running
<1>6. AnsweredApart' BY <1>0, <1>1, <1>3 DEF AnsweredApart
<1> QED BY <1>5, <1>6 DEF Counted

\* ... and when an operation is taken.
LEMMA CountedOperates ==
    ASSUME TypeOK, Counted, NEW o \in Ops, Operates(o), UNCHANGED lastId
    PROVE  Counted'
<1>0. /\ Numbered /\ AnsweredApart /\ Pops /\ Head(toWorker).op = o /\ o \in All /\ o # "tool"
      /\ UNCHANGED <<phase, job, pending>> BY Names DEF Counted, Operates
<1>1. PICK m \in Nat :
             /\ m < Head(toWorker).id /\ Head(toWorker).id \in 0 .. lastId /\ Head(toWorker).id \in Nat
             /\ Head(toWorker).id # 0 /\ Head(toWorker).id + 1 \in Nat
             /\ NoneOf(toWorker', Requests(All, 0 .. Head(toWorker).id)) /\ InOrder(toWorker', lastId)
             /\ job.id \in Nat /\ pending.id \in Nat /\ job.id <= m /\ pending.id <= m
             /\ \A d \in deferred : d.id \in 1 .. m /\ d.op \in Ops /\ d.op \in All /\ d.id \in Nat
             /\ \A k \in All : NoneOf(toGui, Answers({k}, {Head(toWorker).id}))
             /\ NoneOf(toGui, Answers(All, From(Head(toWorker).id + 1))) BY <1>0, NewRequest
<1>2. PICK n \in Nat : n = Head(toWorker).id BY <1>1
<1>3. PICK c : c = [op |-> o, id |-> n, gen |-> wactive] OBVIOUS
<1>17. /\ m < n /\ n \in 0 .. lastId /\ n # 0 /\ n + 1 \in Nat
       /\ NoneOf(toWorker', Requests(All, 0 .. n)) /\ InOrder(toWorker', lastId)
       /\ \A k \in All : NoneOf(toGui, Answers({k}, {n}))
       /\ NoneOf(toGui, Answers(All, From(n + 1))) BY <1>1, <1>2
<1>18. n < n + 1 OBVIOUS
<1>4. /\ m < n /\ n \in 0 .. lastId /\ n # 0 /\ n + 1 \in Nat /\ n < n + 1
      /\ NoneOf(toWorker', Requests(All, 0 .. n)) /\ InOrder(toWorker', lastId)
      /\ \A k \in All : NoneOf(toGui, Answers({k}, {n}))
      /\ NoneOf(toGui, Answers(All, From(n + 1))) BY <1>17, <1>18
<1>5. c.op = o /\ c.id = n BY <1>3
<1>6. /\ ToolsOnce(toGui) /\ \A d \in deferred : NoneOf(toGui, Answers({d.op}, {d.id}))
      /\ job.kind = "tool" => NoneOf(toGui, Answers({"tool"}, {job.id}))
      /\ pending.kind = "tool" => NoneOf(toGui, Answers({"tool"}, {pending.id}))
      /\ \A d, e \in deferred : d.id = e.id => d = e BY <1>0 DEF AnsweredApart
<1>7. \A d \in deferred : d.op \in All /\ d.id \in Nat /\ d.id # n /\ d.id \in 1 .. n BY <1>1, <1>4
<1>8. job.id <= n /\ pending.id <= n /\ n \in 1 .. n BY <1>1, <1>4
<1>9. "tool" \in All BY Names
<1>10. /\ ToolsOnce(toGui') /\ NoneOf(toGui', Answers(All, From(n + 1)))
       /\ \A d \in deferred : NoneOf(toGui', Answers({d.op}, {d.id}))
       /\ job.kind = "tool" => NoneOf(toGui', Answers({"tool"}, {job.id}))
       /\ pending.kind = "tool" => NoneOf(toGui', Answers({"tool"}, {pending.id}))
       /\ deferred' = deferred \/ (deferred' = deferred \cup {c} /\ NoneOf(toGui', Answers({o}, {n})))
  <2>1. CASE deferred' = deferred \cup {c} /\ SameAnswers(toGui, toGui')
    BY <1>6, <2>1, <1>0, <1>1, <1>4, <1>7, <1>9, SameApart
  <2>2. CASE UNCHANGED deferred /\ OneMoreAnswer(toGui, toGui', o, n)
    BY <1>0, <1>6, <2>2, <1>1, <1>4, <1>7, <1>9, OneMoreApart
  <2> QED BY <1>2, <1>3, <2>1, <2>2 DEF Operates
<1>11. \A d \in deferred' : d.id \in 1 .. n BY <1>5, <1>7, <1>8, <1>10
<1>12. TakenTo(n)' BY <1>0, <1>4, <1>8, <1>10, <1>11 DEF TakenTo, HeldTo
<1>13. Numbered' BY <1>0, <1>4, <1>12 DEF Numbered, Running
<1>14. \A d \in deferred' : NoneOf(toGui', Answers({d.op}, {d.id})) BY <1>5, <1>10
<1>15. \A d, e \in deferred' : d.id = e.id => d = e BY <1>5, <1>6, <1>7, <1>10
<1>16. AnsweredApart' BY <1>0, <1>10, <1>14, <1>15 DEF AnsweredApart
<1> QED BY <1>13, <1>16 DEF Counted

\* What another thread than the GUI's does.
LEMMA OtherForms ==
    ASSUME TypeOK, Numbered, LinkKnown, WorkerStep \/ Elapse \/ TransportLost \/ GoSilent \/ UNCHANGED vars
    PROVE  UNCHANGED gui /\ (Drops \/ Leaves \/ Joins \/ Works)
BY GuiAlone, DisconnectsForm, ConnectsForm, WorkerForm DEF Numbered, LinkKnown

\* Every step keeps the requests numbered and the answers apart.
LEMMA CountedStep ==
    ASSUME TypeOK, SlotKnown, Counted, LinkKnown, [Next]_vars
    PROVE  Counted'
<1>1. CASE UserStep \/ GuiStep BY <1>1, NumberedGui, ApartGui DEF Counted
<1>2. CASE WorkerStep \/ Elapse \/ TransportLost \/ GoSilent \/ UNCHANGED vars
  <2>1. UNCHANGED gui /\ (Drops \/ Leaves \/ Joins \/ Works) BY <1>2, OtherForms DEF Counted
  <2>2. lastId' = lastId BY <2>1 DEF gui, slot
  <2>3. CASE Drops \/ Leaves \/ Joins BY <2>3, <2>2, CountedAbandons DEF Drops, Leaves, Joins
  <2>4. CASE Works
    <3>1. CASE Idles BY <2>2, <3>1 DEF Idles, Counted, Numbered, AnsweredApart, TakenTo, HeldTo, Running
    <3> QED BY <2>2, <2>4, <3>1, CountedAccepts, CountedStarts, CountedAdvances, CountedRetries, CountedOperates
            DEF Works
  <2> QED BY <2>1, <2>3, <2>4
<1> QED BY <1>1, <1>2 DEF Next

----
(* What the queue of the worker holds when something is posted. *)

\* A queue p holds what q does and the request n for o.
MoreAsked(q, p, o, n) ==
    /\ \A X \in SUBSET All, Y \in SUBSET Nat : NoneOf(p, Requests(X, Y)) <=> NoneOf(q, Requests(X, Y)) /\ ~(o \in X /\ n \in Y)
    /\ \A X \in SUBSET {"connect", "disconnect"}, Y \in SUBSET Nat : NoneOf(p, Links(X, Y)) <=> NoneOf(q, Links(X, Y))
    /\ \A X \in SUBSET All, Y \in SUBSET Nat :
          ~(o \in X /\ n \in Y) /\ Followed(q, Requests(X, Y), Disconnects) => Followed(p, Requests(X, Y), Disconnects)
    /\ \A X, Z \in SUBSET {"connect", "disconnect"}, Y, W \in SUBSET Nat :
          Ordered(q, Links(X, Y), Links(Z, W)) => Ordered(p, Links(X, Y), Links(Z, W))

\* A queue p holds what q does and the begin or end of a connection.
MoreLinked(q, p, op, g) ==
    /\ \A X \in SUBSET All, Y \in SUBSET Nat : NoneOf(p, Requests(X, Y)) <=> NoneOf(q, Requests(X, Y))
    /\ \A X \in SUBSET {"connect", "disconnect"}, Y \in SUBSET Nat :
          NoneOf(p, Links(X, Y)) <=> NoneOf(q, Links(X, Y)) /\ ~(op \in X /\ g \in Y)
    /\ \A X \in SUBSET All, Y \in SUBSET Nat :
          op = "disconnect" \/ Followed(q, Requests(X, Y), Disconnects) => Followed(p, Requests(X, Y), Disconnects)
    /\ \A X, Z \in SUBSET {"connect", "disconnect"}, Y, W \in SUBSET Nat :
          Ordered(q, Links(X, Y), Links(Z, W)) /\ (NoneOf(q, Links(X, Y)) \/ ~(op \in Z /\ g \in W))
              => Ordered(p, Links(X, Y), Links(Z, W))

\* A request appended to the queue of the worker is one more request and no link.
LEMMA RequestAdded ==
    ASSUME NEW q \in Seq(WorkerEvents), NEW o \in All, NEW n \in Nat
    PROVE  q \o <<Request(o, n)>> \in Seq(WorkerEvents) /\ MoreAsked(q, q \o <<Request(o, n)>>, o, n)
<1> DEFINE e == Request(o, n)  p == Append(q, e)
<1>1. e \in WorkerEvents /\ e.op = o /\ e.id = n BY PostedKinds
<1>2. \A X \in SUBSET {"connect", "disconnect"}, Y \in SUBSET Nat : e \notin Links(X, Y) BY PostedKinds
<1> HIDE DEF e
<1>3. p \in Seq(WorkerEvents) /\ p = q \o <<e>> BY <1>1, AddNone
<1>4. ASSUME NEW S PROVE NoneOf(p, S) <=> NoneOf(q, S) /\ e \notin S BY <1>1, AddNone
<1>5. ASSUME NEW S, NEW T, Ordered(q, S, T), e \notin T PROVE Ordered(p, S, T) BY <1>1, <1>3, <1>5, AddOrdered
<1>6. ASSUME NEW S, NEW T, Followed(q, S, T), e \notin S PROVE Followed(p, S, T) BY <1>1, <1>3, <1>6, AddFollowed
<1> HIDE DEF p
<1>7. \A X \in SUBSET All, Y \in SUBSET Nat : e \in Requests(X, Y) <=> o \in X /\ n \in Y BY <1>1, Members
<1>8. MoreAsked(q, p, o, n) BY <1>2, <1>4, <1>5, <1>6, <1>7 DEF MoreAsked
<1> QED BY <1>3, <1>8 DEF e

\* A link appended to the queue of the worker is one more link and no request.
LEMMA LinkAdded ==
    ASSUME NEW q \in Seq(WorkerEvents), NEW op \in {"connect", "disconnect"}, NEW g \in Nat
    PROVE  q \o <<[op |-> op, gen |-> g]>> \in Seq(WorkerEvents) /\ MoreLinked(q, q \o <<[op |-> op, gen |-> g]>>, op, g)
<1> DEFINE e == [op |-> op, gen |-> g]  p == Append(q, e)
<1>1. e \in WorkerEvents /\ e.op = op /\ e.gen = g BY EventKinds
<1> HIDE DEF e
<1>2. Link(e) BY <1>1 DEF Link
<1>9. \A X \in SUBSET All, Y \in SUBSET Nat : e \notin Requests(X, Y) BY <1>2, PostedKinds
<1>3. p \in Seq(WorkerEvents) /\ p = q \o <<e>> BY <1>1, AddNone
<1>4. ASSUME NEW S PROVE NoneOf(p, S) <=> NoneOf(q, S) /\ e \notin S BY <1>1, AddNone
<1>5. ASSUME NEW S, NEW T, Ordered(q, S, T), NoneOf(q, S) \/ e \notin T PROVE Ordered(p, S, T)
  BY <1>1, <1>3, <1>5, AddOrdered
<1>6. ASSUME NEW S, NEW T, Followed(q, S, T) \/ e \in T, e \notin S PROVE Followed(p, S, T)
  BY <1>1, <1>3, <1>6, AddFollowed
<1> HIDE DEF p
<1>7. \A X \in SUBSET {"connect", "disconnect"}, Y \in SUBSET Nat : e \in Links(X, Y) <=> op \in X /\ g \in Y
  BY <1>1, Members
<1>10. op = "disconnect" => e \in Disconnects BY <1>1, <1>7 DEF Disconnects
<1>11. /\ \A X \in SUBSET All, Y \in SUBSET Nat : NoneOf(p, Requests(X, Y)) <=> NoneOf(q, Requests(X, Y))
       /\ \A X \in SUBSET {"connect", "disconnect"}, Y \in SUBSET Nat :
             NoneOf(p, Links(X, Y)) <=> NoneOf(q, Links(X, Y)) /\ ~(op \in X /\ g \in Y) BY <1>4, <1>7, <1>9
<1>12. \A X \in SUBSET All, Y \in SUBSET Nat :
          op = "disconnect" \/ Followed(q, Requests(X, Y), Disconnects) => Followed(p, Requests(X, Y), Disconnects)
  <2> TAKE X \in SUBSET All, Y \in SUBSET Nat
  <2> DEFINE S == Requests(X, Y)
  <2>1. e \notin S BY <1>9
  <2> HIDE DEF S
  <2>2. Followed(q, S, Disconnects) \/ e \in Disconnects => Followed(p, S, Disconnects) BY <1>6, <2>1
  <2> QED BY <1>10, <2>2 DEF S
<1>13. \A X, Z \in SUBSET {"connect", "disconnect"}, Y, W \in SUBSET Nat :
          Ordered(q, Links(X, Y), Links(Z, W)) /\ (NoneOf(q, Links(X, Y)) \/ ~(op \in Z /\ g \in W))
              => Ordered(p, Links(X, Y), Links(Z, W)) BY <1>5, <1>7
<1>8. MoreLinked(q, p, op, g) BY <1>11, <1>12, <1>13 DEF MoreLinked
<1> QED BY <1>3, <1>8 DEF e

\* No request has the number 0.
LEMMA NoZero ==
    ASSUME TypeOK, Numbered
    PROVE  /\ \A o \in All : NoneOf(toWorker, Requests({o}, {0})) /\ Followed(toWorker, Requests({o}, {0}), Disconnects)
           /\ job.kind = "tool" => job.id # 0
           /\ pending.kind = "tool" => pending.id # 0
           /\ \A d \in deferred : d.id # 0
<1>1. PICK m \in 0 .. lastId : TakenTo(m) /\ m \in Nat BY TakenNumbers
<1>2. NoneOf(toWorker, Requests(All, 0 .. m)) BY <1>1 DEF TakenTo
<1>3. ASSUME NEW o \in All PROVE NoneOf(toWorker, Requests({o}, {0}))
  <2>1. {0} \subseteq 0 .. m BY <1>1
  <2>2. Requests({o}, {0}) \subseteq Requests(All, 0 .. m) BY <2>1 DEF Requests
  <2> QED BY <1>2, <2>2, FewerNone
<1>4. job.kind = "tool" => job.id # 0 BY Names DEF TypeOK, Running, Numbered
<1>5. pending.kind = "tool" => pending.id # 0 BY Names DEF Numbered
<1>6. \A d \in deferred : d.id # 0 BY <1>1 DEF TakenTo, HeldTo
<1> QED BY <1>3, <1>4, <1>5, <1>6, NoneFollowed

\* What was answered is not with the worker any more.
LEMMA AnsweredGone ==
    ASSUME TypeOK, Counted, toGui # <<>>, NEW k \in All, Head(toGui).type = k
    PROVE  /\ \A o \in All : NoneOf(toWorker, Requests({o}, {Head(toGui).id}))
           /\ \A o \in All : Followed(toWorker, Requests({o}, {Head(toGui).id}), Disconnects)
           /\ k = "tool" /\ job.kind = "tool" => job.id # Head(toGui).id
           /\ k = "tool" /\ pending.kind = "tool" => pending.id # Head(toGui).id
           /\ \A d \in deferred : d.op = k => d.id # Head(toGui).id
           /\ Head(toGui).id \in Nat
<1> DEFINE h == Head(toGui)
<1>0. Numbered /\ AnsweredApart /\ toGui \in Seq(GuiEvents) BY DEF Counted, TypeOK
<1>1. PICK m \in 0 .. lastId : TakenTo(m) /\ m \in Nat /\ m + 1 \in Nat BY <1>0, TakenNumbers
<1>2. h \in GuiEvents /\ h.type = k BY <1>0, FirstAndRest
<1>9. h.id \in Nat BY <1>2, EventKinds
<1>3. ASSUME NEW S, NoneOf(toGui, S) PROVE h \notin S BY <1>0, <1>3, TakeNone
<1> HIDE DEF h
<1>4. \A X \in SUBSET All, Y \in SUBSET Nat : h \in Answers(X, Y) <=> k \in X /\ h.id \in Y BY <1>2, Members
<1>5. h.id <= m BY <1>1, <1>3, <1>4, <1>9, FromIs DEF TakenTo, HeldTo, From
<1>6. ASSUME NEW o \in All PROVE NoneOf(toWorker, Requests({o}, {h.id}))
  <2>1. {h.id} \subseteq 0 .. m BY <1>1, <1>5, <1>9
  <2>2. Requests({o}, {h.id}) \subseteq Requests(All, 0 .. m) BY <2>1 DEF Requests
  <2> QED BY <1>1, <2>2, FewerNone DEF TakenTo
<1>7. ASSUME NEW i, i = h.id PROVE ~NoneOf(toGui, Answers({k}, {i})) BY <1>3, <1>4, <1>7, <1>9
<1>8. /\ k = "tool" /\ job.kind = "tool" => job.id # h.id
      /\ k = "tool" /\ pending.kind = "tool" => pending.id # h.id
      /\ \A d \in deferred : d.op = k => d.id # h.id BY <1>0, <1>7 DEF AnsweredApart
<1> QED BY <1>6, <1>8, <1>9, NoneFollowed DEF h

----
(* The requests of the session and those of earlier connections. *)

\* A request n for o, of the one who asks next, leaves the others as they are.
LEMMA OwnAsked ==
    ASSUME NEW q, NEW p, NEW o \in All, NEW n \in Nat, MoreAsked(q, p, o, n),
           \A k \in All : Followed(q, Requests({k}, {0}), Disconnects)
    PROVE  /\ OwnIn(q, o, 0) => OwnIn(p, o, n)
           /\ \A k \in All, i \in Nat : k # o /\ OwnIn(q, k, i) => OwnIn(p, k, i)
           /\ NoneOf(p, Disconnects) <=> NoneOf(q, Disconnects)
<1>1. ASSUME NEW k \in All, NEW x \in 0 .. MaxRequests, ~(o = k /\ n = x), Followed(q, Requests({k}, {x}), Disconnects)
      PROVE  Followed(p, Requests({k}, {x}), Disconnects) BY <1>1 DEF MoreAsked
<1>2. ASSUME OwnIn(q, o, 0) PROVE OwnIn(p, o, n)
  <2> SUFFICES ASSUME NEW x \in 0 .. MaxRequests, n # x PROVE Followed(p, Requests({o}, {x}), Disconnects)
    BY DEF OwnIn
  <2>1. Followed(q, Requests({o}, {x}), Disconnects) BY <1>2 DEF OwnIn
  <2> QED BY <1>1, <2>1
<1>3. ASSUME NEW k \in All, NEW i \in Nat, k # o, OwnIn(q, k, i) PROVE OwnIn(p, k, i)
  <2> SUFFICES ASSUME NEW x \in 0 .. MaxRequests, i # x PROVE Followed(p, Requests({k}, {x}), Disconnects)
    BY DEF OwnIn
  <2>1. Followed(q, Requests({k}, {x}), Disconnects) BY <1>3 DEF OwnIn
  <2> QED BY <1>1, <1>3, <2>1
<1>4. NoneOf(p, Disconnects) <=> NoneOf(q, Disconnects) BY DEF MoreAsked, Disconnects
<1> QED BY <1>2, <1>3, <1>4

\* Nothing that must not wait behind a tool is newer than the newest request.
LEMMA NewestTool ==
    ASSUME TypeOK, Numbered
    PROVE  /\ NoneOf(toWorker, Requests(All \ {"tool", "files"}, From(lastId + 1)))
           /\ pending.id < lastId + 1 /\ lastId + 1 \in Nat
<1>1. PICK m \in 0 .. lastId : TakenTo(m) /\ m \in Nat /\ lastId \in Nat /\ m <= lastId /\ pending.id \in Nat
  BY TakenNumbers
<1>2. NoneOf(toWorker, Requests(All, From(lastId + 1))) BY DEF Numbered, InOrder
<1>3. Requests(All \ {"tool", "files"}, From(lastId + 1)) \subseteq Requests(All, From(lastId + 1)) BY DEF Requests
<1>4. NoneOf(toWorker, Requests(All \ {"tool", "files"}, From(lastId + 1))) BY <1>2, <1>3, FewerNone
<1>5. pending.id <= m BY <1>1 DEF TakenTo, HeldTo
<1> QED BY <1>1, <1>4, <1>5

\* What a query of the server tools leaves.
LEMMA OwnQueried ==
    ASSUME TypeOK, Numbered, toolReq' = 0 \/ (toolReq' = lastId + 1 /\ lastId < MaxRequests),
           OwnIn(toWorker, "tool", 0)
    PROVE  /\ OwnIn(Queried, "tool", toolReq') /\ Queried \in Seq(WorkerEvents)
           /\ \A o \in Ops, n \in Nat : OwnIn(toWorker, o, n) => OwnIn(Queried, o, n)
           /\ NoneOf(Queried, Disconnects) <=> NoneOf(toWorker, Disconnects)
           /\ toolReq' # 0 => /\ NoneOf(Queried, Requests(All \ {"tool", "files"}, From(toolReq')))
                              /\ pending.id < toolReq'
<1>1. toWorker \in Seq(WorkerEvents) /\ lastId \in Nat BY Names DEF TypeOK
<1>2. CASE toolReq' = 0 BY <1>1, <1>2 DEF Queried
<1>3. CASE toolReq' # 0
  <2>1. toolReq' = lastId + 1 /\ toolReq' \in Nat BY <1>1, <1>3
  <2>2. Queried = toWorker \o <<Request("tool", lastId + 1)>> BY <1>3, <2>1 DEF Queried
  <2>3. Queried \in Seq(WorkerEvents) /\ MoreAsked(toWorker, Queried, "tool", lastId + 1)
    BY <1>1, <2>1, <2>2, Names, RequestAdded
  <2>4. /\ OwnIn(Queried, "tool", lastId + 1)
        /\ \A o \in Ops, n \in Nat : OwnIn(toWorker, o, n) => OwnIn(Queried, o, n)
        /\ NoneOf(Queried, Disconnects) <=> NoneOf(toWorker, Disconnects) BY <2>1, <2>3, Names, NoZero, OwnAsked
  <2>5. NoneOf(Queried, Requests(All \ {"tool", "files"}, From(lastId + 1)))
    BY <2>1, <2>3, FromIs, NewestTool DEF MoreAsked
  <2> QED BY <2>1, <2>3, <2>4, <2>5, NewestTool
<1> QED BY <1>2, <1>3

\* What the end of a connection leaves: after every request comes that end.
LEMMA OwnEnded ==
    ASSUME NEW q \in Seq(WorkerEvents), wgen' \in Nat,
           \/ toWorker' = q \o <<Ending>>
           \/ toWorker' = (q \o <<Ending>>) \o <<Beginning(wgen')>>
    PROVE  /\ \A o \in All, n \in Nat : OwnIn(toWorker', o, n)
           /\ ~NoneOf(toWorker', Disconnects)
           /\ \A X \in SUBSET All, Y \in SUBSET Nat : NoneOf(q, Requests(X, Y)) => NoneOf(toWorker', Requests(X, Y))
<1> DEFINE p == q \o <<Ending>>
<1>1. p \in Seq(WorkerEvents) /\ MoreLinked(q, p, "disconnect", 0) BY LinkAdded DEF Ending
<1> HIDE DEF p
<1>2. CASE toWorker' = p
  <2>1. \A X \in SUBSET All, Y \in SUBSET Nat : Followed(toWorker', Requests(X, Y), Disconnects)
    BY <1>1, <1>2 DEF MoreLinked
  <2>2. \A X \in SUBSET All, Y \in SUBSET Nat : NoneOf(q, Requests(X, Y)) => NoneOf(toWorker', Requests(X, Y))
    BY <1>1, <1>2 DEF MoreLinked
  <2>3. ~NoneOf(toWorker', Disconnects) BY <1>1, <1>2 DEF MoreLinked, Disconnects
  <2> QED BY <2>1, <2>2, <2>3 DEF OwnIn
<1>3. CASE toWorker' = p \o <<Beginning(wgen')>>
  <2>0. MoreLinked(p, toWorker', "connect", wgen') BY <1>1, <1>3, LinkAdded DEF Beginning
  <2>1. \A X \in SUBSET All, Y \in SUBSET Nat : Followed(toWorker', Requests(X, Y), Disconnects)
    BY <1>1, <2>0 DEF MoreLinked
  <2>2. \A X \in SUBSET All, Y \in SUBSET Nat : NoneOf(q, Requests(X, Y)) => NoneOf(toWorker', Requests(X, Y))
    BY <1>1, <2>0 DEF MoreLinked
  <2>3. ~NoneOf(toWorker', Disconnects) BY <1>1, <2>0 DEF MoreLinked, Disconnects
  <2> QED BY <2>1, <2>2, <2>3 DEF OwnIn
<1> QED BY <1>2, <1>3 DEF p

Own == OwnRequests /\ ToolIsLast
Ends == ~NoneOf(toWorker, Disconnects)

\* The slot is free, or its tool answered, and may be taken again.
LEMMA OwnFreed ==
    ASSUME TypeOK, Numbered, Own, UNCHANGED <<job, pending, deferred, wup, wactive, asked>>,
           toWorker' = Queried, toolReq' = 0 \/ (toolReq' = lastId + 1 /\ lastId < MaxRequests),
           OwnIn(toWorker, "tool", 0),
           job.kind = "tool" \/ pending.kind = "tool" => Ends
    PROVE  Own'
<1>1. /\ OwnIn(toWorker', "tool", toolReq')
      /\ \A o \in Ops, n \in Nat : OwnIn(toWorker, o, n) => OwnIn(toWorker', o, n)
      /\ Ends' <=> Ends
      /\ toolReq' # 0 => /\ NoneOf(toWorker', Requests(All \ {"tool", "files"}, From(toolReq')))
                         /\ pending.id < toolReq' BY OwnQueried DEF Ends
<1>2. \A o \in Ops : asked[o] \in Nat BY DEF TypeOK
<1>3. /\ \A o \in Ops : OwnIn(toWorker, o, asked[o])
      /\ wup => \A d \in deferred : d.gen = wactive => asked[d.op] = d.id \/ Ends BY DEF Own, OwnRequests, Ends
<1>4. \A o \in Ops : OwnIn(toWorker', o, asked'[o]) BY <1>1, <1>2, <1>3
<1>5. OwnRequests' BY <1>1, <1>3, <1>4 DEF OwnRequests, Ends
<1>6. ToolIsLast' BY <1>1 DEF ToolIsLast
<1> QED BY <1>5, <1>6 DEF Own

\* The GUI thread keeps to what it asked for.
LEMMA OwnGui ==
    ASSUME TypeOK, SlotKnown, Counted, Own, UserStep \/ GuiStep
    PROVE  Own'
<1>0. /\ Numbered /\ OwnRequests /\ ToolIsLast /\ toWorker \in Seq(WorkerEvents)
      /\ lastId \in Nat /\ lastId + 1 \in Nat /\ toolReq \in Nat /\ sizeReq \in Nat
  BY Names DEF Counted, Own, TypeOK
<1>1. UNCHANGED worker BY GuiPosts
<1>2. UNCHANGED <<job, pending, deferred, wup, wactive>> BY <1>1 DEF worker, channel
<1>3. /\ OwnIn(toWorker, "tool", toolReq) /\ \A o \in Ops : OwnIn(toWorker, o, asked[o]) /\ asked[o] \in Nat
      /\ job.kind = "tool" => job.id = toolReq \/ Ends
      /\ pending.kind = "tool" => pending.id = toolReq \/ Ends
      /\ wup => \A d \in deferred : d.gen = wactive => asked[d.op] = d.id \/ Ends
  BY <1>0 DEF OwnRequests, Ends, TypeOK
<1>4. /\ \A k \in All : Followed(toWorker, Requests({k}, {0}), Disconnects)
      /\ job.kind = "tool" => job.id # 0
      /\ pending.kind = "tool" => pending.id # 0
      /\ \A d \in deferred : d.id # 0 BY <1>0, NoZero
<1>5. ASSUME UNCHANGED <<toWorker, toolReq, asked>> PROVE Own'
  BY <1>0, <1>2, <1>5 DEF Own, OwnRequests, ToolIsLast
<1>6. ASSUME NEW o \in All, lastId < MaxRequests, lastId' = lastId + 1, Send([op |-> o, id |-> lastId'])
      PROVE  toWorker' = toWorker \o <<Request(o, lastId + 1)>> /\ MoreAsked(toWorker, toWorker', o, lastId + 1)
  <2> DEFINE e == Request(o, lastId + 1)
  <2>1. e \in WorkerEvents BY <1>0, PostedKinds
  <2>2. toWorker' = Append(toWorker, e) BY <1>6 DEF Send, Request
  <2> HIDE DEF e
  <2>3. toWorker' = toWorker \o <<e>> BY <1>0, <2>1, <2>2, AddNone
  <2> QED BY <1>0, <2>3, RequestAdded DEF e
<1>7. ASSUME NEW w \in Windows, RunTool(w) PROVE Own'
  BY <1>7, <1>6, <1>0, <1>2, <1>3, <1>4, Names, OwnFreed DEF RunTool, SlotFree, Queried
<1>8. CASE CalculateSize
  <2>1. /\ toolReq = 0 /\ lastId' = lastId + 1 /\ lastId < MaxRequests /\ UNCHANGED <<toolReq, asked>>
        /\ Send([op |-> "size", id |-> lastId']) BY <1>8 DEF CalculateSize
  <2>2. MoreAsked(toWorker, toWorker', "size", lastId + 1) BY <1>6, <2>1, Names
  <2>3. /\ \A k \in All, i \in Nat : k # "size" /\ OwnIn(toWorker, k, i) => OwnIn(toWorker', k, i)
        /\ Ends' <=> Ends BY <1>0, <1>4, <2>2, Names, OwnAsked DEF Ends
  <2>4. OwnIn(toWorker', "tool", toolReq') /\ \A o \in Ops : OwnIn(toWorker', o, asked'[o])
    BY <1>0, <1>3, <2>1, <2>3, Names
  <2>5. OwnRequests' BY <1>2, <1>3, <2>1, <2>3, <2>4 DEF OwnRequests, Ends
  <2> QED BY <2>1, <2>5 DEF Own, ToolIsLast
<1>9. ASSUME NEW o \in Ops, Ask(o) PROVE Own'
  <2>1. /\ asked[o] = 0 /\ (o = "metrics" => toolReq = 0) /\ lastId' = lastId + 1 /\ lastId < MaxRequests
        /\ asked' = [asked EXCEPT ![o] = lastId + 1] /\ UNCHANGED toolReq
        /\ Send([op |-> o, id |-> lastId']) BY <1>9 DEF Ask
  <2>2. MoreAsked(toWorker, toWorker', o, lastId + 1) BY <1>6, <2>1, Names
  <2>3. /\ \A k \in All, i \in Nat : k # o /\ OwnIn(toWorker, k, i) => OwnIn(toWorker', k, i)
        /\ OwnIn(toWorker, o, 0) => OwnIn(toWorker', o, lastId + 1)
        /\ Ends' <=> Ends BY <1>0, <1>4, <2>2, Names, OwnAsked DEF Ends
  <2>4. \A p \in Ops : asked'[p] = IF p = o THEN lastId + 1 ELSE asked[p] BY <2>1 DEF TypeOK
  <2>5. \A p \in Ops : OwnIn(toWorker', p, asked'[p])
    <3> TAKE p \in Ops
    <3>1. CASE p = o BY <1>3, <2>1, <2>3, <2>4, <3>1
    <3>2. CASE p # o BY <1>3, <2>3, <2>4, <3>2, Names
    <3> QED BY <3>1, <3>2
  <2>6. OwnIn(toWorker', "tool", toolReq') BY <1>0, <1>3, <2>1, <2>3, Names
  <2>7. \A d \in deferred : d.op \in Ops BY DEF TypeOK
  <2>8. wup => \A d \in deferred : d.gen = wactive => asked'[d.op] = d.id \/ Ends
    BY <1>3, <1>4, <2>1, <2>4, <2>7
  <2>9. OwnRequests' BY <1>2, <1>3, <2>1, <2>3, <2>5, <2>6, <2>8 DEF OwnRequests, Ends
  <2>10. ToolIsLast'
    <3> SUFFICES ASSUME toolReq # 0 PROVE NoneOf(toWorker', Requests(All \ {"tool", "files"}, From(toolReq)))
      BY <1>0, <1>2, <2>1 DEF ToolIsLast
    <3>1. o = "files" BY <2>1, OpAssumption
    <3>2. NoneOf(toWorker, Requests(All \ {"tool", "files"}, From(toolReq))) BY <1>0 DEF ToolIsLast
    <3>3. /\ All \ {"tool", "files"} \in SUBSET All /\ From(toolReq) \in SUBSET Nat
          /\ ~(o \in All \ {"tool", "files"} /\ lastId + 1 \in From(toolReq)) BY <1>0, <3>1, FromIs
    <3> QED BY <2>2, <3>2, <3>3 DEF MoreAsked
  <2> QED BY <2>9, <2>10 DEF Own
<1>10. ASSUME CancelSize \/ CancelTask \/ SwitchTab \/ HideTools \/ HideInstall \/ StopAgent
       PROVE  UNCHANGED <<toWorker, toolReq, asked>>
  BY <1>10 DEF CancelSize, CancelTask, SwitchTab, HideTools, HideInstall, StopAgent, CancelTool
<1>11. CASE Connect \/ Disconnect
  <2>1. EndConnection BY <1>11 DEF Connect, Disconnect
  <2>2. /\ \/ toolReq' = 0
           \/ toolReq' = lastId + 1 /\ lastId < MaxRequests
        /\ (\A o \in Ops : asked'[o] = 0) /\ wgen' \in Nat /\ toolReq' \in Nat BY <2>1, EndEffects DEF SlotKnown
  <2>3. Queried \in Seq(WorkerEvents) /\ toWorker \o Teardown = Queried \o <<Ending>> BY <2>2, PostedForm
  <2>4. \/ toWorker' = Queried \o <<Ending>>
        \/ toWorker' = (Queried \o <<Ending>>) \o <<Beginning(wgen')>>
    BY <1>11, <2>3 DEF Connect, Disconnect, Beginning
  <2>5. /\ \A o \in All, n \in Nat : OwnIn(toWorker', o, n)
        /\ Ends'
        /\ \A X \in SUBSET All, Y \in SUBSET Nat : NoneOf(Queried, Requests(X, Y)) => NoneOf(toWorker', Requests(X, Y))
    BY <2>2, <2>3, <2>4, OwnEnded DEF Ends
  <2>6. OwnIn(toWorker', "tool", toolReq') /\ \A o \in Ops : OwnIn(toWorker', o, asked'[o]) BY <2>2, <2>5, Names
  <2>7. OwnRequests' BY <2>5, <2>6 DEF OwnRequests, Ends
  <2>8. toolReq' # 0 => /\ NoneOf(toWorker', Requests(All \ {"tool", "files"}, From(toolReq')))
                        /\ pending.id < toolReq'
    <3> SUFFICES ASSUME toolReq' # 0 PROVE /\ NoneOf(toWorker', Requests(All \ {"tool", "files"}, From(toolReq')))
                                           /\ pending.id < toolReq' OBVIOUS
    <3>1. toolReq' = lastId + 1 BY <2>2
    <3>2. MoreAsked(toWorker, Queried, "tool", lastId + 1) BY <1>0, <2>2, <3>1, Names, RequestAdded DEF Queried
    <3>3. NoneOf(toWorker, Requests(All \ {"tool", "files"}, From(lastId + 1))) /\ pending.id < lastId + 1
      BY <1>0, NewestTool
    <3>4. All \ {"tool", "files"} \in SUBSET All /\ From(lastId + 1) \in SUBSET Nat BY <1>0, FromIs
    <3>5. NoneOf(Queried, Requests(All \ {"tool", "files"}, From(lastId + 1))) BY <3>2, <3>3, <3>4 DEF MoreAsked
    <3> QED BY <2>5, <3>1, <3>3, <3>4, <3>5
  <2> QED BY <1>2, <2>7, <2>8 DEF Own, ToolIsLast
<1>12. CASE HandleToolFinished
  <2>1. CASE UNCHANGED <<toolReq, toWorker>> BY <1>5, <1>12, <2>1 DEF HandleToolFinished
  <2>2. CASE ToolAnswered /\ toolReq # 0 /\ Head(toGui).id = toolReq /\ toWorker' = toWorker \o Requested
    <3>1. toGui # <<>> /\ Head(toGui).type = "tool" BY <1>12 DEF HandleToolFinished, Deliver
    <3>2. toolReq' = 0 \/ (toolReq' = lastId + 1 /\ lastId < MaxRequests) BY <2>2, AnsweredEffects DEF SlotKnown
    <3>3. toolReq' \in Nat BY <1>0, <3>2
    <3>4. toWorker' = Queried BY <2>2, <3>3, PostedForm
    <3>5. /\ Followed(toWorker, Requests({"tool"}, {toolReq}), Disconnects)
          /\ job.kind = "tool" => job.id # toolReq
          /\ pending.kind = "tool" => pending.id # toolReq BY <2>2, <3>1, AnsweredGone, Names
    <3>6. OwnIn(toWorker, "tool", 0) BY <1>3, <3>5 DEF OwnIn
    <3>7. UNCHANGED asked BY <1>12 DEF HandleToolFinished
    <3> QED BY <1>0, <1>2, <1>3, <3>2, <3>4, <3>5, <3>6, <3>7, OwnFreed
  <2> QED BY <1>12, <2>1, <2>2 DEF HandleToolFinished
<1>13. CASE HandleSizeCalculated \/ HandleUp \/ HandleDown
  BY <1>13, <1>5 DEF HandleSizeCalculated, HandleUp, HandleDown, slot
<1>14. ASSUME NEW o \in Ops, HandleOpDone(o) PROVE Own'
  <2>1. UNCHANGED <<toWorker, toolReq>> /\ toGui # <<>> /\ Head(toGui).type = o BY <1>14 DEF HandleOpDone, slot, Deliver
  <2>2. CASE asked' = asked BY <1>5, <2>1, <2>2
  <2>3. CASE asked[o] = Head(toGui).id /\ asked' = [asked EXCEPT ![o] = 0]
    <3>1. \A p \in Ops : asked'[p] = IF p = o THEN 0 ELSE asked[p] BY <2>3 DEF TypeOK
    <3>2. Followed(toWorker, Requests({o}, {asked[o]}), Disconnects) /\ \A d \in deferred : d.op = o => d.id # asked[o]
      BY <2>1, <2>3, AnsweredGone, Names
    <3>3. OwnIn(toWorker, o, 0) BY <1>3, <3>2 DEF OwnIn
    <3>4. \A p \in Ops : OwnIn(toWorker, p, asked'[p]) BY <1>3, <3>1, <3>3
    <3>5. \A d \in deferred : d.op \in Ops BY DEF TypeOK
    <3>6. wup => \A d \in deferred : d.gen = wactive => asked'[d.op] = d.id \/ Ends BY <1>3, <3>1, <3>2, <3>5
    <3>7. OwnRequests' BY <1>2, <1>3, <2>1, <3>4, <3>6 DEF OwnRequests, Ends
    <3> QED BY <1>0, <1>2, <2>1, <3>7 DEF Own, ToolIsLast
  <2> QED BY <1>14, <2>2, <2>3 DEF HandleOpDone
<1> QED BY <1>5, <1>7, <1>8, <1>9, <1>10, <1>11, <1>12, <1>13, <1>14 DEF UserStep, GuiStep

\* The first event is taken: a request of the session, or of a connection
\* whose end is still queued.
LEMMA OwnPops ==
    ASSUME TypeOK, Numbered, Pops
    PROVE  /\ \A o \in All, n \in Nat : OwnIn(toWorker, o, n) => OwnIn(toWorker', o, n)
           /\ \A o \in All, n \in Nat : Head(toWorker).op = o /\ OwnIn(toWorker, o, n) => Head(toWorker).id = n \/ Ends'
           /\ Head(toWorker).op \in All => (Ends => Ends')
           /\ Head(toWorker).op \in All => Head(toWorker).id \in Nat
           /\ \A X \in SUBSET All, Y \in SUBSET Nat : NoneOf(toWorker, Requests(X, Y)) =>
                 /\ NoneOf(toWorker', Requests(X, Y))
                 /\ Head(toWorker).op \in X => Head(toWorker).id \notin Y
<1>0. toWorker \in Seq(WorkerEvents) /\ toWorker # <<>> /\ toWorker' = Tail(toWorker) BY DEF TypeOK, Pops
<1> DEFINE h == Head(toWorker)
<1>1. h \in WorkerEvents BY <1>0, FirstAndRest
<1>2. ASSUME NEW S PROVE NoneOf(toWorker, S) <=> h \notin S /\ NoneOf(toWorker', S) BY <1>0, TakeNone
<1>3. ASSUME NEW S, NEW T, Followed(toWorker, S, T)
      PROVE  Followed(toWorker', S, T) /\ (h \in S => ~NoneOf(toWorker', T)) BY <1>0, <1>3, TakeFollowed
<1>4. h.op \in All => h.id \in 0 .. MaxRequests /\ h.id \in Nat BY <1>0, InOrderTaken, Names DEF TypeOK, Numbered
<1> HIDE DEF h
<1>5. \A X \in SUBSET All, Y \in SUBSET Nat : h \in Requests(X, Y) <=> h.op \in X /\ h.id \in Y BY <1>1, Members
<1>6. ASSUME NEW o \in All, NEW n \in Nat, OwnIn(toWorker, o, n) PROVE OwnIn(toWorker', o, n)
  BY <1>3, <1>6 DEF OwnIn
<1>7. ASSUME NEW o \in All, NEW n \in Nat, h.op = o, OwnIn(toWorker, o, n) PROVE h.id = n \/ Ends'
  <2> SUFFICES ASSUME h.id # n PROVE Ends' OBVIOUS
  <2>1. h.id \in 0 .. MaxRequests /\ h.id \in Nat BY <1>4, <1>7
  <2>2. Followed(toWorker, Requests({o}, {h.id}), Disconnects) BY <1>7, <2>1 DEF OwnIn
  <2>3. h \in Requests({o}, {h.id}) BY <1>5, <1>7, <2>1
  <2> QED BY <1>3, <2>2, <2>3 DEF Ends
<1>8. ASSUME h.op \in All, Ends PROVE Ends' BY <1>8, <1>1, <1>2, Names, Members DEF Disconnects, Ends
<1>9. \A X \in SUBSET All, Y \in SUBSET Nat : NoneOf(toWorker, Requests(X, Y)) =>
                 /\ NoneOf(toWorker', Requests(X, Y))
                 /\ h.op \in X => h.id \notin Y BY <1>2, <1>5
<1> QED BY <1>4, <1>6, <1>7, <1>8, <1>9 DEF h

\* The worker takes requests of the session, or of a connection that ends.
LEMMA OwnWorker ==
    ASSUME TypeOK, SlotKnown, Counted, Own, LinkKnown, UNCHANGED gui, Drops \/ Leaves \/ Joins \/ Works
    PROVE  Own'
<1>0. /\ Numbered /\ UNCHANGED <<toolReq, asked>> /\ toolReq \in Nat /\ \A o \in Ops : asked[o] \in Nat
      /\ NoJob.id = 0 /\ NoJob.kind = "size" /\ wactive \in Nat BY Names DEF Counted, gui, slot, TypeOK
<1>1. /\ OwnIn(toWorker, "tool", toolReq) /\ \A o \in Ops : OwnIn(toWorker, o, asked[o])
      /\ job.kind = "tool" => job.id = toolReq \/ Ends
      /\ pending.kind = "tool" => pending.id = toolReq \/ Ends
      /\ wup => \A d \in deferred : d.gen = wactive => asked[d.op] = d.id \/ Ends
      /\ toolReq # 0 => /\ NoneOf(toWorker, Requests(All \ {"tool", "files"}, From(toolReq)))
                        /\ pending.kind = "size" => pending.id < toolReq
  BY DEF Own, OwnRequests, ToolIsLast, Ends
<1>2. ASSUME toWorker' = toWorker \/ Pops
      PROVE  /\ OwnIn(toWorker', "tool", toolReq) /\ \A o \in Ops : OwnIn(toWorker', o, asked[o])
             /\ toolReq # 0 => NoneOf(toWorker', Requests(All \ {"tool", "files"}, From(toolReq)))
  BY <1>1, <1>0, <1>2, OwnPops, FromIs, Names
<1>3. ASSUME toWorker' = toWorker \/ Pops,
             job'.kind = "tool" => job'.id = toolReq \/ Ends',
             pending'.kind = "tool" => pending'.id = toolReq \/ Ends',
             wup' => \A d \in deferred' : d.gen = wactive' => asked[d.op] = d.id \/ Ends',
             toolReq # 0 => (pending'.kind = "size" => pending'.id < toolReq)
      PROVE  Own' BY <1>0, <1>2, <1>3 DEF Own, OwnRequests, ToolIsLast, Ends
<1>4. CASE Drops \/ Leaves BY <1>0, <1>3, <1>4 DEF Drops, Leaves, Abandons
<1>5. CASE Joins
  <2>1. /\ Pops /\ job' = NoJob /\ pending' = NoJob /\ UNCHANGED deferred /\ wactive' = Head(toWorker).gen
        /\ Head(toWorker).op = "connect" BY <1>5 DEF Joins, Abandons
  <2>2. toWorker \in Seq(WorkerEvents) /\ toWorker # <<>> BY <2>1 DEF TypeOK, Pops
  <2>3. Head(toWorker) \in WorkerEvents /\ (NoneOf(toWorker, Links({"connect"}, 0 .. wactive)) => Head(toWorker) \notin Links({"connect"}, 0 .. wactive))
    BY <2>2, FirstAndRest, TakeNone
  <2>4. Head(toWorker).gen \in Nat BY <2>1, <2>3, EventKinds
  <2>5. Head(toWorker).gen \notin 0 .. wactive BY <1>0, <2>1, <2>3, Members DEF LinkKnown, LinksIn
  <2>6. \A d \in deferred : d.gen <= wactive /\ d.gen \in Nat BY DEF LinkKnown, TypeOK
  <2>7. \A d \in deferred' : d.gen # wactive' BY <1>0, <2>1, <2>4, <2>5, <2>6
  <2> QED BY <1>0, <1>3, <2>1, <2>7
<1>6. CASE Works
  <2>0. UNCHANGED <<wup, wactive>> BY <1>6 DEF Works, Quiet
  <2>1. ASSUME Accepts, UNCHANGED deferred PROVE Own'
    <3>1. Pops /\ Head(toWorker).op \in Kinds /\ Head(toWorker).op \in All BY <2>1, Names DEF Accepts
    <3> DEFINE j == [kind |-> Head(toWorker).op, id |-> Head(toWorker).id]
    <3>2. job' \in {job, j, NoJob} /\ pending' \in {pending, j, NoJob} BY <2>1 DEF Accepts, Starts
    <3>3. /\ Ends => Ends'
          /\ Head(toWorker).op = "tool" => Head(toWorker).id = toolReq \/ Ends'
          /\ Head(toWorker).op = "size" /\ toolReq # 0 => Head(toWorker).id \notin From(toolReq)
          /\ Head(toWorker).id \in Nat BY <1>0, <1>1, <3>1, Names, FromIs, OwnPops
    <3>4. j.kind = Head(toWorker).op /\ j.id = Head(toWorker).id OBVIOUS
    <3>5. Head(toWorker).op = "size" /\ toolReq # 0 => Head(toWorker).id < toolReq BY <1>0, <3>3, FromIs
    <3> HIDE DEF j
    <3>6. job'.kind = "tool" => job'.id = toolReq \/ Ends' BY <1>0, <1>1, <3>2, <3>3, <3>4
    <3>7. pending'.kind = "tool" => pending'.id = toolReq \/ Ends' BY <1>0, <1>1, <3>2, <3>3, <3>4
    <3>8. toolReq # 0 => (pending'.kind = "size" => pending'.id < toolReq) BY <1>0, <1>1, <3>2, <3>4, <3>5
    <3>9. wup' => \A d \in deferred' : d.gen = wactive' => asked[d.op] = d.id \/ Ends' BY <1>1, <2>0, <2>1, <3>3
    <3> QED BY <1>3, <3>1, <3>6, <3>7, <3>8, <3>9
  <2>2. ASSUME Starts(pending) \/ Advances \/ Idles, UNCHANGED <<toWorker, deferred>> PROVE Own'
    BY <2>2, <1>0, <1>1, <1>3, <2>0 DEF Starts, Advances, Idles, Ends
  <2>3. ASSUME NEW o \in Ops, Operates(o) PROVE Own'
    <3>1. Pops /\ Head(toWorker).op = o /\ o \in All /\ UNCHANGED <<job, pending>> BY <2>3, Names DEF Operates
    <3>2. (Ends => Ends') /\ (Head(toWorker).id = asked[o] \/ Ends') BY <1>0, <1>1, <3>1, OwnPops
    <3> DEFINE c == [op |-> o, id |-> Head(toWorker).id, gen |-> wactive]
    <3>3. \A d \in deferred' : d \in deferred \/ d = c BY <2>3 DEF Operates
    <3>4. c.op = o /\ c.id = Head(toWorker).id OBVIOUS
    <3> HIDE DEF c
    <3>5. wup' => \A d \in deferred' : d.gen = wactive' => asked[d.op] = d.id \/ Ends'
      BY <1>1, <2>0, <3>2, <3>3, <3>4
    <3> QED BY <1>1, <1>3, <3>1, <3>2, <3>5
  <2>4. ASSUME NEW d \in deferred, Retries(d) PROVE Own' BY <2>4, <1>1, <1>3, <2>0 DEF Retries, Ends
  <2>5. Idles => UNCHANGED <<toWorker, deferred>> BY DEF Idles
  <2> QED BY <1>6, <2>1, <2>2, <2>3, <2>4, <2>5 DEF Works
<1> QED BY <1>4, <1>5, <1>6

----
(* Connections. *)

\* The sets of links are sets of begins, ends and generations.
LEMMA LinkSets ==
    /\ {"connect"} \in SUBSET {"connect", "disconnect"} /\ {"connect", "disconnect"} \in SUBSET {"connect", "disconnect"}
    /\ \A n \in Nat : 0 .. n \in SUBSET Nat /\ From(n) \in SUBSET Nat /\ From(n + 1) \in SUBSET Nat /\ {n} \in SUBSET Nat
    /\ Nat \in SUBSET Nat
    /\ \A n \in Nat : n + 1 \in Nat BY FromIs

\* A request does not touch the links.
LEMMA LinksAsked ==
    ASSUME NEW q, NEW p, NEW o, NEW n, MoreAsked(q, p, o, n),
           NEW own \in Nat, NEW current \in Nat, NEW begun \in Nat, LinksIn(q, own, current, begun)
    PROVE  LinksIn(p, own, current, begun)
<1>1. /\ \A X \in SUBSET {"connect", "disconnect"}, Y \in SUBSET Nat : NoneOf(p, Links(X, Y)) <=> NoneOf(q, Links(X, Y))
      /\ \A X, Z \in SUBSET {"connect", "disconnect"}, Y, W \in SUBSET Nat :
            Ordered(q, Links(X, Y), Links(Z, W)) => Ordered(p, Links(X, Y), Links(Z, W)) BY DEF MoreAsked
<1>2. NoneOf(p, Links({"connect"}, 0 .. begun)) /\ NoneOf(p, Links({"connect"}, From(current + 1)))
  BY <1>1, LinkSets DEF LinksIn
<1>3. ASSUME NEW g \in 1 .. current PROVE Ordered(p, Links({"connect"}, From(g)), Links({"connect"}, 0 .. g))
  BY <1>1, LinkSets DEF LinksIn
<1>4. own # 0 => Ordered(p, Links({"connect"}, {own}), AnyLink) BY <1>1, LinkSets DEF LinksIn, AnyLink
<1>5. own # 0 /\ begun = own => NoneOf(p, AnyLink) BY <1>1, LinkSets DEF LinksIn, AnyLink
<1> QED BY <1>2, <1>3, <1>4, <1>5 DEF LinksIn

\* The session ends its connection,
LEMMA LinksEnded ==
    ASSUME NEW q, NEW p, MoreLinked(q, p, "disconnect", 0),
           NEW own \in Nat, NEW current \in Nat, NEW begun \in Nat, LinksIn(q, own, current, begun)
    PROVE  LinksIn(p, 0, current + 1, begun) /\ NoneOf(p, Links({"connect"}, From(current + 1)))
<1>1. /\ \A Y \in SUBSET Nat : NoneOf(p, Links({"connect"}, Y)) <=> NoneOf(q, Links({"connect"}, Y))
      /\ \A Y, W \in SUBSET Nat :
            Ordered(q, Links({"connect"}, Y), Links({"connect"}, W)) => Ordered(p, Links({"connect"}, Y), Links({"connect"}, W))
  BY LinkSets DEF MoreLinked
<1>2. NoneOf(p, Links({"connect"}, 0 .. begun)) /\ NoneOf(p, Links({"connect"}, From(current + 1)))
  BY <1>1, LinkSets DEF LinksIn
<1>3. ASSUME NEW n \in Nat, n > current PROVE NoneOf(p, Links({"connect"}, From(n)))
  <2>1. From(n) \subseteq From(current + 1) BY <1>3 DEF From
  <2>2. Links({"connect"}, From(n)) \subseteq Links({"connect"}, From(current + 1)) BY <2>1 DEF Links
  <2> QED BY <1>2, <2>2, FewerNone
<1>4. ASSUME NEW g \in 1 .. current + 1 PROVE Ordered(p, Links({"connect"}, From(g)), Links({"connect"}, 0 .. g))
  BY <1>1, <1>3, LinkSets, NoneFollowed DEF LinksIn
<1>5. NoneOf(p, Links({"connect"}, From((current + 1) + 1))) BY <1>3
<1> QED BY <1>2, <1>4, <1>5 DEF LinksIn

\* and begins another.
LEMMA LinksBegun ==
    ASSUME NEW q, NEW p, NEW current \in Nat, NEW begun \in Nat, begun < current,
           MoreLinked(q, p, "connect", current),
           LinksIn(q, 0, current, begun), NoneOf(q, Links({"connect"}, From(current)))
    PROVE  LinksIn(p, current, current, begun)
<1>1. /\ \A Y \in SUBSET Nat : NoneOf(p, Links({"connect"}, Y)) <=> NoneOf(q, Links({"connect"}, Y)) /\ current \notin Y
      /\ \A Y, W \in SUBSET Nat :
            Ordered(q, Links({"connect"}, Y), Links({"connect"}, W)) /\ (NoneOf(q, Links({"connect"}, Y)) \/ current \notin W)
               => Ordered(p, Links({"connect"}, Y), Links({"connect"}, W))
      /\ \A Y \in SUBSET Nat : NoneOf(q, Links({"connect"}, Y)) /\ Ordered(q, Links({"connect"}, Y), AnyLink)
               => Ordered(p, Links({"connect"}, Y), AnyLink) BY LinkSets DEF MoreLinked, AnyLink
<1>2. NoneOf(p, Links({"connect"}, 0 .. begun)) /\ NoneOf(p, Links({"connect"}, From(current + 1)))
  BY <1>1, FromIs, LinkSets DEF LinksIn
<1>3. ASSUME NEW g \in 1 .. current PROVE Ordered(p, Links({"connect"}, From(g)), Links({"connect"}, 0 .. g))
  BY <1>1, LinkSets DEF LinksIn
<1>4. Ordered(p, Links({"connect"}, {current}), AnyLink)
  <2>1. {current} \subseteq From(current) BY FromIs
  <2>2. Links({"connect"}, {current}) \subseteq Links({"connect"}, From(current)) BY <2>1 DEF Links
  <2>3. NoneOf(q, Links({"connect"}, {current})) BY <2>2, FewerNone
  <2> QED BY <1>1, <2>3, LinkSets, NoneFollowed
<1> QED BY <1>2, <1>3, <1>4 DEF LinksIn

\* The worker takes an event; a begin is newer than what it has, and the last
\* link if it is the session's own.
LEMMA LinksTaken ==
    ASSUME NEW q \in Seq(WorkerEvents), q # <<>>,
           NEW own \in Nat, NEW current \in Nat, NEW begun \in Nat, LinksIn(q, own, current, begun)
    PROVE  /\ LinksIn(Tail(q), own, current, begun)
           /\ Head(q).op \in {"connect", "disconnect"} => ~(own # 0 /\ begun = own)
           /\ Head(q).op = "connect" =>
                 /\ Head(q).gen \in Nat /\ begun < Head(q).gen /\ Head(q).gen <= current
                 /\ LinksIn(Tail(q), own, current, Head(q).gen)
<1> DEFINE h == Head(q)  t == Tail(q)
<1>1. h \in WorkerEvents BY FirstAndRest
<1>2. ASSUME NEW S, NoneOf(q, S) PROVE h \notin S /\ NoneOf(t, S) BY <1>2, TakeNone
<1>3. ASSUME NEW S, NEW T, Ordered(q, S, T) PROVE Ordered(t, S, T) /\ (h \in S => NoneOf(t, T)) BY <1>3, TakeOrdered
<1> HIDE DEF h, t
<1>4. LinksIn(t, own, current, begun) BY <1>2, <1>3 DEF LinksIn
<1>5. h.op \in {"connect", "disconnect"} => h.gen \in Nat BY <1>1, EventKinds
<1>6. \A X \in SUBSET {"connect", "disconnect"}, Y \in SUBSET Nat : h \in Links(X, Y) <=> h.op \in X /\ h.gen \in Y
  BY <1>1, Members
<1>7. ASSUME h.op \in {"connect", "disconnect"}, own # 0, begun = own PROVE FALSE
  BY <1>2, <1>7, <1>5, <1>6, LinkSets DEF LinksIn, AnyLink
<1>8. ASSUME h.op = "connect"
      PROVE  h.gen \in Nat /\ begun < h.gen /\ h.gen <= current /\ LinksIn(t, own, current, h.gen)
  <2>0. h.gen \in Nat /\ \A Y \in SUBSET Nat : h \in Links({"connect"}, Y) <=> h.gen \in Y BY <1>5, <1>6, <1>8, LinkSets
  <2>1. h \notin Links({"connect"}, 0 .. begun) /\ h \notin Links({"connect"}, From(current + 1))
    BY <1>2 DEF LinksIn
  <2>2. h.gen \notin 0 .. begun /\ h.gen \notin From(current + 1) BY <2>0, <2>1, LinkSets
  <2>3. begun < h.gen BY <2>0, <2>2
  <2>4. h.gen <= current BY <2>0, <2>2, FromIs, LinkSets
  <2>5. h.gen \in 1 .. current BY <2>0, <2>3, <2>4
  <2>6. Ordered(q, Links({"connect"}, From(h.gen)), Links({"connect"}, 0 .. h.gen)) BY <2>5 DEF LinksIn
  <2>7. h \in Links({"connect"}, From(h.gen)) BY <2>0, FromIs
  <2>8. NoneOf(t, Links({"connect"}, 0 .. h.gen)) BY <1>3, <2>6, <2>7
  <2>9. own # 0 /\ h.gen = own => NoneOf(t, AnyLink) BY <2>0, <1>3, LinkSets DEF LinksIn
  <2> QED BY <1>4, <2>0, <2>3, <2>4, <2>8, <2>9 DEF LinksIn
<1> QED BY <1>4, <1>7, <1>8 DEF h, t

\* The GUI thread keeps the links in order.
LEMMA LinkGui ==
    ASSUME TypeOK, SlotKnown, LinkKnown, UserStep \/ GuiStep
    PROVE  LinkKnown'
<1>1. PICK q \in Seq(WorkerEvents) : Asked(q) /\ Ended(q) BY GuiPosts
<1>2. UNCHANGED <<phase, wup, wactive, deferred>> BY GuiPosts DEF worker, channel
<1>3. /\ tgen \in Nat /\ wgen \in Nat /\ wactive \in Nat /\ wactive \in 1 .. wgen /\ tgen \in {0, wgen}
      /\ lastId \in Nat /\ lastId + 1 \in Nat /\ toWorker \in Seq(WorkerEvents)
      /\ LinksIn(toWorker, tgen, wgen, wactive) BY Names DEF TypeOK, LinkKnown
<1>4. LinksIn(q, tgen, wgen, wactive)
  <2>1. CASE q = toWorker BY <1>3, <2>1
  <2>2. ASSUME NEW o \in All, q = toWorker \o <<Request(o, lastId + 1)>> PROVE LinksIn(q, tgen, wgen, wactive)
    BY <1>3, <2>2, RequestAdded, LinksAsked
  <2> QED BY <1>1, <2>1, <2>2 DEF Asked
<1> DEFINE p == q \o <<Ending>>
<1>5. p \in Seq(WorkerEvents) /\ MoreLinked(q, p, "disconnect", 0) BY LinkAdded DEF Ending
<1>6. \/ toWorker' = q /\ UNCHANGED <<tgen, wgen>>
      \/ toWorker' = p /\ tgen' = 0 /\ wgen' = wgen + 1
      \/ toWorker' = p \o <<Beginning(wgen')>> /\ tgen' = wgen' /\ wgen' = wgen + 1 BY <1>1 DEF Ended
<1> HIDE DEF p
<1>7. LinksIn(p, 0, wgen + 1, wactive) /\ NoneOf(p, Links({"connect"}, From(wgen + 1)))
  BY <1>3, <1>4, <1>5, LinksEnded
<1>8. CASE toWorker' = q /\ UNCHANGED <<tgen, wgen>> BY <1>2, <1>4, <1>8 DEF LinkKnown, Running
<1>9. CASE toWorker' = p /\ tgen' = 0 /\ wgen' = wgen + 1 BY <1>3, <1>2, <1>7, <1>9 DEF LinkKnown, Running
<1>10. CASE toWorker' = p \o <<Beginning(wgen')>> /\ tgen' = wgen' /\ wgen' = wgen + 1
  <2>1. wactive \in 1 .. wgen' /\ wactive < wgen' /\ wgen' \in Nat BY <1>3, <1>10
  <2>2. MoreLinked(p, toWorker', "connect", wgen') BY <1>5, <1>10, <2>1, LinkAdded DEF Beginning
  <2>3. LinksIn(toWorker', wgen', wgen', wactive) BY <1>3, <1>7, <1>10, <2>1, <2>2, LinksBegun
  <2> QED BY <1>2, <1>10, <2>1, <2>3 DEF LinkKnown, Running
<1> QED BY <1>6, <1>8, <1>9, <1>10

\* So does the worker.
LEMMA LinkWorker ==
    ASSUME TypeOK, LinkKnown, UNCHANGED gui, Drops \/ Leaves \/ Joins \/ Works
    PROVE  LinkKnown'
<1>1. /\ tgen \in Nat /\ wgen \in Nat /\ wactive \in Nat /\ wactive \in 1 .. wgen /\ tgen \in {0, wgen}
      /\ LinksIn(toWorker, tgen, wgen, wactive) /\ toWorker \in Seq(WorkerEvents)
      /\ \A d \in deferred : d.gen <= wactive /\ d.gen \in Nat
      /\ Running => wup
      /\ UNCHANGED <<tgen, wgen>> BY DEF TypeOK, LinkKnown, gui, link
<1>2. CASE Drops \/ Leaves \/ Works
  <2>1. UNCHANGED wactive /\ (toWorker' = toWorker \/ Pops)
    BY <1>2 DEF Drops, Leaves, Works, Quiet, Accepts, Operates, Retries, Idles
  <2>2. LinksIn(toWorker', tgen, wgen, wactive) BY <1>1, <2>1, LinksTaken DEF Pops
  <2>3. Running' => wup'
    <3>1. CASE Drops \/ Leaves BY <3>1 DEF Drops, Leaves, Abandons
    <3>2. CASE Works
      <4>1. UNCHANGED wup BY <3>2 DEF Works, Quiet
      <4>2. Running' => Running \/ wup
        BY <3>2 DEF Works, Accepts, Starts, Advances, Operates, Retries, Idles, Running
      <4> QED BY <1>1, <4>1, <4>2
    <3> QED BY <1>2, <3>1, <3>2
  <2>4. \A d \in deferred' : d.gen <= wactive
    <3>1. CASE deferred' \subseteq deferred BY <1>1, <3>1
    <3>2. ASSUME NEW o \in Ops, Operates(o), ~(deferred' \subseteq deferred) PROVE \A d \in deferred' : d.gen <= wactive
      BY <3>2, <1>1 DEF Operates
    <3>3. (deferred' \subseteq deferred) \/ \E o \in Ops : Operates(o)
      BY <1>2 DEF Drops, Leaves, Works, Retries, Idles
    <3> QED BY <3>1, <3>2, <3>3
  <2> QED BY <1>1, <2>1, <2>2, <2>3, <2>4 DEF LinkKnown
<1>3. CASE Joins BY <1>3, <1>1, LinksTaken DEF Joins, Abandons, Pops, LinkKnown
<1> QED BY <1>2, <1>3

----
(* What the session knows of its connection. *)

\* The sets of reports.
LEMMA ReportSets ==
    /\ {"up"} \in SUBSET {"up", "down"} /\ {"down"} \in SUBSET {"up", "down"} /\ {"up", "down"} \in SUBSET {"up", "down"}
    /\ \A n \in Nat : {n} \in SUBSET Nat /\ From(n + 1) \cup {0} \in SUBSET Nat
    /\ \A n \in Nat : \A k \in Nat : k \in From(n + 1) \cup {0} <=> k > n \/ k = 0 BY FromIs

\* The GUI thread takes an event.
LEMMA ReportTaken ==
    ASSUME TypeOK, toGui # <<>>, toGui' = Tail(toGui)
    PROVE  /\ Head(toGui).type \in All => SameReports(toGui, toGui')
           /\ Head(toGui).type \in {"up", "down"} => Head(toGui).gen \in Nat
           /\ \A X \in SUBSET {"up", "down"}, Y \in SUBSET Nat :
                 /\ NoneOf(toGui, Reports(X, Y)) <=>
                       ~(Head(toGui).type \in X /\ Head(toGui).gen \in Y) /\ NoneOf(toGui', Reports(X, Y))
                 /\ \A Z \in SUBSET {"up", "down"} :
                       /\ Ordered(toGui, Reports(X, Y), Reports(Z, Y)) =>
                             /\ Ordered(toGui', Reports(X, Y), Reports(Z, Y))
                             /\ Head(toGui).type \in X /\ Head(toGui).gen \in Y => NoneOf(toGui', Reports(Z, Y))
                       /\ Followed(toGui, Reports(X, Y), Reports(Z, Y)) =>
                             /\ Followed(toGui', Reports(X, Y), Reports(Z, Y))
                             /\ Head(toGui).type \in X /\ Head(toGui).gen \in Y => ~NoneOf(toGui', Reports(Z, Y))
<1> DEFINE h == Head(toGui)
<1>0. toGui \in Seq(GuiEvents) BY DEF TypeOK
<1>1. h \in GuiEvents BY <1>0, FirstAndRest
<1>2. ASSUME NEW S PROVE NoneOf(toGui, S) <=> h \notin S /\ NoneOf(toGui', S) BY <1>0, TakeNone
<1>3. ASSUME NEW S, NEW T, Ordered(toGui, S, T) PROVE Ordered(toGui', S, T) /\ (h \in S => NoneOf(toGui', T))
  BY <1>0, <1>3, TakeOrdered
<1>4. ASSUME NEW S, NEW T, Followed(toGui, S, T) PROVE Followed(toGui', S, T) /\ (h \in S => ~NoneOf(toGui', T))
  BY <1>0, <1>4, TakeFollowed
<1> HIDE DEF h
<1>5. \A X \in SUBSET {"up", "down"}, Y \in SUBSET Nat : h \in Reports(X, Y) <=> h.type \in X /\ h.gen \in Y
  BY <1>1, Members
<1>6. h.type \in {"up", "down"} => h.gen \in Nat BY <1>1, EventKinds
<1>7. ASSUME h.type \in All PROVE SameReports(toGui, toGui')
  <2>1. \A X \in SUBSET {"up", "down"}, Y \in SUBSET Nat : h \notin Reports(X, Y)
    <3> TAKE X \in SUBSET {"up", "down"}, Y \in SUBSET Nat
    <3>1. h.type \notin X BY <1>7, Names
    <3> QED BY <1>5, <3>1
  <2> QED BY <1>2, <1>3, <1>4, <2>1 DEF SameReports
<1> QED BY <1>2, <1>3, <1>4, <1>5, <1>6, <1>7 DEF h

\* Nothing new is reported, and requests are made only while the session is up.
LEMMA UpKept ==
    ASSUME TypeOK, UpKnown, SameReports(toGui, toGui'), UNCHANGED <<up, tgen, wactive, wup>>,
           toolReq' # 0 => toolReq # 0 \/ up, sizeReq' # 0 => sizeReq # 0 \/ up
    PROVE  UpKnown'
BY ReportSets DEF TypeOK, SameReports, UpKnown

\* The session is up, or has a request, only on the worker's connection.
LEMMA UpHere ==
    ASSUME TypeOK, LinkKnown, UpKnown
    PROVE  /\ up => tgen # 0 /\ wactive = tgen /\ tgen = wgen /\ NoneOf(toGui, Reports({"up"}, {tgen}))
           /\ tgen # 0 /\ wactive # tgen => /\ NoneOf(toGui, Reports({"up"}, {tgen}))
                                            /\ NoneOf(toGui, Reports({"down"}, {tgen}))
           /\ tgen = 0 => NoneOf(toGui, Reports({"up"}, {tgen}))
           /\ \A n \in Nat : n > wactive \/ n = 0 =>
                 NoneOf(toGui, Reports({"up"}, {n})) /\ NoneOf(toGui, Reports({"down"}, {n}))
<1>0. tgen \in Nat /\ wactive \in Nat /\ wgen \in Nat /\ tgen \in {0, wgen} /\ wactive \in 1 .. wgen
  BY DEF TypeOK, LinkKnown
<1>1. NoneOf(toGui, Reports({"up", "down"}, From(wactive + 1) \cup {0})) BY DEF UpKnown
<1>2. ASSUME NEW n \in Nat, n > wactive \/ n = 0
      PROVE  NoneOf(toGui, Reports({"up"}, {n})) /\ NoneOf(toGui, Reports({"down"}, {n}))
  <2>1. {n} \subseteq From(wactive + 1) \cup {0} BY <1>0, <1>2, ReportSets
  <2>2. /\ Reports({"up"}, {n}) \subseteq Reports({"up", "down"}, From(wactive + 1) \cup {0})
        /\ Reports({"down"}, {n}) \subseteq Reports({"up", "down"}, From(wactive + 1) \cup {0})
    BY <2>1 DEF Reports
  <2> QED BY <1>1, <2>2, FewerNone
<1>3. tgen # 0 /\ wactive # tgen => tgen > wactive BY <1>0
<1>4. up => tgen # 0 /\ wactive = tgen /\ tgen = wgen /\ NoneOf(toGui, Reports({"up"}, {tgen}))
  BY <1>0 DEF UpKnown
<1> QED BY <1>0, <1>2, <1>3, <1>4

\* The GUI thread knows of its connection what it was told.
LEMMA UpGui ==
    ASSUME TypeOK, SlotKnown, LinkKnown, UpKnown, UserStep \/ GuiStep
    PROVE  UpKnown'
<1> USE DEF link, slot
<1>0. /\ tgen \in Nat /\ wgen \in Nat /\ wactive \in Nat /\ wactive \in 1 .. wgen /\ tgen \in {0, wgen}
  BY DEF TypeOK, LinkKnown
<1>1. UNCHANGED <<wup, wactive>> BY GuiPosts DEF worker
<1>2. ASSUME toGui' = toGui, UNCHANGED <<up, tgen>>,
             toolReq' # 0 => toolReq # 0 \/ up, sizeReq' # 0 => sizeReq # 0 \/ up
      PROVE  UpKnown' BY <1>2, <1>1, Sayings, UpKept
<1>3. ASSUME NEW w \in Windows, RunTool(w) PROVE UpKnown' BY <1>2, <1>3 DEF RunTool, SlotFree
<1>4. CASE CalculateSize BY <1>2, <1>4 DEF CalculateSize
<1>5. CASE CancelSize BY <1>2, <1>5 DEF CancelSize
<1>6. ASSUME NEW o \in Ops, Ask(o) PROVE UpKnown' BY <1>2, <1>6 DEF Ask
<1>7. CASE CancelTask \/ SwitchTab \/ HideTools \/ HideInstall \/ StopAgent
  BY <1>7, <1>2 DEF CancelTask, SwitchTab, HideTools, HideInstall, StopAgent, CancelTool
<1>8. CASE Connect \/ Disconnect
  <2>1. EndConnection /\ toGui' = toGui BY <1>8 DEF Connect, Disconnect
  <2>2. up' = FALSE /\ sizeReq' = 0 /\ wgen' = wgen + 1 /\ (~up => toolReq' = 0)
    BY <2>1, EndEffects DEF SlotKnown
  <2>3. /\ tgen' = 0 \/ (tgen' = wgen' /\ ~up)
        /\ tgen' \in Nat /\ (tgen' > wactive \/ tgen' = 0) BY <1>0, <1>8, <2>2 DEF Connect, Disconnect
  <2>4. NoneOf(toGui', Reports({"up"}, {tgen'})) /\ Ordered(toGui', Reports({"up"}, {tgen'}), Reports({"up"}, {tgen'}))
    BY <2>1, <2>3, UpHere, NoneFollowed
  <2>5. NoneOf(toGui', Reports({"up", "down"}, From(wactive' + 1) \cup {0})) BY <1>1, <2>1 DEF UpKnown
  <2>6. tgen' # 0 => toolReq' = 0 /\ tgen' # wactive' BY <1>0, <1>1, <2>2, <2>3
  <2> QED BY <2>2, <2>4, <2>5, <2>6 DEF UpKnown
<1>9. ASSUME toGui # <<>>, toGui' = Tail(toGui), Head(toGui).type \in All, UNCHANGED <<up, tgen>>,
             toolReq' # 0 => toolReq # 0 \/ up, sizeReq' # 0 => sizeReq # 0 \/ up
      PROVE  UpKnown' BY <1>1, <1>9, ReportTaken, UpKept
<1>10. CASE HandleToolFinished BY <1>10, <1>9, Names DEF HandleToolFinished, Deliver
<1>11. CASE HandleSizeCalculated BY <1>11, <1>9, Names DEF HandleSizeCalculated, Deliver
<1>12. ASSUME NEW o \in Ops, HandleOpDone(o) PROVE UpKnown' BY <1>12, <1>9, Names DEF HandleOpDone, Deliver
<1>13. CASE HandleUp \/ HandleDown
  <2>1. /\ toGui # <<>> /\ toGui' = Tail(toGui) /\ UNCHANGED <<tgen, toolReq, sizeReq>>
        /\ \/ Head(toGui).type = "up" /\ up' = (up \/ Head(toGui).gen = tgen)
           \/ Head(toGui).type = "down" /\ Head(toGui).gen = tgen /\ up' = FALSE
           \/ Head(toGui).type = "down" /\ Head(toGui).gen # tgen /\ up' = up
    BY <1>13 DEF HandleUp, HandleDown, Deliver
  <2>2. /\ Head(toGui).gen \in Nat
        /\ \A X \in SUBSET {"up", "down"}, Y \in SUBSET Nat :
                 /\ NoneOf(toGui, Reports(X, Y)) <=>
                       ~(Head(toGui).type \in X /\ Head(toGui).gen \in Y) /\ NoneOf(toGui', Reports(X, Y))
                 /\ \A Z \in SUBSET {"up", "down"} :
                       /\ Ordered(toGui, Reports(X, Y), Reports(Z, Y)) =>
                             /\ Ordered(toGui', Reports(X, Y), Reports(Z, Y))
                             /\ Head(toGui).type \in X /\ Head(toGui).gen \in Y => NoneOf(toGui', Reports(Z, Y))
                       /\ Followed(toGui, Reports(X, Y), Reports(Z, Y)) =>
                             /\ Followed(toGui', Reports(X, Y), Reports(Z, Y))
                             /\ Head(toGui).type \in X /\ Head(toGui).gen \in Y => ~NoneOf(toGui', Reports(Z, Y))
    BY <2>1, ReportTaken
  <2>3. NoneOf(toGui', Reports({"up", "down"}, From(wactive + 1) \cup {0})) BY <1>0, <2>2, ReportSets DEF UpKnown
  <2>4. /\ NoneOf(toGui, Reports({"up"}, {tgen})) <=>
              ~(Head(toGui).type = "up" /\ Head(toGui).gen = tgen) /\ NoneOf(toGui', Reports({"up"}, {tgen}))
        /\ NoneOf(toGui, Reports({"down"}, {tgen})) <=>
              ~(Head(toGui).type = "down" /\ Head(toGui).gen = tgen) /\ NoneOf(toGui', Reports({"down"}, {tgen}))
    BY <1>0, <2>2, ReportSets
  <2>5. /\ Ordered(toGui', Reports({"up"}, {tgen}), Reports({"up"}, {tgen}))
        /\ Head(toGui).type = "up" /\ Head(toGui).gen = tgen => NoneOf(toGui', Reports({"up"}, {tgen}))
    BY <1>0, <2>2, ReportSets DEF UpKnown
  <2>6. Followed(toGui, Reports({"up"}, {tgen}), Reports({"down"}, {tgen})) =>
              /\ Followed(toGui', Reports({"up"}, {tgen}), Reports({"down"}, {tgen}))
              /\ Head(toGui).type = "up" /\ Head(toGui).gen = tgen => ~NoneOf(toGui', Reports({"down"}, {tgen}))
    BY <1>0, <2>2, ReportSets
  <2>7. CASE Head(toGui).type = "up" /\ Head(toGui).gen = tgen
    BY <2>4, <2>7, <1>1, <2>1, <2>3, <2>5, <2>6, UpHere DEF UpKnown
  <2>8. CASE Head(toGui).type = "down" /\ Head(toGui).gen = tgen /\ up' = FALSE
    BY <1>1, <2>1, <2>3, <2>4, <2>5, <2>6, <2>8 DEF UpKnown
  <2>9. CASE Head(toGui).gen # tgen /\ up' = up BY <1>1, <2>1, <2>3, <2>4, <2>5, <2>6, <2>9 DEF UpKnown
  <2> QED BY <2>1, <2>7, <2>8, <2>9 DEF TypeOK
<1> QED BY <1>3, <1>4, <1>5, <1>6, <1>7, <1>8, <1>10, <1>11, <1>12, <1>13 DEF UserStep, GuiStep

\* The worker tells the session of what becomes of its connection.
LEMMA UpWorker ==
    ASSUME TypeOK, LinkKnown, UpKnown, UNCHANGED gui, Drops \/ Leaves \/ Joins \/ Works
    PROVE  UpKnown'
<1>0. /\ tgen \in Nat /\ wgen \in Nat /\ wactive \in Nat /\ wactive \in 1 .. wgen /\ tgen \in {0, wgen}
      /\ UNCHANGED <<up, tgen, wgen, toolReq, sizeReq>>
      /\ LinksIn(toWorker, tgen, wgen, wactive) /\ toWorker \in Seq(WorkerEvents)
  BY DEF TypeOK, LinkKnown, gui, link, slot
<1>1. CASE Works BY <1>0, <1>1, UpKept DEF Works, Quiet
<1>2. ASSUME OneMoreReport(toGui, toGui', "down", wactive), UNCHANGED wactive, wup' = FALSE,
             wup \/ tgen = 0 \/ wactive # tgen
      PROVE  UpKnown'
  <2>1. /\ \A X \in SUBSET {"up", "down"}, Y \in SUBSET Nat :
              NoneOf(toGui', Reports(X, Y)) <=> NoneOf(toGui, Reports(X, Y)) /\ ~("down" \in X /\ wactive \in Y)
        /\ \A X, Z \in SUBSET {"up", "down"}, Y \in SUBSET Nat :
              Ordered(toGui, Reports(X, Y), Reports(Z, Y)) /\ (NoneOf(toGui, Reports(X, Y)) \/ ~("down" \in Z /\ wactive \in Y))
                 => Ordered(toGui', Reports(X, Y), Reports(Z, Y))
        /\ \A X, Z \in SUBSET {"up", "down"}, Y \in SUBSET Nat :
              ~("down" \in X /\ wactive \in Y) /\ "down" \in Z /\ wactive \in Y => Followed(toGui', Reports(X, Y), Reports(Z, Y))
    BY <1>2 DEF OneMoreReport
  <2>2. NoneOf(toGui', Reports({"up", "down"}, From(wactive + 1) \cup {0}))
    <3>1. wactive \notin From(wactive + 1) \cup {0} BY <1>0, ReportSets
    <3> QED BY <1>0, <2>1, <3>1, ReportSets DEF UpKnown
  <2>3. /\ NoneOf(toGui', Reports({"up"}, {tgen})) <=> NoneOf(toGui, Reports({"up"}, {tgen}))
        /\ Ordered(toGui', Reports({"up"}, {tgen}), Reports({"up"}, {tgen}))
    BY <1>0, <2>1, ReportSets DEF UpKnown
  <2>4. wactive = tgen => /\ ~NoneOf(toGui', Reports({"down"}, {tgen}))
                          /\ Followed(toGui', Reports({"up"}, {tgen}), Reports({"down"}, {tgen}))
    BY <1>0, <2>1, ReportSets
  <2> QED BY <1>0, <1>2, <2>2, <2>3, <2>4 DEF UpKnown
<1>3. CASE Drops BY <1>2, <1>3 DEF Drops
<1>4. CASE Leaves BY <1>0, <1>4, <1>2, LinksTaken, ReportSets DEF Leaves, Pops, SameReports, UpKnown
<1>5. CASE Joins
  <2>1. /\ Pops /\ Head(toWorker).op = "connect" /\ wactive' = Head(toWorker).gen
        /\ \/ wactive' = wgen /\ wup' = TRUE /\ OneMoreReport(toGui, toGui', "up", wactive')
           \/ wactive' = wgen /\ wup' = FALSE /\ OneMoreReport(toGui, toGui', "down", wactive')
           \/ wactive' # wgen /\ wup' = FALSE /\ SameReports(toGui, toGui') BY <1>5 DEF Joins
  <2>2. /\ wactive' \in Nat /\ wactive < wactive' /\ wactive' <= wgen
        /\ tgen = 0 \/ wactive # tgen BY <1>0, <2>1, LinksTaken DEF Pops
  <2>3. ~up /\ (tgen # 0 => toolReq = 0 /\ sizeReq = 0) BY <2>2 DEF UpKnown
  <2>4. NoneOf(toGui, Reports({"up"}, {tgen})) BY <2>2, UpHere
  <2>5. NoneOf(toGui, Reports({"up", "down"}, From(wactive' + 1) \cup {0}))
    <3>1. From(wactive' + 1) \subseteq From(wactive + 1) BY <1>0, <2>2 DEF From
    <3>2. Reports({"up", "down"}, From(wactive' + 1) \cup {0}) \subseteq Reports({"up", "down"}, From(wactive + 1) \cup {0})
      BY <3>1 DEF Reports
    <3>3. NoneOf(toGui, Reports({"up", "down"}, From(wactive + 1) \cup {0})) BY DEF UpKnown
    <3> QED BY <3>2, <3>3, FewerNone
  <2>6. wactive' \notin From(wactive' + 1) \cup {0} BY <1>0, <2>2, ReportSets
  <2>7. ASSUME NEW t \in {"up", "down"}, OneMoreReport(toGui, toGui', t, wactive')
        PROVE  /\ NoneOf(toGui', Reports({"up", "down"}, From(wactive' + 1) \cup {0}))
               /\ Ordered(toGui', Reports({"up"}, {tgen}), Reports({"up"}, {tgen}))
               /\ tgen = wactive' \/ NoneOf(toGui', Reports({"up"}, {tgen}))
               /\ t = "down" /\ tgen = wactive' => Followed(toGui', Reports({"up"}, {tgen}), Reports({"down"}, {tgen}))
    <3>1. /\ \A X \in SUBSET {"up", "down"}, Y \in SUBSET Nat :
                NoneOf(toGui', Reports(X, Y)) <=> NoneOf(toGui, Reports(X, Y)) /\ ~(t \in X /\ wactive' \in Y)
          /\ \A X, Z \in SUBSET {"up", "down"}, Y \in SUBSET Nat :
                Ordered(toGui, Reports(X, Y), Reports(Z, Y)) /\ NoneOf(toGui, Reports(X, Y))
                   => Ordered(toGui', Reports(X, Y), Reports(Z, Y))
          /\ \A X, Z \in SUBSET {"up", "down"}, Y \in SUBSET Nat :
                ~(t \in X /\ wactive' \in Y) /\ t \in Z /\ wactive' \in Y => Followed(toGui', Reports(X, Y), Reports(Z, Y))
      BY <2>7 DEF OneMoreReport
    <3>2. NoneOf(toGui', Reports({"up", "down"}, From(wactive' + 1) \cup {0}))
      BY <2>2, <2>5, <2>6, <3>1, ReportSets
    <3>3. Ordered(toGui', Reports({"up"}, {tgen}), Reports({"up"}, {tgen}))
      BY <1>0, <2>4, <3>1, ReportSets DEF UpKnown
    <3>4. tgen = wactive' \/ NoneOf(toGui', Reports({"up"}, {tgen})) BY <1>0, <2>4, <3>1, ReportSets
    <3>5. t = "down" /\ tgen = wactive' => Followed(toGui', Reports({"up"}, {tgen}), Reports({"down"}, {tgen}))
      BY <1>0, <3>1, ReportSets
    <3> QED BY <3>2, <3>3, <3>4, <3>5
  <2>8. CASE SameReports(toGui, toGui') /\ wactive' # wgen
    BY <2>8, <1>0, <2>2, <2>4, <2>5, <2>3, ReportSets DEF SameReports, UpKnown
  <2>9. CASE wactive' = wgen /\ wup' = TRUE /\ OneMoreReport(toGui, toGui', "up", wactive')
    BY <1>0, <2>2, <2>3, <2>7, <2>9 DEF UpKnown
  <2>10. CASE wactive' = wgen /\ wup' = FALSE /\ OneMoreReport(toGui, toGui', "down", wactive')
    BY <1>0, <2>2, <2>3, <2>7, <2>10 DEF UpKnown
  <2> QED BY <2>1, <2>8, <2>9, <2>10
<1> QED BY <1>1, <1>3, <1>4, <1>5

----
(* The requests in sight. *)

\* The GUI thread takes an event: an answer goes, the others stay.
LEMMA AnswerTaken ==
    ASSUME TypeOK, toGui # <<>>, toGui' = Tail(toGui), NEW k \in Kinds, NEW n \in Nat
    PROVE  NoneOf(toGui, Answers({k}, {n})) <=>
              ~(Head(toGui).type = k /\ Head(toGui).id = n) /\ NoneOf(toGui', Answers({k}, {n}))
<1> DEFINE h == Head(toGui)
<1>0. toGui \in Seq(GuiEvents) BY DEF TypeOK
<1>1. h \in GuiEvents BY <1>0, FirstAndRest
<1>2. ASSUME NEW S PROVE NoneOf(toGui, S) <=> h \notin S /\ NoneOf(toGui', S) BY <1>0, TakeNone
<1> HIDE DEF h
<1>3. {k} \in SUBSET All /\ {n} \in SUBSET Nat BY Names
<1>4. h \in Answers({k}, {n}) <=> h.type = k /\ h.id = n BY <1>1, <1>3, Members
<1> QED BY <1>2, <1>4 DEF h

\* What is asked for stays asked for when something is posted.
LEMMA PostsKeep ==
    ASSUME TypeOK, SlotKnown, UserStep \/ GuiStep, NEW k \in Kinds, NEW n \in Nat,
           ~NoneOf(toWorker, Requests({k}, {n}))
    PROVE  ~NoneOf(toWorker', Requests({k}, {n}))
<1>1. PICK q \in Seq(WorkerEvents) : Asked(q) /\ Ended(q) BY GuiPosts
<1>0. {k} \in SUBSET All /\ {n} \in SUBSET Nat /\ wgen \in Nat /\ wgen + 1 \in Nat /\ lastId + 1 \in Nat
      /\ toWorker \in Seq(WorkerEvents) BY Names DEF TypeOK
<1>2. ~NoneOf(q, Requests({k}, {n}))
  <2>1. ASSUME NEW o \in All, q = toWorker \o <<Request(o, lastId + 1)>> PROVE ~NoneOf(q, Requests({k}, {n}))
    <3>1. MoreAsked(toWorker, q, o, lastId + 1) BY <1>0, <2>1, RequestAdded
    <3> QED BY <1>0, <3>1 DEF MoreAsked
  <2> QED BY <1>1, <2>1 DEF Asked
<1> DEFINE p == q \o <<Ending>>
<1>3. p \in Seq(WorkerEvents) /\ MoreLinked(q, p, "disconnect", 0) BY LinkAdded DEF Ending
<1>4. toWorker' = q \/ toWorker' = p \/ (toWorker' = p \o <<Beginning(wgen')>> /\ wgen' = wgen + 1)
  BY <1>1 DEF Ended
<1> HIDE DEF p
<1>5. ~NoneOf(p, Requests({k}, {n})) BY <1>0, <1>2, <1>3 DEF MoreLinked
<1>6. ASSUME toWorker' = p \o <<Beginning(wgen')>>, wgen' = wgen + 1 PROVE ~NoneOf(toWorker', Requests({k}, {n}))
  <2>1. wgen' \in Nat BY <1>0, <1>6
  <2>2. MoreLinked(p, toWorker', "connect", wgen') BY <1>3, <1>6, <2>1, LinkAdded DEF Beginning
  <2> QED BY <1>0, <1>5, <2>2 DEF MoreLinked
<1> QED BY <1>2, <1>4, <1>5, <1>6

\* The newest request is in the queue it was posted to.
LEMMA PostedIsThere ==
    ASSUME TypeOK, NEW k \in Kinds, NEW n \in Nat, toWorker' = toWorker \o <<Request(k, n)>>
    PROVE  ~NoneOf(toWorker', Requests({k}, {n}))
<1>1. {k} \in SUBSET All /\ {n} \in SUBSET Nat /\ k \in All /\ toWorker \in Seq(WorkerEvents) BY Names DEF TypeOK
<1>2. MoreAsked(toWorker, toWorker', k, n) BY <1>1, RequestAdded
<1> QED BY <1>1, <1>2 DEF MoreAsked

\* The session loses sight of no request of its own.
LEMMA SightGui ==
    ASSUME TypeOK, SlotKnown, UpKnown, InSight, UserStep \/ GuiStep
    PROVE  InSight'
<1> USE DEF link, slot
<1>0. /\ tgen \in Nat /\ toolReq \in Nat /\ sizeReq \in Nat /\ lastId \in Nat /\ lastId + 1 \in Nat /\ lastId + 1 # 0
      /\ toWorker \in Seq(WorkerEvents) /\ "tool" \in Kinds /\ "size" \in Kinds BY Names DEF TypeOK, Kinds
<1>1. UNCHANGED <<job, pending>> BY GuiPosts DEF worker, channel
<1>2. \A k \in Kinds, n \in Nat : ~NoneOf(toWorker, Requests({k}, {n})) => ~NoneOf(toWorker', Requests({k}, {n}))
  BY PostsKeep
<1>3. ASSUME up' /\ NoneOf(toGui', Reports({"down"}, {tgen'})) => up /\ NoneOf(toGui, Reports({"down"}, {tgen})),
             \/ toolReq' = 0 \/ ~NoneOf(toWorker', Requests({"tool"}, {toolReq'}))
             \/ /\ toolReq' = toolReq
                /\ ~NoneOf(toGui, Answers({"tool"}, {toolReq})) => ~NoneOf(toGui', Answers({"tool"}, {toolReq})),
             \/ sizeReq' = 0 \/ ~NoneOf(toWorker', Requests({"size"}, {sizeReq'}))
             \/ /\ sizeReq' = sizeReq
                /\ ~NoneOf(toGui, Answers({"size"}, {sizeReq})) => ~NoneOf(toGui', Answers({"size"}, {sizeReq}))
      PROVE  InSight'
  <2> SUFFICES ASSUME up', NoneOf(toGui', Reports({"down"}, {tgen'}))
               PROVE  Sighted("tool", toolReq)' /\ Sighted("size", sizeReq)' BY DEF InSight
  <2>1. Sighted("tool", toolReq) /\ Sighted("size", sizeReq) BY <1>3 DEF InSight
  <2>2. ~NoneOf(toWorker, Requests({"tool"}, {toolReq})) => ~NoneOf(toWorker', Requests({"tool"}, {toolReq}))
    BY <1>0, <1>2
  <2>3. ~NoneOf(toWorker, Requests({"size"}, {sizeReq})) => ~NoneOf(toWorker', Requests({"size"}, {sizeReq}))
    BY <1>0, <1>2
  <2>4. Sighted("tool", toolReq)' BY <1>1, <1>3, <2>1, <2>2 DEF Sighted
  <2>5. Sighted("size", sizeReq)' BY <1>1, <1>3, <2>1, <2>3 DEF Sighted
  <2> QED BY <2>4, <2>5
<1>4. ASSUME NEW k \in Kinds, Send([op |-> k, id |-> lastId']), lastId' = lastId + 1
      PROVE  ~NoneOf(toWorker', Requests({k}, {lastId'}))
  <2> DEFINE e == Request(k, lastId + 1)
  <2>1. e \in WorkerEvents BY <1>0, Names, PostedKinds
  <2>2. toWorker' = Append(toWorker, e) BY <1>4 DEF Send, Request
  <2> HIDE DEF e
  <2>3. toWorker' = toWorker \o <<e>> BY <1>0, <2>1, <2>2, AddNone
  <2>4. toWorker' = toWorker \o <<Request(k, lastId + 1)>> BY <2>3 DEF e
  <2> QED BY <1>0, <1>4, <2>4, PostedIsThere
<1>5. ASSUME NEW w \in Windows, RunTool(w) PROVE InSight' BY <1>5, <1>0, <1>4, <1>3 DEF RunTool
<1>6. CASE CalculateSize BY <1>6, <1>0, <1>4, <1>3 DEF CalculateSize
<1>7. CASE CancelSize BY <1>7, <1>3 DEF CancelSize
<1>8. ASSUME NEW o \in Ops, Ask(o) PROVE InSight' BY <1>8, <1>3 DEF Ask
<1>9. CASE CancelTask \/ SwitchTab \/ HideTools \/ HideInstall \/ StopAgent
  BY <1>9, <1>3 DEF CancelTask, SwitchTab, HideTools, HideInstall, StopAgent, CancelTool
<1>10. CASE Connect \/ Disconnect BY <1>10 DEF Connect, Disconnect, EndConnection, InSight
<1>11. ASSUME toGui # <<>>, toGui' = Tail(toGui), Head(toGui).type \in All, UNCHANGED <<up, tgen>>
       PROVE  up' /\ NoneOf(toGui', Reports({"down"}, {tgen'})) => up /\ NoneOf(toGui, Reports({"down"}, {tgen}))
  BY <1>11, <1>0, ReportTaken, ReportSets DEF SameReports
<1>12. ASSUME toGui # <<>>, toGui' = Tail(toGui), NEW k \in Kinds, NEW n \in Nat,
              ~(Head(toGui).type = k /\ Head(toGui).id = n), ~NoneOf(toGui, Answers({k}, {n}))
       PROVE  ~NoneOf(toGui', Answers({k}, {n})) BY <1>12, AnswerTaken
<1>13. CASE HandleToolFinished
  <2>1. /\ toGui # <<>> /\ toGui' = Tail(toGui) /\ Head(toGui).type = "tool" /\ Head(toGui).type \in All
        /\ UNCHANGED <<up, tgen, sizeReq>> BY <1>13, Names DEF HandleToolFinished, Deliver
  <2>2. up' /\ NoneOf(toGui', Reports({"down"}, {tgen'})) => up /\ NoneOf(toGui, Reports({"down"}, {tgen}))
    BY <1>11, <2>1
  <2>3. ~NoneOf(toGui, Answers({"size"}, {sizeReq})) => ~NoneOf(toGui', Answers({"size"}, {sizeReq}))
    BY <1>0, <1>12, <2>1
  <2>4. CASE Head(toGui).id = toolReq /\ toolReq # 0
    <3>1. ToolAnswered /\ toolReq # 0 /\ toWorker' = toWorker \o Requested BY <1>13, <2>4 DEF HandleToolFinished
    <3>2. toolReq' = 0 \/ toolReq' = lastId + 1 BY <3>1, AnsweredEffects DEF SlotKnown
    <3>3. ASSUME toolReq' # 0 PROVE ~NoneOf(toWorker', Requests({"tool"}, {toolReq'}))
      BY <1>0, <3>2, <3>3, <3>1, PostedForm, PostedIsThere DEF Queried
    <3> QED BY <1>3, <2>1, <2>2, <2>3, <3>3
  <2>5. CASE ~(Head(toGui).id = toolReq /\ toolReq # 0)
    BY <1>13, <2>5, <1>0, <1>12, <2>1, <1>3, <2>2, <2>3 DEF HandleToolFinished
  <2> QED BY <2>4, <2>5
<1>14. CASE HandleSizeCalculated
  <2>1. /\ toGui # <<>> /\ toGui' = Tail(toGui) /\ Head(toGui).type = "size" /\ Head(toGui).type \in All
        /\ UNCHANGED <<up, tgen, toolReq>>
        /\ sizeReq' = IF Head(toGui).id = sizeReq /\ up THEN 0 ELSE sizeReq
    BY <1>14, Names DEF HandleSizeCalculated, Deliver
  <2>2. up' /\ NoneOf(toGui', Reports({"down"}, {tgen'})) => up /\ NoneOf(toGui, Reports({"down"}, {tgen}))
    BY <1>11, <2>1
  <2>3. ~NoneOf(toGui, Answers({"tool"}, {toolReq})) => ~NoneOf(toGui', Answers({"tool"}, {toolReq}))
    BY <1>0, <1>12, <2>1
  <2>4. CASE ~up BY <2>1, <2>4 DEF InSight
  <2>5. CASE up BY <1>0, <1>12, <2>1, <1>3, <2>2, <2>3, <2>5
  <2> QED BY <2>4, <2>5
<1>15. ASSUME NEW o \in Ops, HandleOpDone(o) PROVE InSight'
  <2>1. /\ toGui # <<>> /\ toGui' = Tail(toGui) /\ Head(toGui).type = o /\ Head(toGui).type \in All
        /\ UNCHANGED <<up, tgen, toolReq, sizeReq>> BY <1>15, Names DEF HandleOpDone, Deliver
  <2>2. up' /\ NoneOf(toGui', Reports({"down"}, {tgen'})) => up /\ NoneOf(toGui, Reports({"down"}, {tgen}))
    BY <1>11, <2>1
  <2>3. Head(toGui).type # "tool" /\ Head(toGui).type # "size" BY <2>1, Names, OpAssumption
  <2>4. ~NoneOf(toGui, Answers({"tool"}, {toolReq})) => ~NoneOf(toGui', Answers({"tool"}, {toolReq}))
    BY <1>0, <1>12, <2>1, <2>3
  <2>5. ~NoneOf(toGui, Answers({"size"}, {sizeReq})) => ~NoneOf(toGui', Answers({"size"}, {sizeReq}))
    BY <1>0, <1>12, <2>1, <2>3
  <2> QED BY <1>3, <2>1, <2>2, <2>4, <2>5
<1>16. CASE HandleUp \/ HandleDown
  <2>1. /\ toGui # <<>> /\ toGui' = Tail(toGui) /\ UNCHANGED <<tgen, toolReq, sizeReq>>
        /\ \/ Head(toGui).type = "up" /\ up' = (up \/ Head(toGui).gen = tgen)
           \/ Head(toGui).type = "down" /\ Head(toGui).gen = tgen /\ up' = FALSE
           \/ Head(toGui).type = "down" /\ Head(toGui).gen # tgen /\ up' = up
    BY <1>16 DEF HandleUp, HandleDown, Deliver
  <2>2. Head(toGui).type # "tool" /\ Head(toGui).type # "size" BY <2>1
  <2>3. ~NoneOf(toGui, Answers({"tool"}, {toolReq})) => ~NoneOf(toGui', Answers({"tool"}, {toolReq}))
    BY <1>0, <1>12, <2>1, <2>2
  <2>4. ~NoneOf(toGui, Answers({"size"}, {sizeReq})) => ~NoneOf(toGui', Answers({"size"}, {sizeReq}))
    BY <1>0, <1>12, <2>1, <2>2
  <2>5. /\ NoneOf(toGui, Reports({"up"}, {tgen})) <=>
              ~(Head(toGui).type = "up" /\ Head(toGui).gen = tgen) /\ NoneOf(toGui', Reports({"up"}, {tgen}))
        /\ NoneOf(toGui, Reports({"down"}, {tgen})) <=>
              ~(Head(toGui).type = "down" /\ Head(toGui).gen = tgen) /\ NoneOf(toGui', Reports({"down"}, {tgen}))
    BY <1>0, <2>1, ReportTaken, ReportSets
  <2>6. CASE Head(toGui).type = "up" /\ Head(toGui).gen = tgen
    BY <2>5, <2>6, <1>3, <2>1, <2>3, <2>4 DEF UpKnown, InSight, Sighted
  <2>7. CASE Head(toGui).type = "up" /\ Head(toGui).gen # tgen BY <2>1, <2>7, <1>3, <2>3, <2>4, <2>5 DEF TypeOK
  <2>8. CASE Head(toGui).type = "down" /\ Head(toGui).gen = tgen BY <2>1, <2>8 DEF InSight
  <2>9. CASE Head(toGui).type = "down" /\ Head(toGui).gen # tgen BY <1>3, <2>1, <2>3, <2>4, <2>5, <2>9
  <2> QED BY <2>1, <2>6, <2>7, <2>8, <2>9
<1> QED BY <1>5, <1>6, <1>7, <1>8, <1>9, <1>10, <1>13, <1>14, <1>15, <1>16 DEF UserStep, GuiStep

\* What the worker answers is answered, a scan that nobody wants aside.
LEMMA SettledIsSeen ==
    ASSUME TypeOK, SlotKnown, UNCHANGED <<sizeReq, desired>>, NEW j \in Jobs, Settles(j),
           j.kind = "size" => j.id = sizeReq, j.id # 0
    PROVE  /\ ~NoneOf(toGui', Answers({j.kind}, {j.id}))
           /\ \A k \in Kinds, n \in Nat : ~NoneOf(toGui, Answers({k}, {n})) => ~NoneOf(toGui', Answers({k}, {n}))
BY Names DEF Jobs, SlotKnown, Settles, OneMoreAnswer

\* The worker forgets no answer.
LEMMA AnswersStay ==
    ASSUME SameAnswers(toGui, toGui') \/ \E t, i : OneMoreAnswer(toGui, toGui', t, i),
           NEW k \in Kinds, NEW n \in Nat, ~NoneOf(toGui, Answers({k}, {n}))
    PROVE  ~NoneOf(toGui', Answers({k}, {n}))
BY Names DEF SameAnswers, OneMoreAnswer

\* Of the requests the worker takes, none is of an earlier connection while the
\* session is up, and so none takes the place of one that waits.
LEMMA NothingReplaced ==
    ASSUME TypeOK, SlotKnown, Counted, Own, LinkKnown, UpKnown, UNCHANGED gui, up,
           Pops, Head(toWorker).op \in Kinds, Head(toWorker).id = desired,
           pending.id # 0,
           pending.kind = "tool" => pending.id = toolReq, pending.kind = "size" => pending.id = sizeReq
    PROVE  FALSE
<1>0. /\ Numbered /\ toolReq \in Nat /\ sizeReq \in Nat /\ pending.id \in Nat /\ pending.kind \in Kinds
      /\ Head(toWorker).op \in All /\ Head(toWorker).op \in {"tool", "size"}
      /\ toWorker \in Seq(WorkerEvents) BY Names DEF Counted, TypeOK, Jobs, Kinds
<1>1. PICK m \in 0 .. lastId : TakenTo(m) /\ m \in Nat BY <1>0, TakenNumbers
<1>2. PICK n \in Nat : n = Head(toWorker).id BY <1>0, OwnPops
<1>3. pending.id < n BY <1>1, <1>0, <1>2, OwnPops DEF TakenTo, HeldTo
<1>4. CASE pending.kind = "size" BY <1>0, <1>4, <1>2, <1>3 DEF SlotKnown
<1>5. CASE pending.kind = "tool" /\ Head(toWorker).op = "tool"
  <2>1. OwnIn(toWorker, "tool", toolReq) BY DEF Own, OwnRequests
  <2>2. n = toolReq \/ Ends' BY <1>0, <1>2, <1>5, <2>1, OwnPops
  <2>3. Ends' BY <1>0, <1>3, <1>5, <2>2
  <2>4. tgen # 0 /\ wactive = tgen BY UpHere
  <2>5. NoneOf(toWorker, AnyLink) BY <2>4 DEF LinkKnown, LinksIn
  <2>6. NoneOf(toWorker', AnyLink) BY <1>0, <2>5, TakeNone DEF Pops
  <2>7. Disconnects \subseteq AnyLink BY DEF Disconnects, AnyLink, Links
  <2>8. NoneOf(toWorker', Disconnects) BY <2>6, <2>7, FewerNone
  <2> QED BY <2>3, <2>8 DEF Ends
<1>6. CASE pending.kind = "tool" /\ Head(toWorker).op = "size"
  <2>1. NoneOf(toWorker, Requests(All \ {"tool", "files"}, From(toolReq))) BY <1>6 DEF Own, ToolIsLast
  <2>2. All \ {"tool", "files"} \in SUBSET All /\ From(toolReq) \in SUBSET Nat /\ "size" \in All \ {"tool", "files"}
    BY <1>0, Names, FromIs
  <2>3. n \notin From(toolReq) BY <1>0, <1>2, <1>6, <2>1, <2>2, OwnPops
  <2> QED BY <1>0, <1>3, <1>6, <2>3, FromIs
<1> QED BY <1>0, <1>4, <1>5, <1>6 DEF Kinds

\* The worker loses no request the session waits for.
LEMMA SightWorks ==
    ASSUME TypeOK, SlotKnown, Counted, Own, LinkKnown, UpKnown, UNCHANGED gui, up, Works,
           NEW k \in Kinds, NEW n \in Nat, n # 0, k = "tool" => n = toolReq, k = "size" => n = sizeReq,
           Sighted(k, n)
    PROVE  Sighted(k, n)'
<1> DEFINE it == [kind |-> k, id |-> n]
<1>0. /\ it \in Jobs /\ it.kind = k /\ it.id = n /\ it # NoJob
      /\ toWorker \in Seq(WorkerEvents) /\ job \in Jobs /\ pending \in Jobs
      /\ UNCHANGED <<sizeReq, desired>> /\ k \in All /\ k \in {"tool", "size"}
      /\ \A o \in Ops : o # k BY Names, OpAssumption DEF Jobs, NoJob, TypeOK, gui, slot, Kinds
<1>1. \/ ~NoneOf(toWorker, Requests({k}, {n})) \/ it \in {job, pending}
      \/ ~NoneOf(toGui, Answers({k}, {n})) BY DEF Sighted
<1>2. ASSUME ~NoneOf(toWorker', Requests({k}, {n})) \/ it \in {job', pending'} \/ ~NoneOf(toGui', Answers({k}, {n}))
      PROVE  Sighted(k, n)' BY <1>2 DEF Sighted
<1>3. ASSUME Settles(it) PROVE ~NoneOf(toGui', Answers({k}, {n})) BY <1>0, <1>3, SettledIsSeen
<1>4. ~Running => job # it BY <1>0 DEF TypeOK, Running
<1> HIDE DEF it
<1>5. ASSUME NEW op, Pops, Head(toWorker).op = op, ~NoneOf(toWorker, Requests({k}, {n}))
      PROVE  (op = k /\ Head(toWorker).id = n) \/ ~NoneOf(toWorker', Requests({k}, {n}))
  <2>1. Head(toWorker) \in WorkerEvents BY <1>0, <1>5, FirstAndRest DEF Pops
  <2>2. {k} \in SUBSET All /\ {n} \in SUBSET Nat BY <1>0
  <2>3. Head(toWorker) \in Requests({k}, {n}) \/ ~NoneOf(toWorker', Requests({k}, {n})) BY <1>0, <1>5, TakeNone DEF Pops
  <2> QED BY <1>5, <2>1, <2>2, <2>3, Members
<1>6. ASSUME SameAnswers(toGui, toGui') \/ \E t, i : OneMoreAnswer(toGui, toGui', t, i), ~NoneOf(toGui, Answers({k}, {n}))
      PROVE  ~NoneOf(toGui', Answers({k}, {n})) BY <1>6, AnswersStay
<1>7. ASSUME NEW j, Settles(j) PROVE SameAnswers(toGui, toGui') \/ \E t, i : OneMoreAnswer(toGui, toGui', t, i)
  BY <1>7 DEF Settles
<1>8. ASSUME Accepts PROVE Sighted(k, n)'
  <2> DEFINE j == [kind |-> Head(toWorker).op, id |-> Head(toWorker).id]
  <2>1. /\ Pops /\ Head(toWorker).op \in Kinds
        /\ \/ UNCHANGED <<phase, job, pending>> /\ Settles(j)
           \/ /\ Running /\ Head(toWorker).id = desired /\ UNCHANGED <<phase, job>>
              /\ pending' = j /\ SameAnswers(toGui, toGui')
           \/ Head(toWorker).id = desired /\ Starts(j) BY <1>8 DEF Accepts
  <2>2. Head(toWorker).op = k /\ Head(toWorker).id = n => j = it BY DEF it
  <2> HIDE DEF j
  <2>3. SameAnswers(toGui, toGui') \/ \E t, i : OneMoreAnswer(toGui, toGui', t, i) BY <1>7, <2>1 DEF Starts
  <2>4. CASE ~NoneOf(toGui, Answers({k}, {n})) BY <1>2, <1>6, <2>3, <2>4
  <2>5. CASE ~NoneOf(toWorker, Requests({k}, {n})) BY <1>5, <2>1, <2>5, <1>3, <1>2, <2>2 DEF Starts
  <2>6. CASE it = job BY <1>4, <2>6, <2>1, <1>2 DEF Starts
  <2>7. CASE it = pending BY <2>7, <2>1, <1>2, NothingReplaced DEF it
  <2> QED BY <1>1, <2>4, <2>5, <2>6, <2>7
<1>9. ASSUME Starts(pending), UNCHANGED toWorker PROVE Sighted(k, n)'
  BY <1>7, <1>9, <1>4, <1>3, <1>6, <1>1, <1>2 DEF Starts
<1>10. ASSUME Advances, UNCHANGED toWorker PROVE Sighted(k, n)' BY <1>7, <1>10, <1>3, <1>6, <1>1, <1>2 DEF Advances
<1>11. ASSUME NEW o \in Ops, Operates(o) PROVE Sighted(k, n)' BY <1>11, <1>0, <1>5, <1>6, <1>1, <1>2 DEF Operates
<1>12. ASSUME NEW d \in deferred, Retries(d) PROVE Sighted(k, n)' BY <1>12, <1>6, <1>1, <1>2 DEF Retries
<1>13. ASSUME Idles PROVE Sighted(k, n)' BY <1>1, <1>2, <1>13 DEF Idles
<1> QED BY <1>8, <1>9, <1>10, <1>11, <1>12, <1>13 DEF Works

\* Nor does it when a connection ends or begins.
LEMMA SightWorker ==
    ASSUME TypeOK, SlotKnown, Counted, Own, LinkKnown, UpKnown, InSight, UNCHANGED gui,
           Drops \/ Leaves \/ Joins \/ Works
    PROVE  InSight'
<1>0. /\ UNCHANGED <<up, tgen, toolReq, sizeReq>> /\ tgen \in Nat /\ wgen \in Nat /\ wactive \in Nat
      /\ toWorker \in Seq(WorkerEvents) /\ toolReq \in Nat /\ sizeReq \in Nat /\ "tool" \in Kinds /\ "size" \in Kinds
      /\ "tool" # "size" BY DEF gui, link, slot, TypeOK, Kinds
<1> SUFFICES ASSUME up, NoneOf(toGui', Reports({"down"}, {tgen}))
             PROVE  Sighted("tool", toolReq)' /\ Sighted("size", sizeReq)' BY <1>0 DEF InSight
<1>1. tgen # 0 /\ wactive = tgen BY UpHere
<1>2. ~Leaves /\ ~Joins BY <1>0, <1>1, LinksTaken DEF LinkKnown, Pops, Leaves, Joins
<1>3. ~Drops BY <1>0, <1>1 DEF Drops, OneMoreReport
<1>4. Works BY <1>2, <1>3
<1>5. NoneOf(toGui, Reports({"down"}, {tgen})) BY <1>4, <1>0, ReportSets DEF Works, Quiet, SameReports
<1>6. Sighted("tool", toolReq) /\ Sighted("size", sizeReq) BY <1>5 DEF InSight
<1>7. PICK t \in Nat : t = toolReq BY <1>0
<1>8. PICK s \in Nat : s = sizeReq BY <1>0
<1>9. Sighted("tool", t)' BY <1>6, <1>7, <1>0, <1>4, SightWorks DEF Sighted
<1>10. Sighted("size", s)' BY <1>6, <1>8, <1>0, <1>4, SightWorks DEF Sighted
<1>11. toolReq' = t /\ sizeReq' = s BY <1>0, <1>7, <1>8
<1> QED BY <1>9, <1>10, <1>11 DEF Sighted

----
(* The invariant holds. *)

\* At the start nothing is asked for, queued or held.
LEMMA AgreementInit == Init => Agreement
<1> SUFFICES ASSUME Init PROVE Agreement OBVIOUS
<1>1. /\ toWorker = <<>> /\ toGui = <<>> /\ job = NoJob /\ pending = NoJob /\ deferred = {} /\ phase = "idle"
      /\ lastId = 0 /\ toolReq = 0 /\ sizeReq = 0 /\ up = FALSE /\ wup = FALSE /\ tgen = 0 /\ wgen = 1 /\ wactive = 1
      /\ asked = [o \in Ops |-> 0]
      /\ NoJob.kind = "size" /\ NoJob.id = 0 BY Names DEF Init
<1>2. \A S : NoneOf(<<>>, S) BY NoEvents
<1>3. \A S, T : Ordered(<<>>, S, T) /\ Followed(<<>>, S, T) BY NoEvents
<1>4. SlotKnown BY SlotInit
<1>5. Numbered BY <1>1, <1>2, <1>3 DEF TakenTo, HeldTo, Numbered, InOrder, Running
<1>6. AnsweredApart BY <1>1, <1>2, <1>3 DEF AnsweredApart, ToolsOnce
<1>7. OwnRequests /\ ToolIsLast BY <1>1, <1>3 DEF OwnRequests, OwnIn, ToolIsLast
<1>8. LinkKnown BY <1>1, <1>2, <1>3 DEF LinksIn, LinkKnown, Running
<1>9. UpKnown /\ InSight BY <1>1, <1>2, <1>3 DEF UpKnown, InSight
<1> QED BY <1>4, <1>5, <1>6, <1>7, <1>8, <1>9 DEF Agreement

\* Every step keeps the session and the worker in agreement.
LEMMA AgreementStep == IInv /\ [Next]_vars => Agreement'
<1> SUFFICES ASSUME IInv, [Next]_vars PROVE Agreement' OBVIOUS
<1>1. TypeOK /\ SlotKnown /\ Counted /\ Own /\ LinkKnown /\ UpKnown /\ InSight /\ Numbered
  BY DEF IInv, Agreement, Counted, Own
<1>2. SlotKnown' BY <1>1, SlotStep
<1>3. Counted' BY <1>1, CountedStep
<1>4. CASE UserStep \/ GuiStep BY <1>1, <1>4, <1>2, <1>3, OwnGui, LinkGui, UpGui, SightGui DEF Agreement, Counted, Own
<1>5. CASE WorkerStep \/ Elapse \/ TransportLost \/ GoSilent \/ UNCHANGED vars
  <2>0. UNCHANGED gui /\ (Drops \/ Leaves \/ Joins \/ Works) BY <1>1, <1>5, OtherForms
  <2>1. Own' BY <1>1, <2>0, OwnWorker
  <2>2. LinkKnown' BY <1>1, <2>0, LinkWorker
  <2>3. UpKnown' BY <1>1, <2>0, UpWorker
  <2>4. InSight' BY <1>1, <2>0, SightWorker
  <2> QED BY <1>2, <1>3, <2>1, <2>2, <2>3, <2>4 DEF Agreement, Counted, Own
<1> QED BY <1>4, <1>5 DEF Next

\* For any windows, operations, requests and connections the session and the
\* worker agree, whatever is queued between them.
THEOREM Invariance == Spec => []IInv
<1>1. Init => IInv BY TypeInit, AgreementInit DEF IInv
<1>2. IInv /\ [Next]_vars => IInv' BY TypeStep, AgreementStep DEF IInv
<1> QED BY <1>1, <1>2, PTL DEF Spec

----
(* What follows from it. *)

\* Where a request waits or runs.
LEMMA WaitingIs ==
    ASSUME TypeOK, NEW k \in Kinds, NEW n
    PROVE  n \in Waiting(k) <=> \/ \E i \in DOMAIN toWorker : toWorker[i].op = k /\ toWorker[i].id = n
                                \/ job.kind = k /\ job.id = n /\ n # 0
                                \/ pending.kind = k /\ pending.id = n /\ n # 0 BY DEF Waiting, Ids, Queued

\* A queue that holds an event of a set holds it somewhere.
LEMMA SomeRequest ==
    ASSUME NEW k, NEW n, ~NoneOf(toWorker, Requests({k}, {n}))
    PROVE  \E i \in DOMAIN toWorker : toWorker[i].op = k /\ toWorker[i].id = n BY DEF NoneOf, Requests

\* The same for answers.
LEMMA SomeAnswer ==
    ASSUME NEW k, NEW n, NEW q, ~NoneOf(q, Answers({k}, {n}))
    PROVE  \E i \in DOMAIN q : q[i] = [type |-> k, id |-> n] BY DEF NoneOf, Answers

\* The slot of a session that is up is never taken by a request nobody has.
LEMMA SightProved == IInv => SlotInSight
<1> SUFFICES ASSUME IInv, up PROVE
      /\ toolReq \in {0} \cup Waiting("tool") \cup Ids(toGui, Answered("tool")) \/ DownComes
      /\ sizeReq \in {0} \cup Waiting("size") \cup Ids(toGui, Answered("size")) \/ DownComes BY DEF SlotInSight
<1>1. TypeOK /\ InSight /\ "tool" \in Kinds /\ "size" \in Kinds BY Names DEF IInv, Agreement
<1>2. ~DownComes => NoneOf(toGui, Reports({"down"}, {tgen})) BY DEF DownComes, Answered, NoneOf, Reports
<1>3. ASSUME NEW k \in Kinds, NEW n, Sighted(k, n) PROVE n \in {0} \cup Waiting(k) \cup Ids(toGui, Answered(k))
  <2>1. CASE n = 0 BY <2>1
  <2>2. CASE ~NoneOf(toWorker, Requests({k}, {n})) BY <1>1, <2>2, SomeRequest, WaitingIs
  <2>3. CASE n # 0 /\ [kind |-> k, id |-> n] \in {job, pending} BY <1>1, <2>3, WaitingIs
  <2>4. CASE ~NoneOf(toGui, Answers({k}, {n}))
    <3>1. \E i \in DOMAIN toGui : toGui[i] = [type |-> k, id |-> n] BY <2>4, SomeAnswer
    <3> QED BY <3>1 DEF Ids, Answered
  <2> QED BY <1>3, <2>1, <2>2, <2>3, <2>4 DEF Sighted
<1> QED BY <1>1, <1>2, <1>3 DEF InSight

\* What waits with the worker, beside the tool it runs, is newer than that.
LEMMA AloneProved == IInv => ToolRunsAlone
<1> SUFFICES ASSUME IInv, IsTool, Queued("disconnect") = {}
             PROVE  /\ Waiting("size") = {} /\ Queued("metrics") = {}
                    /\ \A d \in deferred : d.op = "metrics" => d.gen # wactive BY DEF ToolRunsAlone
<1>1. /\ TypeOK /\ SlotKnown /\ Numbered /\ OwnRequests /\ ToolIsLast /\ LinkKnown
      /\ "size" \in Kinds /\ "size" # "tool" /\ toolReq \in Nat /\ job.id \in Nat /\ pending.id \in Nat
      /\ toWorker \in Seq(WorkerEvents) BY Names DEF IInv, Agreement, TypeOK, Jobs
<1>2. ~Ends BY DEF Disconnects, Links, Ends, Queued, NoneOf
<1>3. Running /\ job.kind = "tool" /\ wup BY <1>1 DEF IsTool, LinkKnown
<1>4. job.id = toolReq /\ job.id # 0 BY <1>1, <1>2, <1>3 DEF OwnRequests, Ends, Numbered
<1>5. PICK m \in 0 .. lastId : TakenTo(m) /\ m \in Nat BY <1>1, TakenNumbers
<1>6. job.id <= m /\ NoneOf(toWorker, Requests(All, 0 .. m)) BY <1>5 DEF TakenTo, HeldTo
<1>7. ASSUME NEW i \in DOMAIN toWorker, toWorker[i].op \in {"size", "metrics"} PROVE FALSE
  <2> DEFINE e == toWorker[i]
  <2>1. e \in WorkerEvents BY <1>1, <1>7, ElementOfSeq
  <2>2. e.op \in All BY <1>7, <2>1 DEF WorkerEvents, All
  <2>3. e.op \in All \ {"tool", "files"} /\ e.id \in Nat BY <1>7, <2>1, <2>2, EventKinds
  <2>4. e \notin Requests(All, 0 .. m) BY <1>6 DEF NoneOf
  <2>5. e \notin Requests(All \ {"tool", "files"}, From(toolReq)) BY <1>1, <1>4 DEF ToolIsLast, NoneOf
  <2> HIDE DEF e
  <2>6. e.id \notin 0 .. m BY <1>5, <2>1, <2>2, <2>4, Members
  <2>7. e.id \notin From(toolReq)
    <3>1. All \ {"tool", "files"} \in SUBSET All /\ From(toolReq) \in SUBSET Nat BY <1>1, FromIs
    <3> QED BY <2>1, <2>3, <2>5, <3>1, Members
  <2>8. e.id < toolReq BY <1>1, <2>3, <2>7, FromIs
  <2>9. toolReq <= m BY <1>4, <1>6
  <2>10. PICK x \in Nat : x = e.id BY <2>3
  <2>11. x < toolReq /\ x \notin 0 .. m BY <2>6, <2>8, <2>10
  <2> QED BY <1>1, <1>5, <2>9, <2>10, <2>11
<1>8. Waiting("size") = {}
  <2> SUFFICES ASSUME NEW n, n \in Waiting("size") PROVE FALSE OBVIOUS
  <2>1. pending.kind = "size" /\ pending.id # 0 BY <1>1, <1>3, <1>7, WaitingIs
  <2>2. pending.id < toolReq BY <1>1, <1>4, <2>1 DEF ToolIsLast
  <2>3. job.id < pending.id BY <1>1, <1>4, <2>1 DEF Numbered
  <2> QED BY <1>1, <1>4, <2>2, <2>3
<1>9. Queued("metrics") = {} BY <1>7 DEF Queued
<1>10. ASSUME NEW d \in deferred, d.op = "metrics", d.gen = wactive PROVE FALSE
  BY <1>1, <1>2, <1>3, <1>10, <1>4, NoZero DEF OwnRequests, Ends, TypeOK, SlotKnown
<1> QED BY <1>8, <1>9, <1>10

\* For any windows, operations, requests and connections: no request holds the
\* slot of a session that is up without anybody working on it, no window cancels
\* what is not its own, and neither a scan nor a sample waits behind a tool.
THEOREM SlotCorrect == Spec => []SlotIsBacked
<1>1. IInv => SlotIsBacked BY SightProved, AloneProved DEF IInv, Agreement, SlotKnown, SlotIsBacked
<1> QED BY <1>1, Invariance, PTL

\* No tool has two answers, or one and a place with the worker.
LEMMA TwiceProved == IInv => NeverTwice
<1> SUFFICES ASSUME IInv PROVE NeverTwice OBVIOUS
<1>1. TypeOK /\ Numbered /\ AnsweredApart /\ toGui \in Seq(GuiEvents) /\ toWorker \in Seq(WorkerEvents) /\ "tool" \in Kinds
  BY Names DEF IInv, Agreement, TypeOK
<1>2. PICK m \in 0 .. lastId : TakenTo(m) /\ m \in Nat /\ m <= lastId /\ lastId <= MaxRequests /\ lastId \in Nat
  BY <1>1, TakenNumbers
<1>3. ASSUME NEW i \in Answered("tool")
      PROVE  /\ i \in DOMAIN toGui /\ toGui[i].id \in 0 .. m /\ toGui[i].id \in 0 .. MaxRequests
             /\ toGui[i] \in Answers({"tool"}, {toGui[i].id})
  <2> DEFINE e == toGui[i]
  <2>1. i \in DOMAIN toGui /\ e.type = "tool" BY DEF Answered
  <2>2. e \in GuiEvents BY <1>1, <2>1, ElementOfSeq
  <2>3. e \notin Answers(All, From(m + 1)) BY <1>2, <2>1 DEF TakenTo, HeldTo, NoneOf
  <2> HIDE DEF e
  <2>4. e.id \in Nat /\ e.type \in All BY <2>1, <2>2, EventKinds, Names
  <2>5. {"tool"} \in SUBSET All /\ All \in SUBSET All /\ From(m + 1) \in SUBSET Nat /\ m + 1 \in Nat
    BY <1>2, Names, FromIs
  <2>6. e.id \notin From(m + 1) BY <2>2, <2>3, <2>4, <2>5, Members
  <2>7. e.id \in 0 .. m BY <1>2, <2>4, <2>5, <2>6, FromIs
  <2>8. e \in Answers({"tool"}, {e.id}) BY <2>1, <2>2, <2>4, <2>5, Members
  <2>9. 0 .. m \subseteq 0 .. MaxRequests BY <1>2, Names
  <2> QED BY <2>1, <2>7, <2>8, <2>9 DEF e
<1>4. ASSUME NEW i \in Answered("tool"), NEW k \in Answered("tool"), toGui[i].id = toGui[k].id, i < k PROVE FALSE
  BY <1>1, <1>3, <1>4 DEF AnsweredApart, ToolsOnce, Ordered
<1>5. \A i, k \in Answered("tool") : toGui[i].id = toGui[k].id => i = k BY <1>1, <1>4 DEF Answered
<1>6. ASSUME NEW i \in Answered("tool"), toGui[i].id \in Waiting("tool") PROVE FALSE
  <2> DEFINE n == toGui[i].id
  <2>1. ~NoneOf(toGui, Answers({"tool"}, {n})) BY <1>3 DEF NoneOf
  <2>2. n \in 0 .. m BY <1>3
  <2> HIDE DEF n
  <2>3. ~(job.kind = "tool" /\ job.id = n) /\ ~(pending.kind = "tool" /\ pending.id = n)
    BY <1>1, <2>1 DEF AnsweredApart
  <2>4. PICK k \in DOMAIN toWorker : toWorker[k].op = "tool" /\ toWorker[k].id = n
    BY <1>1, <1>6, <2>3, WaitingIs DEF n
  <2>5. toWorker[k] \in WorkerEvents BY <1>1, <2>4, ElementOfSeq
  <2>6. toWorker[k] \notin Requests(All, 0 .. m) BY <1>2 DEF TakenTo, NoneOf
  <2>7. All \in SUBSET All /\ 0 .. m \in SUBSET Nat /\ "tool" \in All BY <1>2, Names
  <2> QED BY <2>2, <2>4, <2>5, <2>6, <2>7, Members
<1>7. Ids(toGui, Answered("tool")) \cap Waiting("tool") = {} BY <1>6 DEF Ids
<1> QED BY <1>5, <1>7 DEF NeverTwice

\* The step that ends a tool answers it.
LEMMA EndedProved ==
    ASSUME IInv, [Next]_vars, IsTool, job' # job
    PROVE  \E i \in DOMAIN toGui' : toGui'[i] = [type |-> "tool", id |-> job.id]
<1>1. TypeOK /\ Numbered /\ LinkKnown /\ SlotKnown /\ job.kind = "tool" /\ job.id \in Nat /\ Running
  BY DEF IInv, Agreement, IsTool, TypeOK, Jobs
<1>2. UserStep \/ GuiStep => job' = job BY <1>1, GuiPosts DEF worker, channel
<1>3. Drops \/ Leaves \/ Joins \/ Works BY <1>1, <1>2, OtherForms DEF Next
<1>4. OneMoreAnswer(toGui, toGui', "tool", job.id)
  <2>1. CASE Drops \/ Leaves \/ Joins BY <2>1 DEF Drops, Leaves, Joins, Abandons
  <2>2. CASE Works
    <3>1. Advances BY <1>1, <2>2 DEF Works, Accepts, Starts, Operates, Retries, Idles
    <3>2. Settles(job) BY <3>1 DEF Advances
    <3> QED BY <1>1, <3>2 DEF Settles
  <2> QED BY <1>3, <2>1, <2>2
<1>5. ~NoneOf(toGui', Answers({"tool"}, {job.id})) BY <1>1, <1>4, Names DEF OneMoreAnswer
<1>6. PICK n \in Nat : n = job.id BY <1>1
<1>7. ~NoneOf(toGui', Answers({"tool"}, {n})) BY <1>5, <1>6
<1>8. \E i \in DOMAIN toGui' : toGui'[i] = [type |-> "tool", id |-> n] BY <1>7 DEF NoneOf, Answers
<1> QED BY <1>6, <1>8

\* Whichever of completion, cancellation, hard limit, teardown and a new
\* connection end a running tool, its window gets exactly one answer, for any
\* windows, operations, requests and connections.
THEOREM AnsweredCorrect == Spec => AnsweredOnce
<1>1. IInv => TypeOK /\ NeverTwice BY TwiceProved DEF IInv
<1>2. IInv /\ [Next]_vars =>
         [IsTool /\ job' # job => \E i \in DOMAIN toGui' : toGui'[i] = [type |-> "tool", id |-> job.id]]_vars
  BY EndedProved
<1>3. Spec => [](TypeOK /\ NeverTwice) BY <1>1, Invariance, PTL
<1>4. Spec => EndedToolIsAnswered BY <1>2, Invariance, PTL DEF Spec, EndedToolIsAnswered
<1> QED BY <1>3, <1>4 DEF AnsweredOnce

====
