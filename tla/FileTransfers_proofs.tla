-------------------------- MODULE FileTransfers_proofs --------------------------
(* Proofs about the transfer of files: the queue of TransferQueue, for any      *)
(* capacity, any number of blocks, tasks, retries and connections, and the      *)
(* writing of one file in RemoteCommit, for any versions of any size, any bound *)
(* on the faults and all kinds of servers.                                      *)
EXTENDS TransferQueue, RemoteCommit, SequenceTheorems, FiniteSetTheorems, TLAPS

----
(* Ids and queues of events. *)

\* The queue has a first task of each kind it has tasks of.
LEMMA MinIsIn ==
    ASSUME NEW S \in SUBSET Nat, S # {}
    PROVE  Min(S) \in S
<1> DEFINE R == {ss \in Nat \X Nat : ss[1] < ss[2]}
<1>1. R = OpToRel(<, Nat) BY DEF OpToRel
<1>2. IsWellFoundedOn(R, Nat) BY <1>1, NatLessThanWellFounded
<1>5. \A x, y \in Nat : y < x => <<y, x>> \in R
  <2> TAKE x, y \in Nat
  <2>1. <<y, x>> \in Nat \X Nat /\ <<y, x>>[1] = y /\ <<y, x>>[2] = x OBVIOUS
  <2> QED BY <2>1
<1> HIDE DEF R
<1>3. \E x \in S : \A y \in S : <<y, x>> \notin R BY <1>2, WFMin
<1>4. PICK x \in S : \A y \in S : <<y, x>> \notin R BY <1>3
<1>6. \A y \in S : x \in Nat /\ y \in Nat /\ ~(y < x) BY <1>4, <1>5
<1>7. \A y \in S : x <= y BY <1>6
<1> QED BY <1>7 DEF Min

\* Ids are positive numbers; 0 stands for no task.
LEMMA IdsAreNumbers == Ids \subseteq Nat \ {0} /\ MaxTasks \in Nat BY BoundAssumption DEF Ids

\* The first task of a set of tasks.
LEMMA FirstIsIn ==
    ASSUME NEW t \in [Ids -> States], NEW states, In(t, states) # {}
    PROVE  Min(In(t, states)) \in Ids /\ t[Min(In(t, states))] \in states
BY IdsAreNumbers, MinIsIn DEF In

\* Elements of S in a queue: none, or one which carries the id a.
NoneOf(q, S) == \A k \in DOMAIN q : q[k] \notin S
OneOf(q, S, a) ==
    \E k \in DOMAIN q : /\ q[k] \in S /\ q[k].id = a
                        /\ \A j \in DOMAIN q : q[j] \in S => j = k

\* Taking the first event out of a queue.
LEMMA TakeFirst ==
    ASSUME NEW T, NEW q \in Seq(T), q # <<>>, NEW S, NEW a
    PROVE  /\ NoneOf(q, S) => Head(q) \notin S /\ NoneOf(Tail(q), S)
           /\ OneOf(q, S, a) => \/ Head(q) \in S /\ Head(q).id = a /\ NoneOf(Tail(q), S)
                                \/ Head(q) \notin S /\ OneOf(Tail(q), S, a)
<1>1. /\ Len(q) \in Nat \ {0} /\ DOMAIN q = 1 .. Len(q) /\ Head(q) = q[1]
      /\ DOMAIN Tail(q) = 1 .. Len(q) - 1 /\ \A i \in 1 .. Len(q) - 1 : Tail(q)[i] = q[i + 1]
  BY EmptySeq, LenProperties, HeadTailProperties
<1> DEFINE n == Len(q)  h == Head(q)  t == Tail(q)
<1> HIDE DEF n, h, t
<1>2. /\ n \in Nat \ {0} /\ DOMAIN q = 1 .. n /\ h = q[1]
      /\ DOMAIN t = 1 .. n - 1 /\ \A i \in 1 .. n - 1 : t[i] = q[i + 1] BY <1>1 DEF n, h, t
<1>3. NoneOf(q, S) => h \notin S /\ NoneOf(t, S) BY <1>2 DEF NoneOf
<1>4. ASSUME OneOf(q, S, a)
      PROVE  \/ h \in S /\ h.id = a /\ NoneOf(t, S)
             \/ h \notin S /\ OneOf(t, S, a)
  <2>1. PICK k \in 1 .. n : q[k] \in S /\ q[k].id = a /\ \A j \in 1 .. n : q[j] \in S => j = k
    BY <1>2, <1>4 DEF OneOf
  <2>2. CASE k = 1 BY <1>2, <2>1, <2>2 DEF NoneOf
  <2>3. CASE k # 1
    <3>1. h \notin S BY <1>2, <2>1, <2>3
    <3>2. k - 1 \in 1 .. n - 1 /\ t[k - 1] = q[k] BY <1>2, <2>3
    <3>3. \A j \in 1 .. n - 1 : t[j] \in S => j = k - 1 BY <1>2, <2>1
    <3> QED BY <1>2, <2>1, <3>1, <3>2, <3>3 DEF OneOf
  <2> QED BY <2>2, <2>3
<1> QED BY <1>3, <1>4 DEF h, t

\* Appending an event to a queue.
LEMMA AppendOne ==
    ASSUME NEW T, NEW q \in Seq(T), NEW e \in T, NEW S, NEW a
    PROVE  /\ Append(q, e) \in Seq(T)
           /\ e \notin S => /\ NoneOf(q, S) => NoneOf(Append(q, e), S)
                            /\ OneOf(q, S, a) => OneOf(Append(q, e), S, a)
           /\ e \in S => (NoneOf(q, S) => OneOf(Append(q, e), S, e.id))
<1> DEFINE n == Len(q)  r == Append(q, e)
<1>1. /\ n \in Nat /\ DOMAIN q = 1 .. n /\ r \in Seq(T) /\ DOMAIN r = 1 .. n + 1
      /\ (\A i \in 1 .. n : r[i] = q[i]) /\ r[n + 1] = e BY LenProperties, AppendProperties
<1> HIDE DEF n, r
<1>2. ASSUME e \notin S, NoneOf(q, S) PROVE NoneOf(r, S) BY <1>1, <1>2 DEF NoneOf
<1>3. ASSUME e \notin S, OneOf(q, S, a) PROVE OneOf(r, S, a)
  <2>1. PICK k \in 1 .. n : q[k] \in S /\ q[k].id = a /\ \A j \in 1 .. n : q[j] \in S => j = k
    BY <1>1, <1>3 DEF OneOf
  <2>2. k \in 1 .. n + 1 /\ r[k] = q[k] BY <1>1
  <2>3. \A j \in 1 .. n + 1 : r[j] \in S => j = k BY <1>1, <1>3, <2>1
  <2> QED BY <1>1, <2>1, <2>2, <2>3 DEF OneOf
<1>4. ASSUME e \in S, NoneOf(q, S) PROVE OneOf(r, S, e.id) BY <1>1, <1>4 DEF NoneOf, OneOf
<1> QED BY <1>1, <1>2, <1>3, <1>4 DEF r

----
(* What the helpers do. *)

\* A full queue drops a finished task or none.
LEMMA EvictEffects ==
    ASSUME TypeOK
    PROVE  /\ Evict \in [Ids -> States]
           /\ \A i \in Ids : Evict[i] = task[i] \/ (task[i] \in Ended /\ Evict[i] = "none")
<1>1. task \in [Ids -> States] /\ "none" \in States BY DEF TypeOK, States
<1>2. CASE Evict = task BY <1>1, <1>2
<1>3. CASE Evict # task
  <2>1. In(task, Ended) # {} /\ Evict = [task EXCEPT ![Min(In(task, Ended))] = "none"] BY <1>3 DEF Evict
  <2> DEFINE m == Min(In(task, Ended))
  <2>2. m \in Ids /\ task[m] \in Ended BY <1>1, <2>1, FirstIsIn
  <2> HIDE DEF m
  <2>3. Evict = [task EXCEPT ![m] = "none"] BY <2>1 DEF m
  <2> QED BY <1>1, <2>2, <2>3
<1> QED BY <1>2, <1>3

\* The first queued task is started if there is one and nothing is active.
LEMMA StartEffects ==
    ASSUME TypeOK, NEW t \in [Ids -> States], StartNext(t)
    PROVE  \/ task' = t /\ UNCHANGED <<active, canceling, demoTimers, toWorker>>
              /\ (active # 0 \/ ~up \/ \A i \in Ids : t[i] # "queued")
           \/ /\ active = 0 /\ up
              /\ \E i \in Ids :
                    /\ t[i] = "queued" /\ active' = i /\ task' = [t EXCEPT ![i] = "running"]
                    /\ canceling' = canceling \ {i}
                    /\ \/ demo /\ demoTimers' = Append(demoTimers, i) /\ UNCHANGED toWorker
                       \/ /\ ~demo /\ UNCHANGED demoTimers
                          /\ toWorker' = Append(toWorker, [op |-> "transfer", id |-> i])
<1>1. CASE active = 0 /\ up /\ In(t, {"queued"}) # {}
  <2> DEFINE m == Min(In(t, {"queued"}))
  <2>1. m \in Ids /\ t[m] = "queued" BY <1>1, FirstIsIn
  <2>2. /\ active' = m /\ task' = [t EXCEPT ![m] = "running"] /\ canceling' = canceling \ {m}
        /\ IF demo THEN demoTimers' = Append(demoTimers, m) /\ UNCHANGED toWorker
           ELSE toWorker' = Append(toWorker, [op |-> "transfer", id |-> m]) /\ UNCHANGED demoTimers
    BY <1>1 DEF StartNext
  <2> HIDE DEF m
  <2> QED BY <1>1, <2>1, <2>2
<1>2. CASE ~(active = 0 /\ up /\ In(t, {"queued"}) # {}) BY <1>2 DEF StartNext, In
<1> QED BY <1>1, <1>2

----
(* The type invariant. *)

\* startNextTransfer keeps the types of what it changes.
LEMMA StartTyped ==
    ASSUME TypeOK, NEW t \in [Ids -> States], StartNext(t)
    PROVE  /\ task' \in [Ids -> States] /\ active' \in 0 .. MaxTasks /\ canceling' \subseteq Ids
           /\ demoTimers' \in Seq(Ids) /\ toWorker' \in Seq(WorkerEvents)
<1>1. CASE task' = t /\ UNCHANGED <<active, canceling, demoTimers, toWorker>> BY <1>1 DEF TypeOK
<1>2. ASSUME NEW i \in Ids, active' = i, task' = [t EXCEPT ![i] = "running"], canceling' = canceling \ {i},
             \/ demo /\ demoTimers' = Append(demoTimers, i) /\ UNCHANGED toWorker
             \/ ~demo /\ UNCHANGED demoTimers /\ toWorker' = Append(toWorker, [op |-> "transfer", id |-> i])
      PROVE  /\ task' \in [Ids -> States] /\ active' \in 0 .. MaxTasks /\ canceling' \subseteq Ids
             /\ demoTimers' \in Seq(Ids) /\ toWorker' \in Seq(WorkerEvents)
  <2>1. [op |-> "transfer", id |-> i] \in WorkerEvents BY DEF WorkerEvents
  <2>2. task' \in [Ids -> States] /\ active' \in 0 .. MaxTasks /\ canceling' \subseteq Ids
    BY <1>2, IdsAreNumbers DEF TypeOK, States, Ids
  <2> DEFINE e == [op |-> "transfer", id |-> i]
  <2>3. e \in WorkerEvents BY <2>1
  <2>4. demoTimers' \in Seq(Ids)
    <3>1. demoTimers \in Seq(Ids) BY DEF TypeOK
    <3>2. Append(demoTimers, i) \in Seq(Ids) BY <3>1, AppendProperties
    <3>3. demoTimers' = demoTimers \/ demoTimers' = Append(demoTimers, i) BY <1>2
    <3> QED BY <3>1, <3>2, <3>3
  <2>5. \/ toWorker' = toWorker \/ toWorker' = Append(toWorker, e) BY <1>2
  <2> HIDE DEF e
  <2>6. toWorker' \in Seq(WorkerEvents) BY <2>3, <2>5, AppendOne DEF TypeOK
  <2> QED BY <2>2, <2>4, <2>6
<1> QED BY <1>1, <1>2, StartEffects

\* The end of the active task keeps the types of what it changes.
LEMMA FinishTyped ==
    ASSUME TypeOK, NEW state \in Ended, FinishActive(state)
    PROVE  /\ task' \in [Ids -> States] /\ active' \in 0 .. MaxTasks /\ canceling' \subseteq Ids
           /\ startDue' \in BOOLEAN
<1>1. task' = [task EXCEPT ![active] = state] /\ canceling' = canceling \ {active} /\ active' = 0
  BY DEF FinishActive
<1>2. startDue' \in BOOLEAN BY DEF FinishActive
<1>3. state \in States /\ 0 \in 0 .. MaxTasks BY IdsAreNumbers DEF States
<1> QED BY <1>1, <1>2, <1>3 DEF TypeOK

\* disconnectFromHost keeps the types of what it changes.
LEMMA EndTyped ==
    ASSUME TypeOK, EndConnection
    PROVE  /\ up' \in BOOLEAN /\ base' \in 0 .. MaxTasks /\ active' \in 0 .. MaxTasks
           /\ cancelId' \in 0 .. MaxTasks /\ canceling' \subseteq Ids /\ wgen' \in Nat
<1>1. up' \in BOOLEAN BY DEF EndConnection
<1>2. wgen' \in Nat BY DEF EndConnection, TypeOK
<1>3. base' \in 0 .. MaxTasks /\ active' \in 0 .. MaxTasks /\ cancelId' \in 0 .. MaxTasks
  BY IdsAreNumbers DEF TypeOK, EndConnection
<1>4. canceling' \subseteq Ids BY DEF TypeOK, EndConnection
<1> QED BY <1>1, <1>2, <1>3, <1>4

\* The events that end one connection and begin another.
LEMMA TeardownTyped ==
    ASSUME TypeOK, NEW g \in Nat
    PROVE  /\ toWorker \o Teardown \in Seq(WorkerEvents)
           /\ toWorker \o Teardown \o <<[op |-> "connect", gen |-> g]>> \in Seq(WorkerEvents)
           /\ toWorker \o Teardown \o <<>> \in Seq(WorkerEvents)
<1>1. [op |-> "disconnect", gen |-> 0] \in WorkerEvents /\ [op |-> "connect", gen |-> g] \in WorkerEvents
  BY DEF WorkerEvents
<1> DEFINE d == [op |-> "disconnect", gen |-> 0]  c == [op |-> "connect", gen |-> g]
<1> HIDE DEF d, c
<1>2. <<>> \in Seq(WorkerEvents) /\ <<d>> \in Seq(WorkerEvents) /\ <<c>> \in Seq(WorkerEvents) BY <1>1 DEF d, c
<1>3. Teardown \in Seq(WorkerEvents) BY <1>2 DEF Teardown, d
<1>4. toWorker \o Teardown \in Seq(WorkerEvents) BY <1>3, ConcatProperties DEF TypeOK
<1> QED BY <1>2, <1>4, ConcatProperties DEF c

\* What the GUI thread takes from its queue is an event.
LEMMA DeliverTyped ==
    ASSUME TypeOK, NEW type, Deliver(type)
    PROVE  toGui' \in Seq(GuiEvents) /\ Head(toGui) \in GuiEvents BY HeadTailProperties DEF TypeOK, Deliver

\* What the worker takes from its queue is an event of the kind it asked for.
LEMMA TakeTyped ==
    ASSUME TypeOK, NEW name, Take(name)
    PROVE  toWorker' \in Seq(WorkerEvents) /\ Head(toWorker) \in WorkerEvents /\ Head(toWorker).op = name
  BY HeadTailProperties DEF TypeOK, Take

\* Answers and reports of the worker.
LEMMA ReportTyped ==
    ASSUME TypeOK, NEW type \in {"up", "down"}, NEW g \in Nat
    PROVE  Append(toGui, [type |-> type, gen |-> g]) \in Seq(GuiEvents)
<1> DEFINE e == [type |-> type, gen |-> g]
<1>1. e \in GuiEvents BY DEF GuiEvents
<1> HIDE DEF e
<1>2. Append(toGui, e) \in Seq(GuiEvents) BY <1>1, AppendOne DEF TypeOK
<1> QED BY <1>2 DEF e

\* A loop of the worker has a task, and blocks to move while it moves them.
MovesTask == (stage # "idle" => wjob # 0) /\ (stage \in {"check", "io"} => left # 0)

\* An answer of the worker is an event, and its loop is over.
LEMMA AnswerTyped ==
    ASSUME TypeOK, MovesTask, NEW type \in Ended, stage # "idle", Answer(type)
    PROVE  /\ toGui' \in Seq(GuiEvents) /\ stage' = "idle" /\ wjob' = 0 /\ left' = 0
           /\ toGui' = Append(toGui, [type |-> type, id |-> wjob])
           /\ [type |-> type, id |-> wjob] \in GuiEvents
<1> DEFINE e == [type |-> type, id |-> wjob]
<1>1. wjob \in Ids BY DEF TypeOK, MovesTask, Ids
<1>2. e \in GuiEvents BY <1>1 DEF GuiEvents
<1>3. toGui' = Append(toGui, e) /\ stage' = "idle" /\ wjob' = 0 /\ left' = 0 BY DEF Answer, Return
<1> HIDE DEF e
<1>4. toGui' \in Seq(GuiEvents) BY <1>2, <1>3, AppendOne DEF TypeOK
<1> QED BY <1>2, <1>3, <1>4 DEF e

\* The types hold at the start.
LEMMA TypeInit == Init => TypeOK /\ MovesTask
<1> SUFFICES ASSUME Init PROVE TypeOK /\ MovesTask OBVIOUS
<1>1. /\ up \in BOOLEAN /\ demo \in BOOLEAN /\ startDue \in BOOLEAN /\ wup \in BOOLEAN
      /\ tgen \in Nat /\ wgen \in Nat /\ wactive \in Nat BY DEF Init
<1>2. /\ lastId \in 0 .. MaxTasks /\ base \in 0 .. MaxTasks /\ active \in 0 .. MaxTasks
      /\ cancelId \in 0 .. MaxTasks /\ wjob \in 0 .. MaxTasks /\ left \in 0 .. Blocks
  BY BoundAssumption DEF Init
<1>3. task \in [Ids -> States] /\ uploads \subseteq Ids /\ canceling \subseteq Ids /\ stage \in Stages
      /\ deferred \subseteq [id : Ids, gen : Nat] BY DEF Init, States, Stages
<1>4. demoTimers \in Seq(Ids) /\ toWorker \in Seq(WorkerEvents) /\ toGui \in Seq(GuiEvents) BY EmptySeq DEF Init
<1> QED BY <1>1, <1>2, <1>3, <1>4 DEF Init, TypeOK, MovesTask

\* The user keeps the types.
LEMMA TypeUser ==
    ASSUME TypeOK, MovesTask, UserStep
    PROVE  TypeOK' /\ MovesTask'
<1> USE DEF link, loop, worker
<1>1. ASSUME NEW upload \in BOOLEAN, Enqueue(upload) PROVE TypeOK' /\ MovesTask'
  <2>1. lastId' = lastId + 1 /\ lastId' \in Ids /\ lastId' \in 0 .. MaxTasks
    BY <1>1, IdsAreNumbers DEF Enqueue, TypeOK, Ids
  <2>2. [Evict EXCEPT ![lastId'] = "queued"] \in [Ids -> States] BY EvictEffects DEF States
  <2>3. StartNext([Evict EXCEPT ![lastId'] = "queued"]) BY <1>1 DEF Enqueue
  <2>4. uploads' \subseteq Ids BY <1>1, <2>1 DEF Enqueue, TypeOK
  <2>5. UNCHANGED <<link, base, startDue, cancelId, worker, toGui>> BY <1>1 DEF Enqueue
  <2> QED BY <2>1, <2>2, <2>3, <2>4, <2>5, StartTyped DEF TypeOK, MovesTask
<1>2. ASSUME NEW i \in Ids, CancelQueued(i) PROVE TypeOK' /\ MovesTask'
  BY <1>2 DEF CancelQueued, TypeOK, MovesTask, States, Ended
<1>3. ASSUME NEW i \in Ids, CancelRunning(i) PROVE TypeOK' /\ MovesTask'
  <2>1. UNCHANGED <<link, uploads, lastId, base, demoTimers, worker, toWorker, toGui>> BY <1>3 DEF CancelRunning
  <2>2. CASE demo BY <1>3, <2>2, <2>1, FinishTyped DEF CancelRunning, Ended, TypeOK, MovesTask
  <2>3. CASE ~demo
    <3>1. cancelId' = i /\ canceling' = canceling \cup {i} /\ UNCHANGED <<task, active, startDue>>
      BY <1>3, <2>3 DEF CancelRunning
    <3>2. cancelId' \in 0 .. MaxTasks BY <3>1 DEF Ids
    <3> QED BY <2>1, <3>1, <3>2 DEF TypeOK, MovesTask
  <2> QED BY <2>2, <2>3
<1>4. ASSUME NEW i \in Ids, RetryTransfer(i) PROVE TypeOK' /\ MovesTask'
  BY <1>4, StartTyped DEF TypeOK, States, RetryTransfer, MovesTask
<1>5. CASE Disconnect
  <2>1. EndConnection /\ tgen' = 0 /\ task' = CanceledAll /\ UNCHANGED demo BY <1>5 DEF Disconnect
  <2>2. toWorker' \in Seq(WorkerEvents) BY <1>5, TeardownTyped DEF Disconnect
  <2>3. CanceledAll \in [Ids -> States] BY DEF CanceledAll, TypeOK, States, Ended
  <2>4. UNCHANGED <<uploads, lastId, startDue, demoTimers, worker, toGui>> BY <2>1 DEF EndConnection
  <2> QED BY <2>1, <2>2, <2>3, <2>4, EndTyped DEF TypeOK, MovesTask
<1>6. ASSUME NEW isDemo \in BOOLEAN, Connect(isDemo) PROVE TypeOK' /\ MovesTask'
  <2>1. EndConnection /\ tgen' = wgen' /\ demo' = isDemo /\ task' = [i \in Ids |-> "none"] BY <1>6 DEF Connect
  <2>2. wgen' \in Nat BY <2>1, EndTyped
  <2>3. toWorker' \in Seq(WorkerEvents) BY <1>6, <2>2, TeardownTyped DEF Connect
  <2>4. task' \in [Ids -> States] BY <2>1 DEF States
  <2>5. UNCHANGED <<uploads, lastId, startDue, demoTimers, worker, toGui>> BY <2>1 DEF EndConnection
  <2> QED BY <2>1, <2>2, <2>3, <2>4, <2>5, EndTyped DEF TypeOK, MovesTask
<1> QED BY <1>1, <1>2, <1>3, <1>4, <1>5, <1>6 DEF UserStep

\* The GUI thread keeps the types.
LEMMA TypeGui ==
    ASSUME TypeOK, MovesTask, GuiStep
    PROVE  TypeOK' /\ MovesTask'
<1> USE DEF link, loop, worker
<1>1. CASE StartTimerFires BY <1>1, StartTyped DEF StartTimerFires, TypeOK, MovesTask
<1>2. CASE DemoTimerFires
  <2>1. demoTimers' \in Seq(Ids) BY <1>2, HeadTailProperties DEF DemoTimerFires, TypeOK
  <2>2. UNCHANGED <<link, uploads, lastId, base, cancelId, worker, toWorker, toGui>> BY <1>2 DEF DemoTimerFires
  <2>3. CASE \E state \in {"completed", "failed"} : FinishActive(state)
    <3>1. PICK state \in Ended : FinishActive(state) BY <2>3 DEF Ended
    <3> QED BY <2>1, <2>2, <3>1, FinishTyped DEF TypeOK, MovesTask
  <2>4. CASE UNCHANGED <<task, canceling, active, startDue>> BY <2>1, <2>2, <2>4 DEF TypeOK, MovesTask
  <2> QED BY <1>2, <2>3, <2>4 DEF DemoTimerFires
<1>3. CASE DemoConnects BY <1>3 DEF DemoConnects, tasks, TypeOK, MovesTask
<1>4. CASE HandleUp \/ HandleDown BY <1>4, DeliverTyped DEF HandleUp, HandleDown, tasks, TypeOK, MovesTask
<1>5. ASSUME NEW state \in Ended, HandleAnswer(state) PROVE TypeOK' /\ MovesTask'
  BY <1>5, DeliverTyped, FinishTyped DEF HandleAnswer, TypeOK, MovesTask
<1> QED BY <1>1, <1>2, <1>3, <1>4, <1>5 DEF GuiStep

\* A transfer begins with the task it was asked for.
LEMMA BeginTyped ==
    ASSUME TypeOK, NEW i \in Ids, Begin(i)
    PROVE  /\ stage' = "begin" /\ wjob' = i /\ left' = left
           /\ wjob' \in 0 .. MaxTasks /\ wjob' # 0 /\ cancelId' \in 0 .. MaxTasks
  BY IdsAreNumbers DEF Begin, TypeOK, Ids

\* A request in the queue names a task.
LEMMA RequestTyped ==
    ASSUME TypeOK, Take("transfer")
    PROVE  Head(toWorker).id \in Ids
BY TakeTyped DEF WorkerEvents

\* The worker keeps the types.
LEMMA TypeWorker ==
    ASSUME TypeOK, MovesTask, WorkerStep \/ TransportLost
    PROVE  TypeOK' /\ MovesTask'
<1> USE DEF link, tasks, loop, gui
<1>1. CASE TakeTransfer BY <1>1, TakeTyped, RequestTyped, BeginTyped DEF TakeTransfer, Take, TypeOK, MovesTask, Stages
<1>2. CASE WorkerDisconnects BY <1>2, TakeTyped, ReportTyped DEF WorkerDisconnects, TypeOK, MovesTask
<1>3. CASE WorkerConnects
  <2>1. toWorker' \in Seq(WorkerEvents) /\ Head(toWorker).gen \in Nat
    BY <1>3, TakeTyped DEF WorkerConnects, WorkerEvents
  <2>2. wactive' \in Nat BY <1>3, <2>1 DEF WorkerConnects
  <2>3. toGui' \in Seq(GuiEvents) BY <1>3, <2>2, ReportTyped DEF WorkerConnects, TypeOK
  <2>4. wup' \in BOOLEAN BY <1>3 DEF WorkerConnects
  <2>5. UNCHANGED <<gui, cancelId, loop, deferred>> BY <1>3 DEF WorkerConnects
  <2> QED BY <2>1, <2>2, <2>3, <2>4, <2>5 DEF TypeOK, MovesTask
<1>4. ASSUME NEW d \in deferred, RetryDeferred(d) PROVE TypeOK' /\ MovesTask'
  BY <1>4, BeginTyped DEF TypeOK, RetryDeferred, MovesTask, Stages
<1>5. CASE Opened BY <1>5, IdsAreNumbers DEF Opened, TypeOK, MovesTask, Stages
<1>6. CASE Check BY <1>6, AnswerTyped, BoundAssumption, IdsAreNumbers DEF Check, TypeOK, MovesTask, Stages, Ended
<1>7. CASE MoveBlock BY <1>7, BoundAssumption DEF MoveBlock, TypeOK, MovesTask, Stages
<1>8. CASE Commit BY <1>8, AnswerTyped, BoundAssumption, IdsAreNumbers DEF Commit, TypeOK, MovesTask, Stages, Ended
<1>9. CASE TransferFails
  BY <1>9, IdsAreNumbers, AnswerTyped, BoundAssumption DEF TransferFails, TypeOK, MovesTask, Stages, Ended
<1>10. CASE TransportLost BY <1>10, ReportTyped DEF TransportLost, TypeOK, MovesTask
<1> QED BY <1>1, <1>2, <1>3, <1>4, <1>5, <1>6, <1>7, <1>8, <1>9, <1>10 DEF WorkerStep

----
(* The inductive invariant. *)

\* Queued events that concern a task with an id above b, and reports of a
\* connection without a number (there are none).
Requests(b) == {e \in WorkerEvents : e.op = "transfer" /\ e.id > b}
Answers(b) == {e \in GuiEvents : e.type \in Ended /\ e.id > b}
Unnumbered == {e \in WorkerEvents : e.op = "connect" /\ e.gen = 0}
UnnumberedUp == {e \in GuiEvents : e.type = "up" /\ e.gen = 0}

\* No id is in use anywhere before it is given out.
Known ==
    /\ base <= lastId
    /\ \A i \in Ids : i > lastId => task[i] = "none"
    /\ NoneOf(toWorker, Requests(lastId)) /\ NoneOf(toGui, Answers(lastId))
    /\ \A d \in deferred : d.id <= lastId
    /\ wjob <= lastId
    /\ \A k \in DOMAIN demoTimers : demoTimers[k] <= lastId

\* Transfers of this connection: where there is none, where there is just one.
NotRequested == NoneOf(toWorker, Requests(base))
NotDeferred == \A d \in deferred : d.id <= base
NotMoving == stage = "idle" \/ wjob <= base
NotAnswered == NoneOf(toGui, Answers(base))
OneRequested == OneOf(toWorker, Requests(base), active)
OneDeferred == \E d \in deferred : d.id = active /\ \A e \in deferred : e.id > base => e = d
OneMoving == stage # "idle" /\ wjob = active
OneAnswered == OneOf(toGui, Answers(base), active)

\* The session and the worker share one token: while a task is active on a
\* connection, it is in one of four places or its answer has been lost with the
\* worker's timer; otherwise there is nothing of this connection anywhere.
Quiet == NotRequested /\ NotDeferred /\ NotMoving /\ NotAnswered
OneRun ==
    \/ OneRequested /\ NotDeferred /\ NotMoving /\ NotAnswered
    \/ NotRequested /\ OneDeferred /\ NotMoving /\ NotAnswered
    \/ NotRequested /\ NotDeferred /\ OneMoving /\ NotAnswered
    \/ NotRequested /\ NotDeferred /\ NotMoving /\ OneAnswered
Token == Quiet \/ (active # 0 /\ ~demo /\ OneRun)

\* A session that is up, or waits for a task, has a connection, and no task of
\* an earlier one in its queue; only demo sessions simulate their tasks.
Session ==
    /\ up \/ active # 0 => tgen # 0
    /\ tgen # 0 => \A i \in Ids : i <= base => task[i] = "none"
    /\ \A k \in DOMAIN demoTimers : demoTimers[k] > base => demo

\* Connections are numbered from one, so that 0 can mean none.
Numbered == wgen # 0 /\ wactive # 0 /\ NoneOf(toWorker, Unnumbered) /\ NoneOf(toGui, UnnumberedUp)

Agreement == ActiveIsRunning /\ Known /\ Token /\ Session /\ Numbered
IInv == TypeOK /\ MovesTask /\ Agreement

----
(* How the parts of the invariant depend on the steps. *)

\* The simplest use of the invariant.
LEMMA ActiveIsNew ==
    ASSUME IInv, active # 0
    PROVE  active \in Ids /\ active > base /\ active <= lastId /\ task[active] = "running"
<1>1. active \in Ids BY DEF IInv, TypeOK, Ids
<1>2. task[active] = "running" BY <1>1 DEF IInv, Agreement, ActiveIsRunning
<1>3. tgen # 0 BY DEF IInv, Agreement, Session
<1> QED BY <1>1, <1>2, <1>3, IdsAreNumbers DEF IInv, Agreement, TypeOK, Session, Known

\* The timers of simulated transfers carry ids.
LEMMA TimersTyped ==
    ASSUME TypeOK
    PROVE  /\ \A k \in DOMAIN demoTimers : demoTimers[k] \in Nat
           /\ \A i \in Ids : \A k \in DOMAIN Append(demoTimers, i) :
                 \/ Append(demoTimers, i)[k] = i
                 \/ k \in DOMAIN demoTimers /\ Append(demoTimers, i)[k] = demoTimers[k]
<1>1. demoTimers \in Seq(Ids) BY DEF TypeOK
<1>2. Len(demoTimers) \in Nat /\ DOMAIN demoTimers = 1 .. Len(demoTimers) BY <1>1, LenProperties
<1>3. \A k \in DOMAIN demoTimers : demoTimers[k] \in Nat BY <1>1, <1>2, ElementOfSeq, IdsAreNumbers
<1>4. ASSUME NEW i \in Ids, NEW k \in DOMAIN Append(demoTimers, i)
      PROVE  \/ Append(demoTimers, i)[k] = i
             \/ k \in DOMAIN demoTimers /\ Append(demoTimers, i)[k] = demoTimers[k]
  BY <1>1, <1>2, AppendProperties, LenProperties
<1> QED BY <1>3, <1>4

\* A queue without elements of a set has none of a smaller one.
LEMMA NoneOfLess ==
    ASSUME NEW q, NEW S, NEW R, R \subseteq S, NoneOf(q, S)
    PROVE  NoneOf(q, R) BY DEF NoneOf

\* Events about later ids are events about earlier ones.
LEMMA LaterIds ==
    ASSUME NEW b \in Nat, NEW c \in Nat, b <= c
    PROVE  Requests(c) \subseteq Requests(b) /\ Answers(c) \subseteq Answers(b)
<1>1. \A e \in Requests(c) : e.id \in Nat BY IdsAreNumbers DEF Requests, WorkerEvents
<1>2. \A e \in Answers(c) : e.id \in Nat BY IdsAreNumbers DEF Answers, GuiEvents, Ended
<1>3. Requests(c) \subseteq Requests(b) BY <1>1 DEF Requests
<1>4. Answers(c) \subseteq Answers(b) BY <1>2 DEF Answers
<1> QED BY <1>3, <1>4

\* Ending a connection, and beginning another, asks for no transfer.
LEMMA TeardownAdds ==
    ASSUME TypeOK, NEW g \in Nat, NEW S, NoneOf(toWorker, S),
           [op |-> "disconnect", gen |-> 0] \notin S, [op |-> "connect", gen |-> g] \notin S
    PROVE  /\ NoneOf(toWorker \o Teardown, S)
           /\ NoneOf(toWorker \o Teardown \o <<[op |-> "connect", gen |-> g]>>, S)
           /\ NoneOf(toWorker \o Teardown \o <<>>, S)
<1> DEFINE d == [op |-> "disconnect", gen |-> 0]  c == [op |-> "connect", gen |-> g]
<1>1. d \in WorkerEvents /\ c \in WorkerEvents BY DEF WorkerEvents
<1>2. Teardown = <<>> \/ Teardown = <<d>> BY DEF Teardown
<1> HIDE DEF d, c
<1>3. toWorker \in Seq(WorkerEvents) BY DEF TypeOK
<1>4. toWorker \o <<>> = toWorker /\ toWorker \o <<d>> = Append(toWorker, d)
  BY <1>1, <1>3, ConcatEmptySeq, AppendIsConcat
<1>5. toWorker \o Teardown \in Seq(WorkerEvents) /\ NoneOf(toWorker \o Teardown, S)
  BY <1>1, <1>3, <1>2, <1>4, AppendOne DEF d
<1> DEFINE q == toWorker \o Teardown
<1>6. q \in Seq(WorkerEvents) /\ NoneOf(q, S) BY <1>5
<1> HIDE DEF q
<1>7. q \o <<>> = q /\ q \o <<c>> = Append(q, c) BY <1>1, <1>6, ConcatEmptySeq, AppendIsConcat
<1>8. NoneOf(Append(q, c), S) BY <1>1, <1>6, AppendOne DEF c
<1> QED BY <1>6, <1>7, <1>8 DEF q, c

\* Starting the next task of a queue t which differs from the old one in tasks
\* that do not run, and has only new tasks queued.
LEMMA StartKeeps ==
    ASSUME IInv, NEW t \in [Ids -> States], StartNext(t), lastId' \in Nat, lastId <= lastId',
           \A i \in Ids : t[i] = "running" <=> task[i] = "running",
           \A i \in Ids : i > lastId' => t[i] = "none",
           tgen # 0 => \A i \in Ids : i <= base => t[i] = "none",
           UNCHANGED <<link, base, worker, toGui>>
    PROVE  Agreement'
<1> USE DEF IInv, Agreement, link, worker, loop
<1>n. /\ Ids \subseteq Nat \ {0} /\ MaxTasks \in Nat
      /\ lastId \in Nat /\ base \in Nat /\ active \in Nat /\ wjob \in Nat /\ \A d \in deferred : d.id \in Nat
      /\ toWorker \in Seq(WorkerEvents) /\ demoTimers \in Seq(Ids) BY IdsAreNumbers DEF TypeOK
<1>k. /\ Requests(lastId') \subseteq Requests(lastId) /\ Answers(lastId') \subseteq Answers(lastId)
  BY <1>n, LaterIds
<1>1. CASE task' = t /\ UNCHANGED <<active, canceling, demoTimers, toWorker>>
  <2>1. ActiveIsRunning' BY <1>1 DEF ActiveIsRunning
  <2>2. Known' BY <1>k, <1>n, <1>1, NoneOfLess, TimersTyped DEF Known
  <2>3. Token' BY <1>1 DEF Token, Quiet, OneRun, NotRequested, NotDeferred, NotMoving, NotAnswered, OneRequested,
                           OneDeferred, OneMoving, OneAnswered
  <2>4. Session' /\ Numbered' BY <1>1 DEF Session, Numbered
  <2> QED BY <2>1, <2>2, <2>3, <2>4
<1>2. ASSUME active = 0, up, NEW i \in Ids,
             t[i] = "queued", active' = i, task' = [t EXCEPT ![i] = "running"],
             \/ demo /\ demoTimers' = Append(demoTimers, i) /\ UNCHANGED toWorker
             \/ ~demo /\ UNCHANGED demoTimers /\ toWorker' = Append(toWorker, [op |-> "transfer", id |-> i])
      PROVE  Agreement'
  <2> DEFINE e == [op |-> "transfer", id |-> i]
  <2>1. tgen # 0 BY <1>2 DEF Session
  <2>2. i > base /\ i <= lastId' /\ i \in Nat \ {0} BY <1>2, <1>n, <2>1
  <2>3. \A j \in Ids : task[j] # "running" BY <1>2, <1>n DEF ActiveIsRunning
  <2>4. ActiveIsRunning' BY <1>2, <2>3 DEF ActiveIsRunning
  <2>5. Quiet BY <1>2 DEF Token
  <2>6. e \in Requests(base) /\ e \notin Requests(lastId') /\ e \notin Unnumbered /\ e \in WorkerEvents
    BY <2>2, <1>n DEF Requests, WorkerEvents, Unnumbered
  <2>7. (demo /\ UNCHANGED toWorker) \/ (~demo /\ toWorker' = Append(toWorker, e)) BY <1>2
  <2>8. e.id = i OBVIOUS
  <2> HIDE DEF e
  <2>9. Token'
    <3>1. CASE demo /\ UNCHANGED toWorker
      BY <3>1, <2>5 DEF Token, Quiet, NotRequested, NotDeferred, NotMoving, NotAnswered
    <3>2. CASE ~demo /\ toWorker' = Append(toWorker, e)
      <4>1. OneOf(toWorker', Requests(base), i) BY <3>2, <2>5, <2>6, <2>8, <1>n, AppendOne DEF Quiet, NotRequested
      <4> QED BY <3>2, <4>1, <2>2, <2>5, <1>2 DEF Token, Quiet, OneRun, OneRequested, NotDeferred, NotMoving, NotAnswered
    <3> QED BY <2>7, <3>1, <3>2
  <2>10. Known'
    <3>1. NoneOf(toWorker, Requests(lastId')) /\ NoneOf(toGui, Answers(lastId')) BY <1>k, NoneOfLess DEF Known
    <3>2. NoneOf(toWorker', Requests(lastId')) BY <2>6, <2>7, <3>1, <1>n, AppendOne
    <3>3. \A k \in DOMAIN demoTimers' : demoTimers'[k] <= lastId'
      <4>1. \A k \in DOMAIN demoTimers : demoTimers[k] \in Nat /\ demoTimers[k] <= lastId
        BY TimersTyped DEF Known
      <4>2. \A k \in DOMAIN demoTimers : demoTimers[k] <= lastId' BY <4>1, <1>n
      <4> QED BY <1>2, <4>2, <2>2, TimersTyped
    <3> QED BY <1>2, <1>n, <2>2, <3>1, <3>2, <3>3 DEF Known
  <2>11. Numbered' BY <2>6, <2>7, <1>n, AppendOne DEF Numbered
  <2>12. Session' BY <1>2, <2>1, <2>2, TimersTyped DEF Session
  <2> QED BY <2>4, <2>9, <2>10, <2>11, <2>12
<1> QED BY <1>1, <1>2, StartEffects

\* The end of the active task's run, when nothing of it is left on the way.
LEMMA FinishKeeps ==
    ASSUME IInv, NEW state \in Ended, FinishActive(state), active # 0,
           Quiet', Numbered', NoneOf(toGui', Answers(lastId)),
           \A k \in DOMAIN demoTimers' : demoTimers'[k] <= lastId /\ (demoTimers'[k] > base => demo),
           UNCHANGED <<link, lastId, base, worker, toWorker>>
    PROVE  Agreement'
<1> USE DEF IInv, Agreement, link, worker, loop
<1>1. active \in Ids /\ active > base /\ active <= lastId /\ task[active] = "running" BY ActiveIsNew
<1>2. task' = [task EXCEPT ![active] = state] /\ active' = 0 /\ task \in [Ids -> States]
  BY DEF FinishActive, TypeOK
<1>3. state # "running" /\ \A i \in Ids : i # 0 BY IdsAreNumbers DEF Ended
<1>4. ActiveIsRunning' BY <1>1, <1>2, <1>3 DEF ActiveIsRunning
<1>5. Known' BY <1>1, <1>2, IdsAreNumbers DEF Known, TypeOK
<1>6. Session' BY <1>1, <1>2, IdsAreNumbers DEF Session, TypeOK
<1> QED BY <1>4, <1>5, <1>6 DEF Token

\* The end of a connection: every id given out belongs to the past.
LEMMA EndKeeps ==
    ASSUME IInv, EndConnection, \A i \in Ids : task'[i] # "running", \A i \in Ids : task[i] = "none" => task'[i] = "none",
           tgen' = 0 \/ \A i \in Ids : task'[i] = "none",
           \E g \in Nat \ {0} : toWorker' \in {toWorker \o Teardown, toWorker \o Teardown \o <<>>,
                                          toWorker \o Teardown \o <<[op |-> "connect", gen |-> g]>>}
    PROVE  Agreement'
<1> USE DEF IInv, Agreement, worker, loop
<1>1. /\ up' = FALSE /\ base' = lastId /\ active' = 0 /\ lastId' = lastId
      /\ UNCHANGED <<demoTimers, worker, toGui>>
      /\ wgen' = wgen \/ wgen' = wgen + 1 BY DEF EndConnection
<1>2. wgen \in Nat /\ lastId \in Nat BY DEF TypeOK
<1>3. PICK g \in Nat \ {0} : toWorker' \in {toWorker \o Teardown, toWorker \o Teardown \o <<>>,
                                       toWorker \o Teardown \o <<[op |-> "connect", gen |-> g]>>} OBVIOUS
<1>4. /\ [op |-> "disconnect", gen |-> 0] \notin Requests(lastId) /\ [op |-> "connect", gen |-> g] \notin Requests(lastId)
      /\ [op |-> "disconnect", gen |-> 0] \notin Unnumbered /\ [op |-> "connect", gen |-> g] \notin Unnumbered
  BY DEF Requests, Unnumbered
<1>5. NoneOf(toWorker', Requests(lastId)) BY <1>3, <1>4, TeardownAdds DEF Known
<1>6. NoneOf(toWorker', Unnumbered) BY <1>3, <1>4, TeardownAdds DEF Numbered
<1>7. Known' BY <1>1, <1>2, <1>5 DEF Known
<1>8. Token' BY <1>1, <1>5 DEF Known, Token, Quiet, NotRequested, NotDeferred, NotMoving, NotAnswered
<1>9. ActiveIsRunning' BY <1>1, IdsAreNumbers DEF ActiveIsRunning
<1>10. Session' BY <1>1, <1>2, TimersTyped DEF Known, Session
<1>11. Numbered' BY <1>1, <1>2, <1>6 DEF Numbered
<1> QED BY <1>7, <1>8, <1>9, <1>10, <1>11

----
(* The GUI thread keeps the agreement. *)

\* What the user asks for keeps the agreement.
LEMMA UserKeeps ==
    ASSUME IInv, UserStep
    PROVE  Agreement'
<1>t. /\ task \in [Ids -> States] /\ lastId \in Nat /\ base \in Nat /\ wgen \in Nat /\ Ids \subseteq Nat \ {0}
      /\ MaxTasks \in Nat /\ TypeOK BY IdsAreNumbers DEF IInv, TypeOK
<1>1. ASSUME NEW upload \in BOOLEAN, Enqueue(upload) PROVE Agreement'
  <2> DEFINE t == [Evict EXCEPT ![lastId'] = "queued"]
  <2>1. /\ lastId' = lastId + 1 /\ StartNext(t) /\ up /\ lastId' \in Ids
        /\ UNCHANGED <<link, base, worker, toGui>> BY <1>1, <1>t DEF Enqueue, Ids
  <2>2. /\ Evict \in [Ids -> States]
        /\ \A i \in Ids : Evict[i] = task[i] \/ (task[i] \in Ended /\ Evict[i] = "none") BY <1>t, EvictEffects
  <2>3. t \in [Ids -> States] BY <2>2 DEF States
  <2>4. tgen # 0 /\ \A i \in Ids : i <= base => task[i] = "none" BY <2>1 DEF IInv, Agreement, Session
  <2>5. base <= lastId /\ \A i \in Ids : i > lastId => task[i] = "none" BY DEF IInv, Agreement, Known
  <2>6. task[lastId'] = "none" BY <2>1, <2>5, <1>t
  <2>7. \A i \in Ids : t[i] = "running" <=> task[i] = "running" BY <2>2, <2>6 DEF Ended
  <2>8. \A i \in Ids : i > lastId' => t[i] = "none" BY <2>1, <2>2, <2>5, <1>t DEF Ended
  <2>9. \A i \in Ids : i <= base => t[i] = "none" BY <2>1, <2>2, <2>4, <2>5, <1>t DEF Ended
  <2> HIDE DEF t
  <2> QED BY <2>1, <2>3, <2>7, <2>8, <2>9, <1>t, StartKeeps
<1>2. ASSUME NEW i \in Ids, CancelQueued(i) PROVE Agreement'
  <2>1. task[i] = "queued" /\ task' = [task EXCEPT ![i] = "canceled"] BY <1>2 DEF CancelQueued
  <2>2. UNCHANGED <<link, lastId, base, active, demoTimers, worker, toWorker, toGui>> BY <1>2 DEF CancelQueued
  <2>3. ActiveIsRunning' BY <2>1, <2>2, <1>t DEF IInv, Agreement, ActiveIsRunning
  <2>4. Known' BY <2>1, <2>2, <1>t DEF IInv, Agreement, Known, worker, loop
  <2>5. Session' BY <2>1, <2>2, <1>t DEF IInv, Agreement, Session, link
  <2>6. Token' /\ Numbered'
    BY <2>2 DEF IInv, Agreement, Token, Quiet, OneRun, NotRequested, NotDeferred, NotMoving, NotAnswered, OneRequested,
                OneDeferred, OneMoving, OneAnswered, Numbered, link, worker, loop
  <2> QED BY <2>3, <2>4, <2>5, <2>6 DEF Agreement
<1>3. ASSUME NEW i \in Ids, CancelRunning(i) PROVE Agreement'
  <2>1. task[i] = "running" /\ UNCHANGED <<link, lastId, base, demoTimers, worker, toWorker, toGui>>
    BY <1>3 DEF CancelRunning
  <2>2. active = i /\ active # 0 BY <2>1, <1>t DEF IInv, Agreement, ActiveIsRunning
  <2>3. CASE demo
    <3>1. FinishActive("canceled") /\ "canceled" \in Ended BY <1>3, <2>3 DEF CancelRunning, Ended
    <3>2. Quiet' BY <2>1, <2>3 DEF IInv, Agreement, Token, Quiet, NotRequested, NotDeferred, NotMoving, NotAnswered,
                                   worker, loop
    <3>3. Numbered' /\ NoneOf(toGui', Answers(lastId)) BY <2>1 DEF IInv, Agreement, Numbered, Known, link, worker
    <3>4. \A k \in DOMAIN demoTimers' : demoTimers'[k] <= lastId /\ (demoTimers'[k] > base => demo)
      BY <2>1, <2>3 DEF IInv, Agreement, Known
    <3> QED BY <2>1, <2>2, <3>1, <3>2, <3>3, <3>4, FinishKeeps
  <2>4. CASE ~demo
    <3>1. UNCHANGED <<task, active>> BY <1>3, <2>4 DEF CancelRunning
    <3> QED
      BY <2>1, <3>1 DEF IInv, Agreement, ActiveIsRunning, Known, Session, Token, Quiet, OneRun, NotRequested, NotDeferred,
                        NotMoving, NotAnswered, OneRequested, OneDeferred, OneMoving, OneAnswered, Numbered, link,
                        worker, loop
  <2> QED BY <2>3, <2>4
<1>4. ASSUME NEW i \in Ids, RetryTransfer(i) PROVE Agreement'
  <2> DEFINE t == [task EXCEPT ![i] = "queued"]
  <2>1. /\ task[i] \in {"failed", "canceled"} /\ StartNext(t)
        /\ UNCHANGED <<link, lastId, base, worker, toGui>> BY <1>4 DEF RetryTransfer
  <2>2. t \in [Ids -> States] BY <1>t DEF States
  <2>3. \A j \in Ids : t[j] = "running" <=> task[j] = "running" BY <2>1, <1>t
  <2>4. \A j \in Ids : task[j] = "none" => t[j] = "none" BY <2>1, <1>t
  <2>5. \A j \in Ids : j > lastId' => t[j] = "none" BY <2>1, <2>4 DEF IInv, Agreement, Known
  <2>6. tgen # 0 => \A j \in Ids : j <= base => t[j] = "none" BY <2>4 DEF IInv, Agreement, Session
  <2>7. lastId' \in Nat /\ lastId <= lastId' BY <2>1, <1>t
  <2> HIDE DEF t
  <2> QED BY <2>1, <2>2, <2>3, <2>5, <2>6, <2>7, StartKeeps
<1>5. CASE Disconnect BY <1>5, EndKeeps DEF Disconnect, CanceledAll
<1>6. ASSUME NEW isDemo \in BOOLEAN, Connect(isDemo) PROVE Agreement'
  <2>1. /\ EndConnection /\ task' = [i \in Ids |-> "none"]
        /\ toWorker' = toWorker \o Teardown \o (IF isDemo THEN <<>> ELSE <<[op |-> "connect", gen |-> wgen']>>)
    BY <1>6 DEF Connect
  <2>2. \A i \in Ids : task'[i] = "none" BY <2>1
  <2>3. wgen' \in Nat \ {0} BY <2>1, <1>t DEF EndConnection, IInv, Agreement, Numbered
  <2>4. toWorker' \in {toWorker \o Teardown, toWorker \o Teardown \o <<>>,
                       toWorker \o Teardown \o <<[op |-> "connect", gen |-> wgen']>>} BY <2>1
  <2> QED BY <2>1, <2>2, <2>3, <2>4, EndKeeps
<1> QED BY <1>1, <1>2, <1>3, <1>4, <1>5, <1>6 DEF UserStep

\* Timers, reports and answers keep the agreement.
LEMMA GuiKeeps ==
    ASSUME IInv, GuiStep
    PROVE  Agreement'
<1>t. /\ task \in [Ids -> States] /\ lastId \in Nat /\ base \in Nat /\ wgen \in Nat /\ Ids \subseteq Nat \ {0}
      /\ TypeOK /\ toGui \in Seq(GuiEvents) BY IdsAreNumbers DEF IInv, TypeOK
<1> DEFINE Kept == UNCHANGED <<tgen, demo, wgen, task, lastId, base, active, worker, toWorker>>
<1>1. CASE StartTimerFires BY <1>1, <1>t, StartKeeps DEF StartTimerFires, IInv, Agreement, Known, Session
<1>2. CASE DemoTimerFires
  <2>1. /\ demoTimers # <<>> /\ demoTimers' = Tail(demoTimers)
        /\ UNCHANGED <<link, lastId, base, worker, toWorker, toGui>> BY <1>2 DEF DemoTimerFires
  <2>2. demoTimers \in Seq(Ids) BY DEF IInv, TypeOK
  <2>3. /\ Head(demoTimers) \in Ids /\ 1 \in DOMAIN demoTimers /\ Head(demoTimers) = demoTimers[1]
        /\ \A k \in DOMAIN demoTimers' : k + 1 \in DOMAIN demoTimers /\ demoTimers'[k] = demoTimers[k + 1]
    BY <2>1, <2>2, EmptySeq, LenProperties, HeadTailProperties
  <2>4. \A k \in DOMAIN demoTimers' : demoTimers'[k] <= lastId /\ (demoTimers'[k] > base => demo)
    BY <2>3 DEF IInv, Agreement, Known, Session
  <2>5. ASSUME NEW state \in Ended, task[Head(demoTimers)] = "running", FinishActive(state) PROVE Agreement'
    <3>1. active = Head(demoTimers) /\ active # 0 BY <2>3, <2>5, <1>t DEF IInv, Agreement, ActiveIsRunning
    <3>2. demo BY <2>3, <3>1, ActiveIsNew DEF IInv, Agreement, Session
    <3>3. Quiet' BY <2>1, <3>2 DEF IInv, Agreement, Token, Quiet, NotRequested, NotDeferred, NotMoving, NotAnswered,
                                   worker, loop
    <3>4. Numbered' /\ NoneOf(toGui', Answers(lastId)) BY <2>1 DEF IInv, Agreement, Numbered, Known, link, worker
    <3> QED BY <2>1, <2>4, <2>5, <3>1, <3>3, <3>4, FinishKeeps
  <2>6. CASE UNCHANGED <<task, active>>
    <3>1. Known' /\ Session' BY <2>1, <2>4, <2>6 DEF IInv, Agreement, Known, Session, link, worker, loop
    <3> QED
      BY <2>1, <2>6, <3>1 DEF IInv, Agreement, ActiveIsRunning, Token, Quiet, OneRun, NotRequested, NotDeferred,
                              NotMoving, NotAnswered, OneRequested, OneDeferred, OneMoving, OneAnswered, Numbered, link,
                              worker, loop
  <2> QED BY <1>2, <2>5, <2>6 DEF DemoTimerFires, Ended
<1>3. CASE DemoConnects
  <2>1. Kept /\ UNCHANGED <<demoTimers, toGui>> /\ tgen # 0 BY <1>3 DEF DemoConnects, tasks
  <2> QED
    BY <2>1 DEF IInv, Agreement, ActiveIsRunning, Known, Session, Token, Quiet, OneRun, NotRequested, NotDeferred,
                NotMoving, NotAnswered, OneRequested, OneDeferred, OneMoving, OneAnswered, Numbered, worker, loop
<1>4. ASSUME toGui # <<>>, toGui' = Tail(toGui), Kept, UNCHANGED demoTimers, up' => tgen # 0,
             Head(toGui) \notin Answers(base)
      PROVE  Agreement'
  <2>1. NoneOf(toGui, Answers(base)) => NoneOf(toGui', Answers(base)) BY <1>4, <1>t, TakeFirst
  <2>2. OneAnswered => OneAnswered' BY <1>4, <1>t, TakeFirst DEF OneAnswered
  <2>3. NoneOf(toGui', Answers(lastId)) BY <1>4, <1>t, TakeFirst DEF IInv, Agreement, Known
  <2>4. NoneOf(toGui', UnnumberedUp) BY <1>4, <1>t, TakeFirst DEF IInv, Agreement, Numbered
  <2>5. Token'
    BY <1>4, <2>1, <2>2 DEF IInv, Agreement, Token, Quiet, OneRun, NotRequested, NotDeferred, NotMoving, NotAnswered,
                            OneRequested, OneDeferred, OneMoving, worker, loop
  <2>6. ActiveIsRunning' /\ Known' /\ Session' /\ Numbered'
    BY <1>4, <2>3, <2>4 DEF IInv, Agreement, ActiveIsRunning, Known, Session, Numbered, worker, loop
  <2> QED BY <2>5, <2>6 DEF Agreement
<1>5. CASE HandleUp \/ HandleDown
  <2>1. /\ toGui # <<>> /\ toGui' = Tail(toGui) /\ Kept /\ UNCHANGED demoTimers
        /\ Head(toGui).type \in {"up", "down"}
        /\ up' => up \/ (Head(toGui).type = "up" /\ Head(toGui).gen = tgen)
    BY <1>5 DEF HandleUp, HandleDown, Deliver, tasks
  <2>2. Head(toGui) \in GuiEvents /\ Head(toGui) \notin UnnumberedUp
    BY <2>1, <1>t, HeadTailProperties, TakeFirst DEF IInv, Agreement, Numbered
  <2>3. up' => tgen # 0 BY <2>1, <2>2 DEF UnnumberedUp, IInv, Agreement, Session
  <2>4. Head(toGui) \notin Answers(base) BY <2>1 DEF Answers, Ended
  <2> HIDE DEF Kept
  <2> QED BY <1>4, <2>1, <2>3, <2>4
<1>6. ASSUME NEW state \in Ended, HandleAnswer(state) PROVE Agreement'
  <2>1. /\ toGui # <<>> /\ toGui' = Tail(toGui) /\ Head(toGui).type = state /\ Head(toGui) \in GuiEvents
        /\ UNCHANGED <<link, lastId, base, demoTimers, worker, toWorker>>
    BY <1>6, <1>t, DeliverTyped DEF HandleAnswer, Deliver
  <2>2. CASE Head(toGui).id > base
    <3>1. Head(toGui) \in Answers(base) BY <2>1, <2>2 DEF Answers
    <3>2. ~NotAnswered BY <2>1, <3>1, <1>t, TakeFirst DEF NotAnswered
    <3>3. active # 0 /\ OneAnswered /\ NotRequested /\ NotDeferred /\ NotMoving
      BY <3>2 DEF IInv, Agreement, Token, Quiet, OneRun
    <3>4. Head(toGui).id = active /\ NoneOf(toGui', Answers(base))
      BY <2>1, <3>1, <3>3, <1>t, TakeFirst DEF OneAnswered
    <3>5. FinishActive(state) BY <1>6, <2>2, <3>4 DEF HandleAnswer
    <3>6. Quiet' BY <2>1, <3>3, <3>4 DEF Quiet, NotRequested, NotDeferred, NotMoving, NotAnswered, worker, loop
    <3>7. NoneOf(toGui', Answers(lastId)) BY <2>1, <1>t, TakeFirst DEF IInv, Agreement, Known
    <3>8. Numbered' BY <2>1, <1>t, TakeFirst DEF IInv, Agreement, Numbered, link, worker
    <3>9. \A k \in DOMAIN demoTimers' : demoTimers'[k] <= lastId /\ (demoTimers'[k] > base => demo)
      BY <2>1 DEF IInv, Agreement, Known, Session
    <3> QED BY <2>1, <3>3, <3>5, <3>6, <3>7, <3>8, <3>9, FinishKeeps
  <2>3. CASE ~(Head(toGui).id > base)
    <3>1. Kept BY <1>6, <2>1, <2>3 DEF HandleAnswer, link
    <3>2. Head(toGui) \notin Answers(base) BY <2>3 DEF Answers
    <3>3. up' => tgen # 0 BY <2>1 DEF IInv, Agreement, Session, link
    <3> HIDE DEF Kept
    <3> QED BY <1>4, <2>1, <3>1, <3>2, <3>3
  <2> QED BY <2>2, <2>3
<1> QED BY <1>1, <1>2, <1>3, <1>5, <1>6 DEF GuiStep

----
(* The worker thread keeps the agreement. *)

\* The worker changes nothing of what the session knows; what is left to show
\* of a step of its own.
LEMMA WorkerLeaves ==
    ASSUME IInv, UNCHANGED gui, Token', wactive' # 0, wjob' <= lastId,
           \A d \in deferred' : d.id <= lastId,
           NoneOf(toWorker', Requests(lastId)), NoneOf(toWorker', Unnumbered),
           NoneOf(toGui', Answers(lastId)), NoneOf(toGui', UnnumberedUp)
    PROVE  Agreement'
<1> USE DEF gui, link, tasks
<1>1. ActiveIsRunning' BY DEF IInv, Agreement, ActiveIsRunning
<1>2. Known' BY DEF IInv, Agreement, Known
<1>3. Session' BY DEF IInv, Agreement, Session
<1>4. Numbered' BY DEF IInv, Agreement, Numbered
<1> QED BY <1>1, <1>2, <1>3, <1>4 DEF Agreement

\* The worker takes its first event.
LEMMA TakeKeeps ==
    ASSUME IInv, NEW name, Take(name)
    PROVE  /\ toWorker \in Seq(WorkerEvents) /\ toWorker # <<>> /\ toWorker' = Tail(toWorker)
           /\ Head(toWorker) \in WorkerEvents /\ Head(toWorker).op = name /\ stage = "idle"
           /\ NoneOf(toWorker', Requests(lastId)) /\ NoneOf(toWorker', Unnumbered)
           /\ Head(toWorker) \notin Requests(lastId) /\ Head(toWorker) \notin Unnumbered
           /\ NoneOf(toWorker, Requests(base)) =>
                 Head(toWorker) \notin Requests(base) /\ NoneOf(toWorker', Requests(base))
           /\ OneRequested => \/ /\ Head(toWorker) \in Requests(base) /\ Head(toWorker).id = active
                                 /\ NoneOf(toWorker', Requests(base))
                              \/ /\ Head(toWorker) \notin Requests(base)
                                 /\ OneOf(toWorker', Requests(base), active)
<1>1. /\ toWorker \in Seq(WorkerEvents) /\ toWorker # <<>> /\ toWorker' = Tail(toWorker) /\ stage = "idle"
  BY DEF IInv, TypeOK, Take
<1>2. Head(toWorker) \in WorkerEvents /\ Head(toWorker).op = name BY TakeTyped DEF IInv
<1>3. NoneOf(toWorker, Requests(lastId)) /\ NoneOf(toWorker, Unnumbered) BY DEF IInv, Agreement, Known, Numbered
<1> QED BY <1>1, <1>2, <1>3, TakeFirst DEF OneRequested

\* The worker reports that a connection is up or down.
LEMMA ReportKeeps ==
    ASSUME IInv, NEW type \in {"up", "down"}, NEW g \in Nat \ {0},
           toGui' = toGui \/ toGui' = Append(toGui, [type |-> type, gen |-> g])
    PROVE  /\ NoneOf(toGui', Answers(lastId)) /\ NoneOf(toGui', UnnumberedUp)
           /\ NoneOf(toGui, Answers(base)) => NoneOf(toGui', Answers(base))
           /\ OneOf(toGui, Answers(base), active) => OneOf(toGui', Answers(base), active)
<1> DEFINE e == [type |-> type, gen |-> g]
<1>1. e \in GuiEvents /\ e \notin Answers(lastId) /\ e \notin Answers(base) /\ e \notin UnnumberedUp
  BY DEF GuiEvents, Answers, Ended, UnnumberedUp
<1>2. toGui' = toGui \/ toGui' = Append(toGui, e) OBVIOUS
<1> HIDE DEF e
<1>3. toGui \in Seq(GuiEvents) BY DEF IInv, TypeOK
<1>4. NoneOf(toGui, Answers(lastId)) /\ NoneOf(toGui, UnnumberedUp) BY DEF IInv, Agreement, Known, Numbered
<1> QED BY <1>1, <1>2, <1>3, <1>4, AppendOne

\* The end of a loop hands the token from the loop to its answer.
LEMMA AnswerKeeps ==
    ASSUME IInv, NEW type \in Ended, stage # "idle", Answer(type),
           UNCHANGED <<gui, wactive, deferred, toWorker>>
    PROVE  Agreement'
<1> DEFINE e == [type |-> type, id |-> wjob]
<1>1. /\ toGui \in Seq(GuiEvents) /\ lastId \in Nat /\ base \in Nat /\ wjob \in Nat /\ TypeOK /\ MovesTask
      /\ \A i \in Ids : i \in Nat BY IdsAreNumbers DEF IInv, TypeOK
<1>2. stage' = "idle" /\ wjob' = 0 /\ toGui' = Append(toGui, e) /\ e \in GuiEvents BY <1>1, AnswerTyped
<1>3. wjob <= lastId /\ wjob # 0 BY <1>1 DEF IInv, Agreement, Known, MovesTask
<1>4. e.id = wjob /\ e.type = type OBVIOUS
<1>5. /\ e \notin Answers(lastId) /\ e \notin UnnumberedUp
      /\ e \in Answers(base) <=> wjob > base BY <1>1, <1>2, <1>3, <1>4 DEF Answers, UnnumberedUp, Ended
<1> HIDE DEF e
<1>6. NoneOf(toGui', Answers(lastId)) /\ NoneOf(toGui', UnnumberedUp)
  BY <1>1, <1>2, <1>5, AppendOne DEF IInv, Agreement, Known, Numbered
<1>7. active' = active /\ base' = base /\ demo' = demo /\ toWorker' = toWorker /\ deferred' = deferred
  BY DEF gui, link, tasks
<1>8. Token'
  <2>1. CASE wjob > base
    <3>1. OneMoving /\ NotRequested /\ NotDeferred /\ NotAnswered /\ active # 0 /\ ~demo
      BY <1>1, <2>1 DEF IInv, Agreement, Token, Quiet, OneRun, NotMoving
    <3>2. OneOf(toGui', Answers(base), active)
      BY <1>1, <1>2, <1>4, <1>5, <2>1, <3>1, AppendOne DEF NotAnswered, OneMoving
    <3> QED BY <1>2, <1>7, <3>1, <3>2 DEF Token, OneRun, NotRequested, NotDeferred, NotMoving, OneAnswered
  <2>2. CASE ~(wjob > base)
    <3>1. e \notin Answers(base) /\ toGui' = Append(toGui, e) /\ e \in GuiEvents BY <1>2, <1>5, <2>2
    <3>2. NoneOf(toGui, Answers(base)) => NoneOf(toGui', Answers(base)) BY <1>1, <3>1, AppendOne
    <3>3. OneOf(toGui, Answers(base), active) => OneOf(toGui', Answers(base), active) BY <1>1, <3>1, AppendOne
    <3>4. ~OneMoving \/ active = 0 BY <2>2, ActiveIsNew DEF OneMoving
    <3> QED
      BY <1>2, <1>7, <3>2, <3>3, <3>4 DEF IInv, Agreement, Token, Quiet, OneRun, NotRequested, NotDeferred, NotMoving,
                          NotAnswered, OneRequested, OneDeferred, OneAnswered
  <2> QED BY <2>1, <2>2
<1>9. wactive' # 0 /\ wjob' <= lastId BY <1>1, <1>2 DEF IInv, Agreement, Numbered
<1> QED BY <1>6, <1>7, <1>8, <1>9, WorkerLeaves DEF IInv, Agreement, Known, Numbered

\* The worker takes a request up, or puts it off.
LEMMA TakeTransferKeeps ==
    ASSUME IInv, TakeTransfer
    PROVE  Agreement'
<1> DEFINE h == Head(toWorker).id
<1>1. /\ Take("transfer") /\ UNCHANGED <<gui, wup, wactive, toGui>> /\ stage = "idle" BY DEF TakeTransfer, Take
<1>2. /\ h \in Ids /\ Head(toWorker) \in WorkerEvents /\ Head(toWorker).op = "transfer"
      /\ NoneOf(toWorker', Requests(lastId)) /\ NoneOf(toWorker', Unnumbered)
      /\ Head(toWorker) \notin Requests(lastId) BY <1>1, TakeKeeps, RequestTyped DEF IInv
<1>3. h \in Nat /\ h # 0 /\ base \in Nat /\ lastId \in Nat /\ active \in Nat
  <2>1. base \in 0 .. MaxTasks /\ lastId \in 0 .. MaxTasks /\ active \in 0 .. MaxTasks BY DEF IInv, TypeOK
  <2>2. h \in Nat \ {0} BY <1>2, IdsAreNumbers
  <2> QED BY <2>1, <2>2, IdsAreNumbers
<1>4. h <= lastId BY <1>2, <1>3 DEF Requests
<1>5. Head(toWorker) \in Requests(base) <=> h > base BY <1>2, <1>3 DEF Requests
<1>6. /\ NotRequested => ~(h > base) /\ NoneOf(toWorker', Requests(base))
      /\ OneRequested => \/ h > base /\ h = active /\ NoneOf(toWorker', Requests(base))
                         \/ ~(h > base) /\ OneOf(toWorker', Requests(base), active)
  BY <1>1, <1>5, TakeKeeps DEF NotRequested
<1> HIDE DEF h
<1>7. active' = active /\ base' = base /\ demo' = demo /\ toGui' = toGui BY <1>1 DEF gui, link, tasks
<1>8. CASE Begin(Head(toWorker).id) /\ UNCHANGED deferred
  <2>1. stage' = "begin" /\ wjob' = h /\ deferred' = deferred BY <1>8 DEF Begin, h
  <2>2. Token'
    <3>1. CASE h > base
      <4>1. OneRequested /\ NotDeferred /\ NotMoving /\ NotAnswered /\ active # 0 /\ ~demo
        BY <1>6, <3>1 DEF IInv, Agreement, Token, Quiet, OneRun
      <4> QED BY <1>6, <1>7, <2>1, <3>1, <4>1 DEF Token, OneRun, NotRequested, NotDeferred, OneMoving, NotAnswered
    <3>2. CASE ~(h > base)
      <4>1. NotMoving' BY <1>3, <1>7, <2>1, <3>2 DEF NotMoving
      <4>2. ~OneMoving BY <1>1 DEF OneMoving
      <4> QED BY <1>6, <1>7, <2>1, <3>2, <4>1, <4>2 DEF IInv, Agreement, Token, Quiet, OneRun, NotRequested,
                     NotDeferred, NotAnswered, OneRequested, OneDeferred, OneAnswered
    <3> QED BY <3>1, <3>2
  <2> QED BY <1>1, <1>2, <1>4, <1>7, <2>1, <2>2, WorkerLeaves DEF IInv, Agreement, Known, Numbered
<1>9. CASE /\ deferred' = deferred \cup {[id |-> Head(toWorker).id, gen |-> wactive]}
           /\ UNCHANGED <<loop, cancelId>>
  <2> DEFINE d == [id |-> Head(toWorker).id, gen |-> wactive]
  <2>1. deferred' = deferred \cup {d} /\ stage' = stage /\ wjob' = wjob BY <1>9 DEF loop
  <2>2. d.id = h BY DEF h
  <2> HIDE DEF d
  <2>3. Token'
    <3>1. CASE h > base
      <4>1. OneRequested /\ NotDeferred /\ NotMoving /\ NotAnswered /\ active # 0 /\ ~demo /\ h = active
        BY <1>6, <3>1 DEF IInv, Agreement, Token, Quiet, OneRun
      <4>2. \A e \in deferred : ~(e.id > base)
        <5>1. \A e \in deferred : e.id \in Nat BY IdsAreNumbers DEF IInv, TypeOK
        <5> QED BY <1>3, <4>1, <5>1 DEF NotDeferred
      <4>3. \A e \in deferred' : e.id > base => e = d BY <2>1, <4>2
      <4>4. OneDeferred' BY <1>7, <2>1, <2>2, <4>1, <4>3 DEF OneDeferred
      <4> QED BY <1>6, <1>7, <2>1, <3>1, <4>1, <4>4 DEF Token, OneRun, NotRequested, NotMoving, NotAnswered
    <3>2. CASE ~(h > base)
      <4>1. d.id <= base BY <1>3, <2>2, <3>2
      <4>2. NotDeferred => NotDeferred' BY <1>7, <2>1, <4>1 DEF NotDeferred
      <4>3. OneDeferred => OneDeferred' BY <1>7, <2>1, <2>2, <3>2 DEF OneDeferred
      <4> QED BY <1>6, <1>7, <2>1, <3>2, <4>2, <4>3 DEF IInv, Agreement, Token, Quiet, OneRun, NotRequested,
                     NotMoving, NotAnswered, OneRequested, OneMoving, OneAnswered
    <3> QED BY <3>1, <3>2
  <2>4. \A e \in deferred' : e.id <= lastId BY <1>4, <2>1, <2>2 DEF IInv, Agreement, Known
  <2> QED BY <1>1, <1>2, <1>7, <2>1, <2>3, <2>4, WorkerLeaves DEF IInv, Agreement, Known, Numbered
<1> QED BY <1>8, <1>9 DEF TakeTransfer

\* The worker comes back to a request, or drops it with its connection.
LEMMA RetryKeeps ==
    ASSUME IInv, NEW d \in deferred, RetryDeferred(d)
    PROVE  Agreement'
<1>1. /\ stage = "idle" /\ deferred' = deferred \ {d} /\ UNCHANGED <<gui, wup, wactive, toWorker, toGui>>
      /\ Begin(d.id) \/ UNCHANGED <<loop, cancelId>> BY DEF RetryDeferred
<1>2. d.id \in Nat /\ d.id <= lastId /\ base \in Nat
  <2>1. base \in 0 .. MaxTasks /\ d.id \in Ids BY DEF IInv, TypeOK
  <2>2. d.id <= lastId BY DEF IInv, Agreement, Known
  <2>3. d.id \in Nat BY <2>1, IdsAreNumbers
  <2>4. base \in Nat BY <2>1, IdsAreNumbers
  <2> QED BY <2>2, <2>3, <2>4
<1>3. active' = active /\ base' = base /\ demo' = demo /\ toGui' = toGui /\ toWorker' = toWorker
  BY <1>1 DEF gui, link, tasks
<1>4. (stage' = "begin" /\ wjob' = d.id) \/ (stage' = "idle" /\ wjob' = wjob) BY <1>1 DEF Begin, loop
<1>5. ~OneMoving BY <1>1 DEF OneMoving
<1>6. Token'
  <2>1. CASE d.id > base
    <3>1. ~NotDeferred BY <1>2, <2>1 DEF NotDeferred
    <3>2. NotRequested /\ OneDeferred /\ NotMoving /\ NotAnswered /\ active # 0 /\ ~demo
      BY <1>5, <3>1 DEF IInv, Agreement, Token, Quiet, OneRun
    <3>3. d.id = active /\ \A e \in deferred : e.id > base => e = d BY <2>1, <3>2 DEF OneDeferred
    <3>4. \A e \in deferred : e.id \in Nat BY IdsAreNumbers DEF IInv, TypeOK
    <3>5. NotDeferred' BY <1>1, <1>2, <1>3, <3>3, <3>4 DEF NotDeferred
    <3>6. OneMoving' \/ NotMoving' BY <1>3, <1>4, <3>3 DEF OneMoving, NotMoving
    <3> QED BY <1>3, <3>2, <3>5, <3>6 DEF Token, Quiet, OneRun, NotRequested, NotAnswered
  <2>2. CASE ~(d.id > base)
    <3>1. NotMoving' BY <1>2, <1>3, <1>4, <2>2 DEF NotMoving
    <3>2. NotDeferred => NotDeferred' BY <1>1, <1>3 DEF NotDeferred
    <3>3. OneDeferred /\ active # 0 => OneDeferred'
      <4> SUFFICES ASSUME OneDeferred, active # 0 PROVE OneDeferred' OBVIOUS
      <4>1. PICK c \in deferred : c.id = active /\ \A e \in deferred : e.id > base => e = c BY DEF OneDeferred
      <4>2. c # d BY <2>2, <4>1, ActiveIsNew
      <4> QED BY <1>1, <1>3, <4>1, <4>2 DEF OneDeferred
    <3> QED BY <1>3, <1>5, <3>1, <3>2, <3>3 DEF IInv, Agreement, Token, Quiet, OneRun, NotRequested, NotAnswered,
                      OneRequested, OneAnswered
  <2> QED BY <2>1, <2>2
<1>7. (\A e \in deferred' : e.id <= lastId) /\ wjob' <= lastId BY <1>1, <1>2, <1>4 DEF IInv, Agreement, Known
<1> QED BY <1>1, <1>3, <1>6, <1>7, WorkerLeaves DEF IInv, Agreement, Known, Numbered

\* What the worker does keeps the agreement.
LEMMA WorkerKeeps ==
    ASSUME IInv, WorkerStep \/ TransportLost
    PROVE  Agreement'
<1>a. "canceled" \in Ended /\ "completed" \in Ended /\ "failed" \in Ended BY DEF Ended
<1>n. wactive \in Nat \ {0} BY DEF IInv, TypeOK, Agreement, Numbered
<1>1. CASE WorkerDisconnects \/ WorkerConnects \/ TransportLost
  <2>1. UNCHANGED <<gui, loop, deferred>> BY <1>1 DEF WorkerDisconnects, WorkerConnects, TransportLost
  <2>2. \/ toWorker' = toWorker
        \/ \E name \in {"connect", "disconnect"} : Take(name)
    BY <1>1 DEF WorkerDisconnects, WorkerConnects, TransportLost
  <2>3. /\ NoneOf(toWorker', Requests(lastId)) /\ NoneOf(toWorker', Unnumbered)
        /\ NotRequested => NoneOf(toWorker', Requests(base))
        /\ OneRequested => OneOf(toWorker', Requests(base), active)
    <3>1. CASE toWorker' = toWorker BY <3>1 DEF IInv, Agreement, Known, Numbered, NotRequested, OneRequested
    <3>2. ASSUME NEW name \in {"connect", "disconnect"}, Take(name)
          PROVE  /\ NoneOf(toWorker', Requests(lastId)) /\ NoneOf(toWorker', Unnumbered)
                 /\ NotRequested => NoneOf(toWorker', Requests(base))
                 /\ OneRequested => OneOf(toWorker', Requests(base), active)
      BY <3>2, TakeKeeps DEF Requests, NotRequested
    <3> QED BY <2>2, <3>1, <3>2
  <2>4. wactive' \in Nat \ {0}
    <3>1. CASE WorkerConnects
      <4>1. Take("connect") /\ wactive' = Head(toWorker).gen BY <3>1 DEF WorkerConnects
      <4>2. Head(toWorker) \in WorkerEvents /\ Head(toWorker).op = "connect" /\ Head(toWorker) \notin Unnumbered
        BY <4>1, TakeKeeps
      <4> QED BY <4>1, <4>2 DEF WorkerEvents, Unnumbered
    <3> QED BY <1>1, <1>n, <3>1 DEF WorkerDisconnects, TransportLost
  <2>5. \E type \in {"up", "down"}, g \in Nat \ {0} :
           toGui' = toGui \/ toGui' = Append(toGui, [type |-> type, gen |-> g])
    BY <1>1, <1>n, <2>4 DEF WorkerDisconnects, WorkerConnects, TransportLost
  <2>6. /\ NoneOf(toGui', Answers(lastId)) /\ NoneOf(toGui', UnnumberedUp)
        /\ NoneOf(toGui, Answers(base)) => NoneOf(toGui', Answers(base))
        /\ OneOf(toGui, Answers(base), active) => OneOf(toGui', Answers(base), active) BY <2>5, ReportKeeps
  <2>7. active' = active /\ base' = base /\ demo' = demo /\ deferred' = deferred /\ stage' = stage /\ wjob' = wjob
    BY <2>1 DEF gui, link, tasks, loop
  <2>8. Token'
    BY <2>3, <2>6, <2>7 DEF IInv, Agreement, Token, Quiet, OneRun, NotRequested, NotDeferred, NotMoving, NotAnswered,
                            OneRequested, OneDeferred, OneMoving, OneAnswered
  <2> QED BY <2>1, <2>3, <2>4, <2>6, <2>7, <2>8, WorkerLeaves DEF IInv, Agreement, Known
<1>2. ASSUME stage # "idle", stage' # "idle", UNCHANGED <<gui, wactive, wjob, deferred, toWorker, toGui>>
      PROVE  Agreement'
  <2>1. active' = active /\ base' = base /\ demo' = demo BY <1>2 DEF gui, link, tasks
  <2>2. Token'
    BY <1>2, <2>1 DEF IInv, Agreement, Token, Quiet, OneRun, NotRequested, NotDeferred, NotMoving, NotAnswered,
                      OneRequested, OneDeferred, OneMoving, OneAnswered
  <2> QED BY <1>2, <2>2, WorkerLeaves DEF IInv, Agreement, Known, Numbered
<1>3. CASE Opened \/ MoveBlock BY <1>2, <1>3 DEF Opened, MoveBlock
<1>4. CASE Check BY <1>4, <1>a, <1>2, AnswerKeeps DEF Check
<1>5. CASE Commit BY <1>5, <1>a, AnswerKeeps DEF Commit
<1>6. CASE TransferFails BY <1>6, <1>a, AnswerKeeps DEF TransferFails
<1> QED BY <1>1, <1>3, <1>4, <1>5, <1>6, TakeTransferKeeps, RetryKeeps DEF WorkerStep

----
(* The theorems. *)

\* The agreement holds at the start.
LEMMA AgreementInit == Init => Agreement
<1> SUFFICES ASSUME Init PROVE Agreement OBVIOUS
<1>1. \A S : NoneOf(<<>>, S) BY EmptySeq, LenProperties DEF NoneOf
<1>2. toWorker = <<>> /\ toGui = <<>> /\ demoTimers = <<>> /\ DOMAIN demoTimers = {}
  BY EmptySeq, LenProperties DEF Init
<1>3. ActiveIsRunning BY IdsAreNumbers DEF Init, ActiveIsRunning
<1>4. Known BY <1>1, <1>2 DEF Init, Known
<1>5. Token BY <1>1, <1>2 DEF Init, Token, Quiet, NotRequested, NotDeferred, NotMoving, NotAnswered
<1>6. Session BY <1>1, <1>2 DEF Init, Session
<1>7. Numbered BY <1>1, <1>2 DEF Init, Numbered
<1> QED BY <1>3, <1>4, <1>5, <1>6, <1>7 DEF Agreement

\* IInv is an inductive invariant of the queue.
THEOREM Invariance == Spec => []IInv
<1>1. Init => IInv BY TypeInit, AgreementInit DEF IInv
<1>2. IInv /\ [Next]_vars => IInv'
  <2> SUFFICES ASSUME IInv, [Next]_vars PROVE IInv' OBVIOUS
  <2>1. CASE UserStep BY <2>1, TypeUser, UserKeeps DEF IInv
  <2>2. CASE GuiStep BY <2>2, TypeGui, GuiKeeps DEF IInv
  <2>3. CASE WorkerStep \/ TransportLost BY <2>3, TypeWorker, WorkerKeeps DEF IInv
  <2>4. CASE UNCHANGED vars
    <3>1. TypeOK' /\ MovesTask' BY <2>4 DEF IInv, TypeOK, MovesTask, vars, gui, worker, link, tasks, loop
    <3>2. Agreement'
      BY <2>4 DEF IInv, Agreement, ActiveIsRunning, Known, Session, Numbered, Token, Quiet, OneRun, NotRequested,
                  NotDeferred, NotMoving, NotAnswered, OneRequested, OneDeferred, OneMoving, OneAnswered,
                  vars, gui, worker, link, tasks, loop
    <3> QED BY <3>1, <3>2 DEF IInv
  <2> QED BY <2>1, <2>2, <2>3, <2>4 DEF Next
<1> QED BY <1>1, <1>2, PTL DEF Spec

\* Every variable keeps the shape its declaration gives it.
THEOREM TypeCorrect == Spec => []TypeOK
<1>1. IInv => TypeOK BY DEF IInv
<1> QED BY <1>1, Invariance, PTL

\* The row shown as running is the task the session waits for, and there is no
\* other one: not after any eviction, cancellation, retry, late answer or
\* reconnect.
THEOREM ActiveCorrect == Spec => []ActiveIsRunning
<1>1. IInv => ActiveIsRunning BY DEF IInv, Agreement
<1> QED BY <1>1, Invariance, PTL

\* What is under way of this connection is one transfer, that of the active
\* task.
LEMMA OneUnderWay ==
    ASSUME IInv
    PROVE  \E u : \A x \in UnderWay : x[3] > base => x = u /\ x[3] = active
<1>1. /\ toWorker \in Seq(WorkerEvents) /\ toGui \in Seq(GuiEvents) /\ base \in Nat /\ wjob \in Nat
      /\ \A d \in deferred : d.id \in Nat BY IdsAreNumbers DEF IInv, TypeOK
<1>2. \A k \in Requested : k \in DOMAIN toWorker /\ (toWorker[k].id > base => toWorker[k] \in Requests(base))
  <2> TAKE k \in Requested
  <2>1. k \in DOMAIN toWorker /\ toWorker[k].op = "transfer" BY DEF Requested
  <2>2. toWorker[k] \in WorkerEvents BY <1>1, <2>1, LenProperties, ElementOfSeq
  <2> QED BY <2>1, <2>2 DEF Requests
<1>3. \A k \in Answered : k \in DOMAIN toGui /\ (toGui[k].id > base => toGui[k] \in Answers(base))
  <2> TAKE k \in Answered
  <2>1. k \in DOMAIN toGui /\ toGui[k].type \in Ended BY DEF Answered
  <2>2. toGui[k] \in GuiEvents BY <1>1, <2>1, LenProperties, ElementOfSeq
  <2> QED BY <2>1, <2>2 DEF Answers
<1>4. ASSUME NEW x \in UnderWay, x[3] > base
      PROVE  \/ \E k \in Requested : /\ x = <<"request", k, toWorker[k].id>> /\ toWorker[k] \in Requests(base)
                                     /\ k \in DOMAIN toWorker /\ x[3] = toWorker[k].id
             \/ \E d \in deferred : x = <<"deferred", d.gen, d.id>> /\ d.id > base /\ x[3] = d.id
             \/ stage # "idle" /\ x = <<"loop", 0, wjob>> /\ wjob > base /\ x[3] = wjob
             \/ \E k \in Answered : /\ x = <<"answer", k, toGui[k].id>> /\ toGui[k] \in Answers(base)
                                    /\ k \in DOMAIN toGui /\ x[3] = toGui[k].id BY <1>2, <1>4, <1>3 DEF UnderWay
<1>5. NotDeferred => \A d \in deferred : ~(d.id > base) BY <1>1 DEF NotDeferred
<1>6. NotMoving => stage = "idle" \/ ~(wjob > base) BY <1>1 DEF NotMoving
<1>7. CASE Quiet BY <1>4, <1>5, <1>6, <1>7 DEF Quiet, NotRequested, NotAnswered, NoneOf
<1>8. CASE OneRequested /\ NotDeferred /\ NotMoving /\ NotAnswered
  <2>1. PICK k \in DOMAIN toWorker : toWorker[k].id = active /\ \A j \in DOMAIN toWorker : toWorker[j] \in Requests(base) => j = k
    BY <1>8 DEF OneRequested, OneOf
  <2>2. \A x \in UnderWay : x[3] > base => x = <<"request", k, active>> /\ x[3] = active
    BY <1>4, <1>5, <1>6, <1>8, <2>1 DEF NotAnswered, NoneOf
  <2> QED BY <2>2
<1>9. CASE NotRequested /\ OneDeferred /\ NotMoving /\ NotAnswered
  <2>1. PICK d \in deferred : d.id = active /\ \A e \in deferred : e.id > base => e = d BY <1>9 DEF OneDeferred
  <2>2. \A x \in UnderWay : x[3] > base => x = <<"deferred", d.gen, active>> /\ x[3] = active
    BY <1>4, <1>6, <1>9, <2>1 DEF NotRequested, NotAnswered, NoneOf
  <2> QED BY <2>2
<1>10. CASE NotRequested /\ NotDeferred /\ OneMoving /\ NotAnswered
  BY <1>4, <1>5, <1>10 DEF NotRequested, NotAnswered, NoneOf, OneMoving
<1>11. CASE NotRequested /\ NotDeferred /\ NotMoving /\ OneAnswered
  <2>1. PICK k \in DOMAIN toGui : toGui[k].id = active /\ \A j \in DOMAIN toGui : toGui[j] \in Answers(base) => j = k
    BY <1>11 DEF OneAnswered, OneOf
  <2>2. \A x \in UnderWay : x[3] > base => x = <<"answer", k, active>> /\ x[3] = active
    BY <1>4, <1>5, <1>6, <1>11, <2>1 DEF NotRequested, NoneOf
  <2> QED BY <2>2
<1> QED BY <1>7, <1>8, <1>9, <1>10, <1>11 DEF IInv, Agreement, Token, OneRun

\* A task keeps its id when it is retried, but no two runs of it are ever under
\* way on one connection, and nothing but the active task is: the answer the
\* session takes ends the run it asked for.
THEOREM RunsOnceCorrect == Spec => []RunsOnce
<1>1. ASSUME IInv PROVE RunsOnce
  <2> DEFINE current == {x \in UnderWay : x[3] > base}
  <2>1. PICK u : \A x \in UnderWay : x[3] > base => x = u /\ x[3] = active BY <1>1, OneUnderWay
  <2>2. \A x \in current : x[3] = active BY <2>1
  <2>3. current = {} \/ current = {u} BY <2>1
  <2> HIDE DEF current
  <2>4. Cardinality({}) = 0 /\ Cardinality({u}) = 1 BY FS_EmptySet, FS_Singleton
  <2>5. Cardinality(current) <= 1 BY <2>3, <2>4
  <2> QED BY <2>2, <2>5 DEF RunsOnce, current
<1> QED BY <1>1, Invariance, PTL

----
(* RunsAreApart.  Connections are told by their generations: nothing the     *)
(* worker still has of an earlier one has the current generation, and what   *)
(* the session has in progress has no other.                                 *)

\* Queued events of a connection, of a later one, and of an earlier task.
AllConnects == {e \in WorkerEvents : e.op = "connect"}
ConnectsOf(g) == {e \in WorkerEvents : e.op = "connect" /\ e.gen = g}
ConnectsAbove(g) == {e \in WorkerEvents : e.op = "connect" /\ e.gen > g}
AllRequests == {e \in WorkerEvents : e.op = "transfer"}
OldRequests(b) == {e \in WorkerEvents : e.op = "transfer" /\ e.id <= b}
UpsOf(g) == {e \in GuiEvents : e.type = "up" /\ e.gen = g}
UpsAbove(g) == {e \in GuiEvents : e.type = "up" /\ e.gen > g}

\* Only the last event of a queue is one of a set.
LastOf(q, S) == \A i, j \in DOMAIN q : q[i] \in S => j <= i

\* No generation is in use anywhere before it is given out.
GenerationsKnown ==
    /\ wactive <= wgen /\ tgen \in {0, wgen}
    /\ NoneOf(toWorker, ConnectsAbove(wgen)) /\ NoneOf(toGui, UpsAbove(wgen))
    /\ \A d \in deferred : d.gen <= wgen

\* A worker that has the current generation has nothing of an earlier one left.
CurrentIsOwn ==
    /\ \A d \in deferred : d.gen = wgen => d.id > base
    /\ wactive = wgen => (stage = "idle" \/ wjob > base) /\ NoneOf(toWorker, OldRequests(base))

\* The worker has nothing to do with the generation of a demo session.
DemoIsApart ==
    demo => /\ \A d \in deferred : d.gen # wgen
            /\ NoneOf(toGui, UpsOf(wgen)) /\ NoneOf(toWorker, ConnectsOf(wgen))
            /\ wactive = wgen => stage = "idle" /\ NoneOf(toWorker, AllRequests)

\* A session that is up, is about to be or has a task in progress has the
\* worker on its connection, with no other one to come.
Settled ==
    (~demo /\ (up \/ active # 0)) \/ ~NoneOf(toGui, UpsOf(wgen)) =>
        wactive = wgen /\ NoneOf(toWorker, AllConnects)

\* A loop that looks at the cancellation sees that of its own run only.
CancelIsOfRun ==
    stage \in {"check", "io", "commit"} \/ (stage = "begin" /\ wjob \notin uploads) =>
        (wjob > base /\ cancelId = wjob => wjob \in canceling)

Runs ==
    /\ GenerationsKnown /\ LastOf(toWorker, ConnectsOf(wgen))
    /\ CurrentIsOwn /\ DemoIsApart /\ Settled /\ CancelIsOfRun
RunsInv == IInv /\ Runs

\* Larger generations are among the larger ones.
LEMMA LaterGenerations ==
    ASSUME NEW g \in Nat
    PROVE  /\ ConnectsOf(g + 1) \subseteq ConnectsAbove(g) /\ ConnectsAbove(g + 1) \subseteq ConnectsAbove(g)
           /\ UpsOf(g + 1) \subseteq UpsAbove(g) /\ UpsAbove(g + 1) \subseteq UpsAbove(g)
<1>1. \A e \in AllConnects : e.gen \in Nat BY DEF AllConnects, WorkerEvents
<1>2. \A e \in GuiEvents : e.type = "up" => e.gen \in Nat BY DEF GuiEvents, Ended
<1>3. ConnectsOf(g + 1) \subseteq ConnectsAbove(g) /\ ConnectsAbove(g + 1) \subseteq ConnectsAbove(g)
  BY <1>1 DEF AllConnects, ConnectsOf, ConnectsAbove
<1>4. UpsOf(g + 1) \subseteq UpsAbove(g) /\ UpsAbove(g + 1) \subseteq UpsAbove(g) BY <1>2 DEF UpsOf, UpsAbove
<1> QED BY <1>3, <1>4

\* The last event of a queue and one event more or less.
LEMMA LastChanges ==
    ASSUME NEW T, NEW q \in Seq(T), NEW S
    PROVE  /\ \A e \in T : NoneOf(q, S) => LastOf(Append(q, e), S)
           /\ q # <<>> /\ LastOf(q, S) =>
                 LastOf(Tail(q), S) /\ (Head(q) \in S => \A R : NoneOf(Tail(q), R))
<1>1. ASSUME NEW e \in T, NoneOf(q, S) PROVE LastOf(Append(q, e), S)
  <2> DEFINE n == Len(q)  r == Append(q, e)
  <2>1. /\ n \in Nat /\ DOMAIN q = 1 .. n /\ DOMAIN r = 1 .. n + 1
        /\ (\A i \in 1 .. n : r[i] = q[i]) /\ r[n + 1] = e BY LenProperties, AppendProperties
  <2> HIDE DEF n, r
  <2>2. \A i \in 1 .. n + 1 : r[i] \in S => i = n + 1 BY <1>1, <2>1 DEF NoneOf
  <2>3. LastOf(r, S) BY <2>1, <2>2 DEF LastOf
  <2> QED BY <2>3 DEF r
<1>2. ASSUME q # <<>>, LastOf(q, S) PROVE LastOf(Tail(q), S) /\ (Head(q) \in S => \A R : NoneOf(Tail(q), R))
  <2>1. /\ Len(q) \in Nat \ {0} /\ DOMAIN q = 1 .. Len(q) /\ Head(q) = q[1]
        /\ DOMAIN Tail(q) = 1 .. Len(q) - 1 /\ \A i \in 1 .. Len(q) - 1 : Tail(q)[i] = q[i + 1]
    BY <1>2, EmptySeq, LenProperties, HeadTailProperties
  <2> DEFINE n == Len(q)  h == Head(q)  t == Tail(q)
  <2> HIDE DEF n, h, t
  <2>2. /\ n \in Nat \ {0} /\ DOMAIN q = 1 .. n /\ h = q[1]
        /\ DOMAIN t = 1 .. n - 1 /\ \A i \in 1 .. n - 1 : t[i] = q[i + 1] BY <2>1 DEF n, h, t
  <2>3. LastOf(t, S)
    <3>1. \A i, j \in 1 .. n - 1 : q[i + 1] \in S => j + 1 <= i + 1 BY <1>2, <2>2 DEF LastOf
    <3> QED BY <2>2, <3>1 DEF LastOf
  <2>4. h \in S => \A R : NoneOf(t, R) BY <1>2, <2>2 DEF LastOf, NoneOf
  <2> QED BY <2>3, <2>4 DEF h, t
<1> QED BY <1>1, <1>2

\* What ends one connection, and begins the next, is put behind what is queued.
LEMMA TeardownQueue ==
    ASSUME TypeOK
    PROVE  LET q == toWorker \o Teardown
           IN  /\ q \in Seq(WorkerEvents) /\ q \o <<>> = q
               /\ demo => q = toWorker
               /\ \A g \in Nat : q \o <<[op |-> "connect", gen |-> g]>> = Append(q, [op |-> "connect", gen |-> g])
               /\ \A S : NoneOf(toWorker, S) /\ [op |-> "disconnect", gen |-> 0] \notin S => NoneOf(q, S)
<1> DEFINE d == [op |-> "disconnect", gen |-> 0]  q == toWorker \o Teardown
<1>1. d \in WorkerEvents BY DEF WorkerEvents
<1>2. (demo /\ Teardown = <<>>) \/ (~demo /\ Teardown = <<d>>) BY DEF Teardown
<1>3. toWorker \in Seq(WorkerEvents) BY DEF TypeOK
<1> HIDE DEF d
<1>4. toWorker \o <<>> = toWorker /\ toWorker \o <<d>> = Append(toWorker, d)
  BY <1>1, <1>3, ConcatEmptySeq, AppendIsConcat
<1>5. Append(toWorker, d) \in Seq(WorkerEvents) BY <1>1, <1>3, AppendProperties
<1>6. q \in Seq(WorkerEvents) /\ (demo => q = toWorker) /\ (q = toWorker \/ q = Append(toWorker, d))
  BY <1>2, <1>3, <1>4, <1>5
<1> HIDE DEF q
<1>7. q \o <<>> = q BY <1>6, ConcatEmptySeq
<1>8. ASSUME NEW g \in Nat PROVE q \o <<[op |-> "connect", gen |-> g]>> = Append(q, [op |-> "connect", gen |-> g])
  <2> DEFINE c == [op |-> "connect", gen |-> g]
  <2>1. c \in WorkerEvents BY DEF WorkerEvents
  <2> HIDE DEF c
  <2>2. q \o <<c>> = Append(q, c) BY <1>6, <2>1, AppendIsConcat
  <2> QED BY <2>2 DEF c
<1>9. ASSUME NEW S, NoneOf(toWorker, S), d \notin S PROVE NoneOf(q, S) BY <1>1, <1>3, <1>6, <1>9, AppendOne
<1> QED BY <1>6, <1>7, <1>8, <1>9 DEF q, d

\* Ending a connection leaves everything of it to an earlier generation.
LEMMA RunsEnd ==
    ASSUME RunsInv, EndConnection, tgen' \in {0, wgen'},
           LET q == toWorker \o Teardown
           IN  \/ demo' = demo /\ toWorker' = q
               \/ demo' = TRUE /\ toWorker' = q
               \/ demo' = FALSE /\ toWorker' = Append(q, [op |-> "connect", gen |-> wgen'])
    PROVE  Runs'
<1> DEFINE q == toWorker \o Teardown  d == [op |-> "disconnect", gen |-> 0]  c == [op |-> "connect", gen |-> wgen']
<1>1. /\ up' = FALSE /\ base' = lastId /\ active' = 0 /\ UNCHANGED <<deferred, wactive, stage, wjob, toGui, uploads>>
      /\ (demo /\ wgen' = wgen) \/ (~demo /\ wgen' = wgen + 1) BY DEF EndConnection, worker, loop
<1>2. /\ wgen \in Nat /\ wactive \in Nat /\ TypeOK /\ wjob \in Nat /\ lastId \in Nat /\ wjob <= lastId
      /\ \A e \in deferred : e.gen \in Nat
      /\ toWorker \in Seq(WorkerEvents) BY IdsAreNumbers DEF RunsInv, IInv, TypeOK, Agreement, Known
<1>3. wgen' \in Nat BY <1>1, <1>2
<1>4. c \in WorkerEvents /\ c.op = "connect" /\ c.gen = wgen' BY <1>3 DEF WorkerEvents
<1>5. /\ q \in Seq(WorkerEvents) /\ (demo => q = toWorker)
      /\ \A S : NoneOf(toWorker, S) /\ d \notin S => NoneOf(q, S) BY <1>2, TeardownQueue
<1>6. /\ d \notin AllRequests /\ \A S : S \subseteq AllConnects => d \notin S BY DEF AllRequests, AllConnects
<1>7. \/ demo' = demo /\ toWorker' = q
      \/ demo' = TRUE /\ toWorker' = q
      \/ demo' = FALSE /\ toWorker' = Append(q, c) OBVIOUS
<1>8. /\ \A g : ConnectsOf(g) \subseteq AllConnects /\ ConnectsAbove(g) \subseteq AllConnects
      /\ OldRequests(lastId) \subseteq AllRequests
  BY DEF ConnectsOf, ConnectsAbove, AllConnects, OldRequests, AllRequests
<1> HIDE DEF q, d, c
<1>9. /\ NoneOf(q, ConnectsAbove(wgen')) /\ NoneOf(q, ConnectsOf(wgen')) /\ NoneOf(toGui, UpsOf(wgen'))
      /\ NoneOf(toGui, UpsAbove(wgen')) /\ wactive <= wgen'
      /\ \A e \in deferred : e.gen <= wgen' /\ e.gen # wgen'
      /\ wactive = wgen' => stage = "idle" /\ NoneOf(toWorker, AllRequests) /\ q = toWorker
  <2>1. CASE demo BY <1>1, <1>5, <2>1 DEF RunsInv, Runs, GenerationsKnown, DemoIsApart
  <2>2. CASE ~demo
    <3>1. wgen' = wgen + 1 BY <1>1, <2>2
    <3>2. /\ ConnectsOf(wgen + 1) \subseteq ConnectsAbove(wgen) /\ ConnectsAbove(wgen + 1) \subseteq ConnectsAbove(wgen)
          /\ UpsOf(wgen + 1) \subseteq UpsAbove(wgen) /\ UpsAbove(wgen + 1) \subseteq UpsAbove(wgen)
      BY <1>2, LaterGenerations
    <3>3. NoneOf(q, ConnectsAbove(wgen)) BY <1>5, <1>6, <1>8 DEF RunsInv, Runs, GenerationsKnown
    <3>4. NoneOf(toGui, UpsAbove(wgen)) /\ wactive <= wgen /\ \A e \in deferred : e.gen <= wgen
      BY DEF RunsInv, Runs, GenerationsKnown
    <3>5. NoneOf(q, ConnectsAbove(wgen')) /\ NoneOf(q, ConnectsOf(wgen')) BY <3>1, <3>2, <3>3, NoneOfLess
    <3>6. NoneOf(toGui, UpsOf(wgen')) /\ NoneOf(toGui, UpsAbove(wgen')) BY <3>1, <3>2, <3>4, NoneOfLess
    <3>7. wactive <= wgen' /\ wactive # wgen' BY <1>2, <3>1, <3>4
    <3>8. \A e \in deferred : e.gen <= wgen' /\ e.gen # wgen' BY <1>2, <3>1, <3>4
    <3> QED BY <3>5, <3>6, <3>7, <3>8
  <2> QED BY <2>1, <2>2
<1>10. c \notin ConnectsAbove(wgen') BY <1>2, <1>3, <1>4 DEF ConnectsAbove
<1>11. NoneOf(toWorker', ConnectsAbove(wgen')) BY <1>4, <1>5, <1>7, <1>9, <1>10, AppendOne
<1>12. LastOf(toWorker', ConnectsOf(wgen')) BY <1>9, <1>4, <1>5, <1>7, LastChanges DEF NoneOf, LastOf
<1>13. GenerationsKnown' BY <1>1, <1>9, <1>11 DEF GenerationsKnown
<1>14. NoneOf(toWorker', OldRequests(lastId)) \/ wactive # wgen'
  <2> SUFFICES ASSUME wactive = wgen' PROVE NoneOf(toWorker', OldRequests(lastId)) OBVIOUS
  <2>1. NoneOf(q, OldRequests(lastId)) BY <1>8, <1>9, NoneOfLess
  <2>2. c \notin OldRequests(lastId) BY <1>4 DEF OldRequests
  <2> QED BY <1>4, <1>5, <1>7, <2>1, <2>2, AppendOne
<1>15. CurrentIsOwn' BY <1>1, <1>9, <1>14 DEF CurrentIsOwn
<1>16. DemoIsApart'
  <2> SUFFICES ASSUME demo' PROVE DemoIsApart' BY DEF DemoIsApart
  <2>1. toWorker' = q BY <1>7
  <2> QED BY <1>1, <1>9, <2>1 DEF DemoIsApart
<1>17. Settled' BY <1>1, <1>9 DEF Settled
<1>18. CancelIsOfRun' BY <1>1, <1>2 DEF CancelIsOfRun
<1> QED BY <1>12, <1>13, <1>15, <1>16, <1>17, <1>18 DEF Runs

\* A task is requested over the connection the worker has.
LEMMA RunsStart ==
    ASSUME RunsInv, NEW t \in [Ids -> States], StartNext(t),
           tgen # 0 => \A i \in Ids : i <= base => t[i] = "none",
           wjob \in uploads' <=> wjob \in uploads,
           UNCHANGED <<link, base, cancelId, worker, toGui>>
    PROVE  Runs'
<1> USE DEF link, worker, loop
<1>1. CASE task' = t /\ UNCHANGED <<active, canceling, demoTimers, toWorker>>
  BY <1>1 DEF RunsInv, Runs, GenerationsKnown, CurrentIsOwn, DemoIsApart, Settled, CancelIsOfRun
<1>2. ASSUME active = 0, up, NEW i \in Ids, t[i] = "queued", active' = i, canceling' = canceling \ {i},
             \/ demo /\ UNCHANGED toWorker
             \/ ~demo /\ toWorker' = Append(toWorker, [op |-> "transfer", id |-> i])
      PROVE  Runs'
  <2> DEFINE e == [op |-> "transfer", id |-> i]
  <2>1. i > base BY <1>2, IdsAreNumbers DEF RunsInv, IInv, Agreement, Session, TypeOK
  <2>2. CancelIsOfRun'
    <3>1. NotMoving BY <1>2 DEF RunsInv, IInv, Agreement, Token, Quiet
    <3>2. base \in Nat /\ wjob \in Nat BY IdsAreNumbers DEF RunsInv, IInv, TypeOK
    <3> QED BY <3>1, <3>2 DEF NotMoving, CancelIsOfRun
  <2>3. CASE demo /\ UNCHANGED toWorker
    BY <2>3, <2>2 DEF RunsInv, Runs, GenerationsKnown, CurrentIsOwn, DemoIsApart, Settled
  <2>4. CASE ~demo /\ toWorker' = Append(toWorker, e)
    <3>1. e \in WorkerEvents /\ e.op = "transfer" /\ e.id = i BY DEF WorkerEvents
    <3>2. toWorker \in Seq(WorkerEvents) /\ base \in Nat /\ i \in Nat BY IdsAreNumbers DEF RunsInv, IInv, TypeOK
    <3>3. wactive = wgen /\ NoneOf(toWorker, AllConnects) BY <1>2, <2>4 DEF RunsInv, Runs, Settled
    <3>4. e \notin AllConnects /\ e \notin OldRequests(base) BY <2>1, <3>1, <3>2 DEF AllConnects, OldRequests
    <3> HIDE DEF e
    <3>5. NoneOf(toWorker', AllConnects) BY <2>4, <3>1, <3>2, <3>3, <3>4, AppendOne
    <3>6. \A g : ConnectsOf(g) \subseteq AllConnects /\ ConnectsAbove(g) \subseteq AllConnects
      BY DEF ConnectsOf, ConnectsAbove, AllConnects
    <3>7. NoneOf(toWorker', ConnectsOf(wgen)) /\ NoneOf(toWorker', ConnectsAbove(wgen)) BY <3>5, <3>6, NoneOfLess
    <3>8. LastOf(toWorker', ConnectsOf(wgen)) BY <3>7 DEF NoneOf, LastOf
    <3>9. NoneOf(toWorker', OldRequests(base))
      BY <3>3, <2>4, <3>1, <3>2, <3>4, AppendOne DEF RunsInv, Runs, CurrentIsOwn
    <3>10. GenerationsKnown' BY <3>7 DEF RunsInv, Runs, GenerationsKnown
    <3>11. CurrentIsOwn' BY <3>9 DEF RunsInv, Runs, CurrentIsOwn
    <3>12. DemoIsApart' BY <2>4 DEF DemoIsApart
    <3>13. Settled' BY <3>3, <3>5 DEF Settled
    <3> QED BY <2>2, <3>8, <3>10, <3>11, <3>12, <3>13 DEF Runs
  <2> QED BY <1>2, <2>3, <2>4
<1> QED BY <1>1, <1>2, StartEffects DEF RunsInv, IInv

\* Steps of the GUI thread that neither end a connection nor start a task.
LEMMA RunsRest ==
    ASSUME RunsInv, UNCHANGED <<tgen, demo, wgen, base, worker, toWorker>>,
           toGui' = toGui \/ (toGui # <<>> /\ toGui' = Tail(toGui)),
           active' \in {0, active},
           up' => up \/ demo \/ (wactive = wgen /\ NoneOf(toWorker, AllConnects)),
           CancelIsOfRun'
    PROVE  Runs'
<1> USE DEF worker, loop
<1>1. \A S : NoneOf(toGui, S) => NoneOf(toGui', S)
  <2>1. toGui \in Seq(GuiEvents) BY DEF RunsInv, IInv, TypeOK
  <2>2. ASSUME NEW S, NoneOf(toGui, S), toGui # <<>> PROVE NoneOf(Tail(toGui), S) BY <2>1, <2>2, TakeFirst
  <2> QED BY <2>2
<1>2. GenerationsKnown' BY <1>1 DEF RunsInv, Runs, GenerationsKnown
<1>3. LastOf(toWorker', ConnectsOf(wgen')) BY DEF RunsInv, Runs
<1>4. CurrentIsOwn' BY DEF RunsInv, Runs, CurrentIsOwn
<1>5. DemoIsApart' BY <1>1 DEF RunsInv, Runs, DemoIsApart
<1>6. Settled' BY <1>1 DEF RunsInv, Runs, Settled
<1> QED BY <1>2, <1>3, <1>4, <1>5, <1>6 DEF Runs

\* The user keeps the generations apart.
LEMMA RunsUser ==
    ASSUME RunsInv, UserStep
    PROVE  Runs'
<1>t. /\ task \in [Ids -> States] /\ lastId \in Nat /\ base \in Nat /\ wjob \in Nat /\ Ids \subseteq Nat \ {0}
      /\ MaxTasks \in Nat /\ TypeOK BY IdsAreNumbers DEF RunsInv, IInv, TypeOK
<1>c. CancelIsOfRun BY DEF RunsInv, Runs
<1>1. ASSUME NEW upload \in BOOLEAN, Enqueue(upload) PROVE Runs'
  <2> DEFINE t == [Evict EXCEPT ![lastId'] = "queued"]
  <2>1. /\ lastId' = lastId + 1 /\ StartNext(t) /\ up /\ lastId' \in Ids
        /\ UNCHANGED <<link, base, cancelId, worker, toGui>>
        /\ uploads' = uploads \/ uploads' = uploads \cup {lastId'} BY <1>1, <1>t DEF Enqueue, Ids
  <2>2. /\ Evict \in [Ids -> States]
        /\ \A i \in Ids : Evict[i] = task[i] \/ (task[i] \in Ended /\ Evict[i] = "none") BY <1>t, EvictEffects
  <2>3. t \in [Ids -> States] BY <2>2 DEF States
  <2>4. /\ base <= lastId /\ wjob <= lastId
        /\ tgen # 0 => \A i \in Ids : i <= base => task[i] = "none"
    BY DEF RunsInv, IInv, Agreement, Known, Session
  <2>5. tgen # 0 => \A i \in Ids : i <= base => t[i] = "none"
    <3>1. ASSUME tgen # 0, NEW i \in Ids, i <= base PROVE t[i] = "none" BY <1>t, <2>1, <2>4, <3>1, <2>2 DEF Ended
    <3> QED BY <3>1
  <2>6. wjob \in uploads' <=> wjob \in uploads BY <1>t, <2>1, <2>4
  <2> HIDE DEF t
  <2> QED BY <2>1, <2>3, <2>5, <2>6, RunsStart
<1>2. ASSUME NEW i \in Ids, CancelQueued(i) PROVE Runs'
  BY <1>2, <1>c, RunsRest DEF CancelQueued, CancelIsOfRun, worker, loop, link
<1>3. ASSUME NEW i \in Ids, CancelRunning(i) PROVE Runs'
  <2>1. task[i] = "running" /\ UNCHANGED <<link, uploads, base, worker, toWorker, toGui>>
    BY <1>3 DEF CancelRunning
  <2>2. CASE demo
    <3>1. FinishActive("canceled") BY <1>3, <2>2 DEF CancelRunning
    <3>2. NotMoving BY <2>2 DEF RunsInv, IInv, Agreement, Token, Quiet
    <3>3. CancelIsOfRun' BY <1>t, <2>1, <3>2 DEF NotMoving, CancelIsOfRun, worker, loop
    <3> QED BY <2>1, <3>1, <3>3, RunsRest DEF link, FinishActive
  <2>3. CASE ~demo BY <1>3, <2>3, <2>1, RunsRest DEF CancelRunning, CancelIsOfRun, worker, loop, link
  <2> QED BY <2>2, <2>3
<1>4. ASSUME NEW i \in Ids, RetryTransfer(i) PROVE Runs'
  <2> DEFINE t == [task EXCEPT ![i] = "queued"]
  <2>1. /\ task[i] \in {"failed", "canceled"} /\ StartNext(t)
        /\ UNCHANGED <<link, uploads, base, cancelId, worker, toGui>> BY <1>4 DEF RetryTransfer
  <2>2. t \in [Ids -> States] BY <1>t DEF States
  <2>3. tgen # 0 => \A j \in Ids : j <= base => t[j] = "none" BY <1>t, <2>1 DEF RunsInv, IInv, Agreement, Session
  <2> HIDE DEF t
  <2> QED BY <2>1, <2>2, <2>3, RunsStart
<1>5. CASE Disconnect BY <1>5, RunsEnd DEF Disconnect
<1>6. ASSUME NEW isDemo \in BOOLEAN, Connect(isDemo) PROVE Runs'
  <2>1. /\ EndConnection /\ tgen' = wgen' /\ demo' = isDemo
        /\ toWorker' = toWorker \o Teardown \o (IF isDemo THEN <<>> ELSE <<[op |-> "connect", gen |-> wgen']>>)
    BY <1>6 DEF Connect
  <2> DEFINE q == toWorker \o Teardown
  <2>2. wgen' \in Nat BY <2>1 DEF EndConnection, RunsInv, IInv, TypeOK
  <2>3. /\ q \o <<>> = q
        /\ q \o <<[op |-> "connect", gen |-> wgen']>> = Append(q, [op |-> "connect", gen |-> wgen'])
    BY <1>t, <2>2, TeardownQueue
  <2>4. \/ demo' = TRUE /\ toWorker' = q
        \/ demo' = FALSE /\ toWorker' = Append(q, [op |-> "connect", gen |-> wgen']) BY <2>1, <2>3
  <2> QED BY <2>1, <2>4, RunsEnd
<1> QED BY <1>1, <1>2, <1>3, <1>4, <1>5, <1>6 DEF UserStep

\* So do timers, reports and answers.
LEMMA RunsGui ==
    ASSUME RunsInv, GuiStep
    PROVE  Runs'
<1>t. /\ base \in Nat /\ wjob \in Nat /\ active \in Nat /\ Ids \subseteq Nat \ {0} /\ task \in [Ids -> States]
      /\ TypeOK /\ toGui \in Seq(GuiEvents) /\ demoTimers \in Seq(Ids)
  BY IdsAreNumbers DEF RunsInv, IInv, TypeOK
<1>c. CancelIsOfRun BY DEF RunsInv, Runs
<1>f. ASSUME NEW state, FinishActive(state), NotMoving, UNCHANGED <<base, worker>>
      PROVE  CancelIsOfRun' /\ active' = 0
  BY <1>f, <1>t DEF NotMoving, CancelIsOfRun, worker, loop, FinishActive
<1>1. CASE StartTimerFires BY <1>1, <1>t, RunsStart DEF StartTimerFires, RunsInv, IInv, Agreement, Session
<1>2. CASE DemoTimerFires
  <2>1. demoTimers # <<>> /\ UNCHANGED <<link, uploads, base, cancelId, worker, toWorker, toGui>>
    BY <1>2 DEF DemoTimerFires
  <2>2. ASSUME NEW state \in Ended, task[Head(demoTimers)] = "running", FinishActive(state) PROVE Runs'
    <3>1. Head(demoTimers) \in Ids /\ 1 \in DOMAIN demoTimers /\ Head(demoTimers) = demoTimers[1]
      BY <1>t, <2>1, EmptySeq, LenProperties, HeadTailProperties
    <3>2. active = Head(demoTimers) /\ active # 0
      BY <1>t, <2>2, <3>1 DEF RunsInv, IInv, Agreement, ActiveIsRunning
    <3>3. demo BY <3>1, <3>2, ActiveIsNew DEF RunsInv, IInv, Agreement, Session
    <3>4. NotMoving BY <3>3 DEF RunsInv, IInv, Agreement, Token, Quiet
    <3>5. CancelIsOfRun' /\ active' = 0 BY <1>f, <2>1, <2>2, <3>4
    <3> QED BY <2>1, <3>5, RunsRest DEF link
  <2>3. CASE UNCHANGED <<canceling, active>> BY <1>c, <2>1, <2>3, RunsRest DEF CancelIsOfRun, worker, loop, link
  <2> QED BY <1>2, <2>2, <2>3 DEF DemoTimerFires, Ended
<1>3. CASE DemoConnects BY <1>3, <1>c, RunsRest DEF DemoConnects, CancelIsOfRun, worker, loop, tasks
<1>4. CASE HandleUp \/ HandleDown
  <2>1. /\ toGui # <<>> /\ toGui' = Tail(toGui)
        /\ UNCHANGED <<tgen, demo, wgen, tasks, active, cancelId, worker, toWorker>>
        /\ up' => up \/ (Head(toGui).type = "up" /\ Head(toGui).gen = tgen)
    BY <1>4 DEF HandleUp, HandleDown, Deliver
  <2>2. CancelIsOfRun' BY <1>c, <2>1 DEF CancelIsOfRun, worker, loop, tasks
  <2>3. ASSUME Head(toGui).type = "up", Head(toGui).gen = tgen
        PROVE  wactive = wgen /\ NoneOf(toWorker, AllConnects)
    <3>1. Head(toGui) \in GuiEvents BY <1>t, <2>1, HeadTailProperties
    <3>2. Head(toGui) \notin UnnumberedUp BY <1>t, <2>1, TakeFirst DEF RunsInv, IInv, Agreement, Numbered
    <3>3. tgen = wgen BY <2>3, <3>1, <3>2 DEF UnnumberedUp, RunsInv, Runs, GenerationsKnown
    <3>4. Head(toGui) \in UpsOf(wgen) BY <2>3, <3>1, <3>3 DEF UpsOf
    <3>5. ~NoneOf(toGui, UpsOf(wgen)) BY <1>t, <2>1, <3>4, TakeFirst
    <3> QED BY <3>5 DEF RunsInv, Runs, Settled
  <2> QED BY <2>1, <2>2, <2>3, RunsRest DEF tasks
<1>5. ASSUME NEW state \in Ended, HandleAnswer(state) PROVE Runs'
  <2>1. /\ toGui # <<>> /\ toGui' = Tail(toGui) /\ Head(toGui).type = state /\ Head(toGui) \in GuiEvents
        /\ UNCHANGED <<link, uploads, base, cancelId, worker, toWorker>>
    BY <1>5, <1>t, DeliverTyped DEF HandleAnswer, Deliver
  <2>2. CASE Head(toGui).id > base /\ FinishActive(state)
    <3>1. Head(toGui) \in Answers(base) BY <2>1, <2>2 DEF Answers
    <3>2. ~NotAnswered BY <1>t, <2>1, <3>1, TakeFirst DEF NotAnswered
    <3>3. NotMoving BY <3>2 DEF RunsInv, IInv, Agreement, Token, Quiet, OneRun
    <3>4. CancelIsOfRun' /\ active' = 0 BY <1>f, <2>1, <2>2, <3>3
    <3> QED BY <2>1, <3>4, RunsRest DEF link
  <2>3. CASE UNCHANGED <<canceling, active>> BY <1>c, <2>1, <2>3, RunsRest DEF CancelIsOfRun, worker, loop, link
  <2> QED BY <1>5, <2>2, <2>3 DEF HandleAnswer
<1> QED BY <1>1, <1>2, <1>3, <1>4, <1>5 DEF GuiStep

\* A step of the worker within its connection.
LEMMA RunsWork ==
    ASSUME RunsInv, UNCHANGED <<gui, wactive>>,
           toWorker' = toWorker \/ (toWorker # <<>> /\ toWorker' = Tail(toWorker)),
           toGui' = toGui \/ \E e \in GuiEvents : e.type # "up" /\ toGui' = Append(toGui, e),
           \A d \in deferred' : \/ d \in deferred
                                \/ d.gen = wactive /\ (wactive = wgen => d.id > base /\ ~demo),
           wactive = wgen => stage' = "idle" \/ (wjob' > base /\ ~demo),
           CancelIsOfRun'
    PROVE  Runs'
<1> USE DEF gui, link, tasks
<1>1. toWorker \in Seq(WorkerEvents) /\ toGui \in Seq(GuiEvents) /\ wactive \in Nat /\ wgen \in Nat
  BY DEF RunsInv, IInv, TypeOK
<1>2. ASSUME NEW S, NoneOf(toWorker, S) PROVE NoneOf(toWorker', S)
  <2>1. toWorker # <<>> => NoneOf(Tail(toWorker), S) BY <1>1, <1>2, TakeFirst
  <2> QED BY <1>2, <2>1
<1>3. ASSUME NEW S, NoneOf(toGui, S), \A e \in S : e.type = "up" PROVE NoneOf(toGui', S)
  <2>1. ASSUME NEW e \in GuiEvents, e.type # "up", toGui' = Append(toGui, e) PROVE NoneOf(toGui', S)
    BY <1>1, <1>3, <2>1, AppendOne
  <2> QED BY <1>3, <2>1
<1>4. (\A e \in UpsOf(wgen) : e.type = "up") /\ (\A e \in UpsAbove(wgen) : e.type = "up") BY DEF UpsOf, UpsAbove
<1>5. LastOf(toWorker', ConnectsOf(wgen))
  <2>1. LastOf(toWorker, ConnectsOf(wgen)) BY DEF RunsInv, Runs
  <2>2. toWorker # <<>> => LastOf(Tail(toWorker), ConnectsOf(wgen)) BY <1>1, <2>1, LastChanges
  <2> QED BY <2>1, <2>2
<1>6. GenerationsKnown' BY <1>2, <1>3, <1>4 DEF RunsInv, Runs, GenerationsKnown
<1>7. CurrentIsOwn' BY <1>2 DEF RunsInv, Runs, CurrentIsOwn
<1>8. DemoIsApart'
  <2> SUFFICES ASSUME demo PROVE DemoIsApart' BY DEF DemoIsApart
  <2>1. /\ \A d \in deferred : d.gen # wgen
        /\ NoneOf(toGui, UpsOf(wgen)) /\ NoneOf(toWorker, ConnectsOf(wgen))
        /\ wactive = wgen => NoneOf(toWorker, AllRequests) BY DEF RunsInv, Runs, DemoIsApart
  <2>2. NoneOf(toGui', UpsOf(wgen)) BY <1>3, <1>4, <2>1
  <2>3. NoneOf(toWorker', ConnectsOf(wgen)) /\ (wactive = wgen => NoneOf(toWorker', AllRequests)) BY <1>2, <2>1
  <2>4. \A d \in deferred' : d.gen # wgen BY <2>1
  <2> QED BY <2>2, <2>3, <2>4 DEF DemoIsApart
<1>9. Settled' BY <1>3, <1>4, <1>2 DEF RunsInv, Runs, Settled
<1> QED BY <1>5, <1>6, <1>7, <1>8, <1>9 DEF Runs

\* A transfer of this connection begins, or is put off: nothing of an earlier one.
LEMMA TakesOwn ==
    ASSUME RunsInv, Take("transfer"), wactive = wgen
    PROVE  Head(toWorker).id > base /\ ~demo
<1>1. /\ toWorker \in Seq(WorkerEvents) /\ toWorker # <<>> /\ Head(toWorker) \in WorkerEvents
      /\ Head(toWorker).op = "transfer" BY TakeKeeps DEF RunsInv
<1>2. \A S : NoneOf(toWorker, S) => Head(toWorker) \notin S
  <2> TAKE S
  <2>1. NoneOf(toWorker, S) => Head(toWorker) \notin S /\ NoneOf(Tail(toWorker), S) BY <1>1, TakeFirst
  <2> QED BY <2>1
<1>3. Head(toWorker) \notin OldRequests(base) BY <1>2 DEF RunsInv, Runs, CurrentIsOwn
<1>4. Head(toWorker).id \in Nat /\ base \in Nat
  <2>1. Head(toWorker).id \in Ids BY <1>1, RequestTyped DEF RunsInv, IInv
  <2>2. base \in 0 .. MaxTasks BY DEF RunsInv, IInv, TypeOK
  <2>3. Head(toWorker).id \in Nat BY <2>1, IdsAreNumbers
  <2>4. base \in Nat BY <2>2, IdsAreNumbers
  <2> QED BY <2>3, <2>4
<1>5. Head(toWorker).id > base BY <1>1, <1>3, <1>4 DEF OldRequests
<1>6. ~demo BY <1>1, <1>2 DEF AllRequests, RunsInv, Runs, DemoIsApart
<1> QED BY <1>5, <1>6

\* A loop that has begun sees no cancellation of an earlier run.
LEMMA BeginForgets ==
    ASSUME RunsInv, NEW i \in Nat \ {0}, Begin(i), uploads' = uploads
    PROVE  CancelIsOfRun' BY DEF Begin, CancelIsOfRun

\* The worker takes its events in order, and keeps the generations apart.
LEMMA RunsWorker ==
    ASSUME RunsInv, WorkerStep \/ TransportLost
    PROVE  Runs'
<1>t. /\ base \in Nat /\ wjob \in Nat /\ wactive \in Nat /\ wgen \in Nat /\ Ids \subseteq Nat \ {0}
      /\ TypeOK /\ MovesTask /\ toGui \in Seq(GuiEvents) /\ toWorker \in Seq(WorkerEvents)
  BY IdsAreNumbers DEF RunsInv, IInv, TypeOK
<1>c. CancelIsOfRun BY DEF RunsInv, Runs
<1>s. wactive = wgen => stage = "idle" \/ (wjob > base /\ ~demo) BY DEF RunsInv, Runs, CurrentIsOwn, DemoIsApart
<1>d. ASSUME NEW g \in Nat
      PROVE  [type |-> "down", gen |-> g] \in GuiEvents /\ [type |-> "down", gen |-> g].type # "up"
  BY DEF GuiEvents
<1>1. CASE TakeTransfer
  <2>1. Take("transfer") /\ UNCHANGED <<gui, wactive, toGui>> BY <1>1 DEF TakeTransfer
  <2>2. toWorker # <<>> /\ toWorker' = Tail(toWorker) /\ stage = "idle" BY <2>1 DEF Take
  <2>3. Head(toWorker).id \in Nat \ {0} BY <2>1, <1>t, TakeKeeps, RequestTyped DEF RunsInv, IInv
  <2>4. CASE Begin(Head(toWorker).id) /\ UNCHANGED deferred
    BY <2>1, <2>4, <2>3, <2>2, TakesOwn, BeginForgets, RunsWork DEF Begin, gui, tasks
  <2>5. CASE deferred' = deferred \cup {[id |-> Head(toWorker).id, gen |-> wactive]} /\ UNCHANGED <<loop, cancelId>>
    BY <2>5, <2>1, <1>c, <2>2, TakesOwn, RunsWork DEF CancelIsOfRun, gui, tasks, loop
  <2> QED BY <1>1, <2>4, <2>5 DEF TakeTransfer
<1>2. ASSUME NEW d \in deferred, RetryDeferred(d) PROVE Runs'
  <2>1. /\ stage = "idle" /\ deferred' = deferred \ {d} /\ UNCHANGED <<gui, wactive, toWorker, toGui>>
        /\ \/ d.gen = wactive /\ wactive = wgen /\ Begin(d.id)
           \/ UNCHANGED <<loop, cancelId>> BY <1>2 DEF RetryDeferred, ConnectionCanceled
  <2>2. CASE d.gen = wactive /\ wactive = wgen /\ Begin(d.id)
    <3>1. d.id > base /\ ~demo BY <2>2 DEF RunsInv, Runs, CurrentIsOwn, DemoIsApart
    <3>2. d.id \in Nat \ {0} BY <1>t DEF TypeOK
    <3>3. CancelIsOfRun' BY <2>1, <2>2, <3>2, BeginForgets DEF gui, tasks
    <3>4. wjob' > base BY <2>2, <3>1 DEF Begin
    <3> QED BY <2>1, <3>1, <3>3, <3>4, RunsWork
  <2>3. CASE UNCHANGED <<loop, cancelId>> BY <1>c, <2>1, <2>3, RunsWork DEF CancelIsOfRun, gui, tasks, loop
  <2> QED BY <2>1, <2>2, <2>3
<1>3. CASE Opened BY <1>3, <1>c, <1>t, <1>s, RunsWork DEF Opened, CancelIsOfRun, MovesTask, gui, tasks
<1>4. ASSUME stage \in {"check", "io"}, stage' # "begin", UNCHANGED <<gui, cancelId, wactive, wjob, deferred, toWorker, toGui>>
      PROVE  Runs' BY <1>c, <1>4, <1>s, RunsWork DEF CancelIsOfRun, gui, tasks
<1>5. ASSUME NEW type \in Ended, stage # "idle", Answer(type), UNCHANGED <<gui, wactive, deferred, toWorker>>
      PROVE  Runs'
  <2> DEFINE e == [type |-> type, id |-> wjob]
  <2>1. stage' = "idle" /\ toGui' = Append(toGui, e) /\ e \in GuiEvents BY <1>5, <1>t, AnswerTyped
  <2>2. e.type # "up" BY DEF Ended
  <2>3. CancelIsOfRun' BY <2>1 DEF CancelIsOfRun
  <2> HIDE DEF e
  <2> QED BY <1>5, <2>1, <2>2, <2>3, RunsWork
<1>6. CASE MoveBlock BY <1>4, <1>6 DEF MoveBlock
<1>7. CASE Check BY <1>5, <1>7, <1>4 DEF Check, Ended
<1>8. CASE Commit BY <1>5, <1>8 DEF Commit, Ended
<1>9. CASE TransferFails BY <1>5, <1>9 DEF TransferFails, Ended
<1>10. CASE TransportLost \/ WorkerDisconnects
  <2>1. /\ UNCHANGED <<gui, cancelId, wactive, loop, deferred>>
        /\ toWorker' = toWorker \/ (toWorker # <<>> /\ toWorker' = Tail(toWorker))
        /\ toGui' = toGui \/ toGui' = Append(toGui, [type |-> "down", gen |-> wactive])
    BY <1>10 DEF TransportLost, WorkerDisconnects, Take
  <2>2. CancelIsOfRun' BY <1>c, <2>1 DEF CancelIsOfRun, gui, tasks, loop
  <2> QED BY <1>d, <1>s, <1>t, <2>1, <2>2, RunsWork DEF loop
<1>11. CASE WorkerConnects
  <2>1. /\ Take("connect") /\ wactive' = Head(toWorker).gen /\ UNCHANGED <<gui, cancelId, loop, deferred>>
        /\ \/ wactive' = wgen /\ toGui' = Append(toGui, [type |-> "up", gen |-> wactive'])
           \/ toGui' = toGui \/ toGui' = Append(toGui, [type |-> "down", gen |-> wactive'])
    BY <1>11 DEF WorkerConnects
  <2>2. /\ toWorker # <<>> /\ toWorker' = Tail(toWorker) /\ stage = "idle"
        /\ Head(toWorker) \in WorkerEvents /\ Head(toWorker).op = "connect" BY <2>1, TakeKeeps DEF RunsInv
  <2>3. ASSUME NEW S, NoneOf(toWorker, S) PROVE Head(toWorker) \notin S /\ NoneOf(toWorker', S)
    BY <1>t, <2>2, <2>3, TakeFirst
  <2>4. wactive' \in Nat /\ wactive' <= wgen
    BY <2>3, <2>2, <1>t, <2>1 DEF RunsInv, Runs, GenerationsKnown, WorkerEvents, ConnectsAbove
  <2>5. /\ LastOf(toWorker', ConnectsOf(wgen))
        /\ wactive' = wgen => \A R : NoneOf(toWorker', R)
    BY <2>1, <2>2, <1>t, LastChanges DEF RunsInv, Runs, ConnectsOf
  <2>6. demo => wactive' # wgen BY <2>2, <2>1, <2>3 DEF ConnectsOf, RunsInv, Runs, DemoIsApart
  <2>7. /\ NoneOf(toGui', UpsAbove(wgen))
        /\ (wactive' # wgen /\ NoneOf(toGui, UpsOf(wgen))) => NoneOf(toGui', UpsOf(wgen))
    <3>1. NoneOf(toGui, UpsAbove(wgen)) BY DEF RunsInv, Runs, GenerationsKnown
    <3>2. ASSUME NEW type \in {"up", "down"}, toGui' = Append(toGui, [type |-> type, gen |-> wactive']),
                 type = "up" => wactive' = wgen
          PROVE  /\ NoneOf(toGui', UpsAbove(wgen))
                 /\ (wactive' # wgen /\ NoneOf(toGui, UpsOf(wgen))) => NoneOf(toGui', UpsOf(wgen))
      <4> DEFINE e == [type |-> type, gen |-> wactive']
      <4>1. e \in GuiEvents BY <2>4 DEF GuiEvents
      <4>2. e \notin UpsAbove(wgen) /\ (wactive' # wgen => e \notin UpsOf(wgen))
        BY <1>t, <2>4, <3>2 DEF UpsAbove, UpsOf
      <4>3. toGui' = Append(toGui, e) BY <3>2
      <4> HIDE DEF e
      <4> QED BY <1>t, <3>1, <4>1, <4>2, <4>3, AppendOne
    <3> QED BY <2>1, <3>1, <3>2
  <2>8. GenerationsKnown' BY <2>3, <2>1, <2>4, <2>7 DEF RunsInv, Runs, GenerationsKnown, gui, link
  <2>9. CurrentIsOwn' BY <2>1, <2>2, <2>5 DEF RunsInv, Runs, CurrentIsOwn, gui, link, tasks, loop
  <2>10. DemoIsApart' BY <2>1, <2>3, <2>6, <2>7 DEF RunsInv, Runs, DemoIsApart, gui, link
  <2>11. Settled' BY <2>2, <2>3, <2>1, <2>5, <2>7 DEF AllConnects, RunsInv, Runs, Settled, gui, link
  <2>12. CancelIsOfRun' BY <1>c, <2>1 DEF CancelIsOfRun, gui, tasks, loop
  <2>13. wgen' = wgen BY <2>1 DEF gui, link
  <2> QED BY <2>5, <2>8, <2>9, <2>10, <2>11, <2>12, <2>13 DEF Runs
<1> QED BY <1>1, <1>2, <1>3, <1>6, <1>7, <1>8, <1>9, <1>10, <1>11 DEF WorkerStep

\* At the start nothing runs.
LEMMA RunsInit == Init => Runs
<1> SUFFICES ASSUME Init PROVE Runs OBVIOUS
<1>1. DOMAIN <<>> = {} BY EmptySeq, LenProperties
<1>2. \A S : NoneOf(<<>>, S) /\ LastOf(<<>>, S) BY <1>1 DEF NoneOf, LastOf
<1>3. toWorker = <<>> /\ toGui = <<>> BY DEF Init
<1> QED BY <1>2, <1>3 DEF Init, Runs, GenerationsKnown, CurrentIsOwn, DemoIsApart, Settled, CancelIsOfRun

\* RunsInv is an inductive invariant of the queue.
THEOREM RunsInvariance == Spec => []RunsInv
<1>1. RunsInv /\ [Next]_vars => Runs'
  <2> SUFFICES ASSUME RunsInv, [Next]_vars PROVE Runs' OBVIOUS
  <2>1. CASE UserStep BY <2>1, RunsUser
  <2>2. CASE GuiStep BY <2>2, RunsGui
  <2>3. CASE WorkerStep \/ TransportLost BY <2>3, RunsWorker
  <2>4. CASE UNCHANGED vars
    BY <2>4 DEF RunsInv, Runs, GenerationsKnown, CurrentIsOwn, DemoIsApart, Settled, CancelIsOfRun,
                vars, gui, worker, link, tasks, loop
  <2> QED BY <2>1, <2>2, <2>3, <2>4 DEF Next
<1>2. Init => Runs BY RunsInit
<1>3. IInv /\ Runs <=> RunsInv BY DEF RunsInv
<1> QED BY <1>1, <1>2, <1>3, Invariance, PTL DEF Spec

\* Only a check of the loop reports a cancellation, and of this connection only
\* one that was asked for.
LEMMA CanceledWasAsked ==
    ASSUME RunsInv, [Next]_vars,
           NEW k \in DOMAIN toGui', k > Len(toGui), toGui'[k].type = "canceled", toGui'[k].id > base
    PROVE  toGui'[k].id \in canceling
<1>t. /\ toGui \in Seq(GuiEvents) /\ TypeOK /\ MovesTask /\ base \in Nat /\ wjob \in Nat
      /\ Len(toGui) \in Nat /\ DOMAIN toGui = 1 .. Len(toGui)
  BY IdsAreNumbers, LenProperties DEF RunsInv, IInv, TypeOK
<1>1. toGui' # toGui BY <1>t
<1>2. ~(toGui # <<>> /\ toGui' = Tail(toGui))
  <2> SUFFICES ASSUME toGui # <<>>, toGui' = Tail(toGui) PROVE FALSE OBVIOUS
  <2>1. Len(toGui) # 0 BY <1>t, EmptySeq
  <2>2. Tail(toGui) \in Seq(GuiEvents) /\ Len(Tail(toGui)) = Len(toGui) - 1 BY <1>t, HeadTailProperties
  <2>3. DOMAIN Tail(toGui) = 1 .. Len(toGui) - 1 BY <2>2, LenProperties
  <2>4. k <= Len(toGui) - 1 BY <2>3
  <2> QED BY <1>t, <2>1, <2>4
<1>3. ASSUME NEW e \in GuiEvents, toGui' = Append(toGui, e) PROVE toGui'[k] = e
  BY <1>t, <1>3, AppendProperties, LenProperties
<1>4. ASSUME NEW type \in {"up", "down"}, NEW g, g \in Nat, toGui' = Append(toGui, [type |-> type, gen |-> g]) PROVE FALSE
  <2> DEFINE e == [type |-> type, gen |-> g]
  <2>1. e \in GuiEvents BY <1>4 DEF GuiEvents
  <2>2. e.type # "canceled" BY <1>4
  <2>3. toGui' = Append(toGui, e) BY <1>4
  <2> HIDE DEF e
  <2> QED BY <1>3, <2>1, <2>2, <2>3
<1>5. ASSUME NEW type \in Ended, stage # "idle", Answer(type) PROVE type = "canceled" /\ toGui'[k].id = wjob
  <2> DEFINE e == [type |-> type, id |-> wjob]
  <2>1. toGui' = Append(toGui, e) /\ e \in GuiEvents BY <1>5, <1>t, AnswerTyped
  <2>2. e.type = type /\ e.id = wjob OBVIOUS
  <2> HIDE DEF e
  <2>3. toGui'[k] = e BY <1>3, <2>1
  <2> QED BY <2>2, <2>3
<1>6. CASE Check
  <2>1. stage = "check" /\ Answer("canceled") /\ (wactive # wgen \/ cancelId = wjob)
    BY <1>1, <1>6 DEF Check, ConnectionCanceled
  <2>2. toGui'[k].id = wjob /\ wjob > base BY <1>5, <2>1 DEF Ended
  <2>3. ~NotMoving BY <1>t, <2>1, <2>2 DEF NotMoving
  <2>4. active # 0 /\ ~demo BY <2>3 DEF RunsInv, IInv, Agreement, Token, Quiet
  <2>5. wactive = wgen BY <2>4 DEF RunsInv, Runs, Settled
  <2> QED BY <2>1, <2>2, <2>5 DEF RunsInv, Runs, CancelIsOfRun
<1>7. CASE Commit \/ TransferFails BY <1>7, <1>5 DEF Commit, TransferFails, Ended
<1>8. CASE TransportLost \/ WorkerDisconnects BY <1>1, <1>8, <1>t, <1>4 DEF TransportLost, WorkerDisconnects, TypeOK
<1>9. CASE WorkerConnects BY <1>1, <1>9, <1>4, TypeWorker DEF WorkerConnects, RunsInv, IInv, TypeOK, WorkerStep
<1>10. CASE TakeTransfer \/ Opened \/ MoveBlock \/ \E d \in deferred : RetryDeferred(d)
  BY <1>1, <1>10 DEF TakeTransfer, Opened, MoveBlock, RetryDeferred
<1>11. CASE UserStep
  <2>1. UNCHANGED toGui
    BY <1>11 DEF UserStep, Enqueue, CancelQueued, CancelRunning, RetryTransfer, Disconnect, Connect, EndConnection
  <2> QED BY <1>1, <2>1
<1>12. CASE GuiStep
  <2>1. UNCHANGED toGui \/ (toGui # <<>> /\ toGui' = Tail(toGui))
    BY <1>12 DEF GuiStep, StartTimerFires, DemoTimerFires, DemoConnects, HandleUp, HandleDown, HandleAnswer, Deliver
  <2> QED BY <1>1, <1>2, <2>1
<1>13. CASE UNCHANGED vars BY <1>1, <1>13 DEF vars
<1> QED BY <1>6, <1>7, <1>8, <1>9, <1>10, <1>11, <1>12, <1>13 DEF Next, WorkerStep

\* A transfer put off on one connection is never carried out over the next one,
\* and a run is reported as canceled only if that run was: a retry is not hit by
\* what canceled the run before it.
THEOREM RunsApart == Spec => RunsAreApart
<1>1. RunsInv => TypeOK /\ OwnConnection
  BY DEF RunsInv, IInv, Runs, CurrentIsOwn, OwnConnection, ConnectionCanceled
<1>2. RunsInv /\ [Next]_vars =>
        [\A k \in DOMAIN toGui' :
            k > Len(toGui) /\ toGui'[k].type = "canceled" /\ toGui'[k].id > base
                => toGui'[k].id \in canceling]_vars BY CanceledWasAsked
<1> QED BY <1>1, <1>2, RunsInvariance, PTL DEF RunsAreApart, CanceledOnlyIfAsked, Spec


----
(* The writing of a file. *)

FileSystems == [Names -> Files \cup {None}]

----
(* Names, files and calls. *)

\* The destination, the temporary files and the backups have names of their own.
LEMMA NamesDiffer ==
    /\ "dest" \in Names
    /\ \A k \in Kinds : /\ Temp[k] \in Names /\ Backup[k] \in Names
                        /\ Temp[k] # "dest" /\ Backup[k] # "dest"
    /\ \A k, j \in Kinds : /\ Temp[k] # Backup[j]
                           /\ k # j => Temp[k] # Temp[j] /\ Backup[k] # Backup[j]
  BY DEF Names, Kinds, Temp, Backup

\* A call changes the files as it says or not at all, and only if it is allowed.
LEMMA CallChanges ==
    ASSUME NEW ok \in BOOLEAN, NEW allowed, NEW effect, CallEnds(ok, allowed, effect)
    PROVE  /\ files' = files \/ (allowed /\ files' = effect)
           /\ ok => linked /\ allowed /\ files' = effect
           /\ faults' = faults \/ faults' = faults + 1 BY DEF CallEnds, Fault

\* The same of a call whose result only chooses the next step.
LEMMA CallSteps ==
    ASSUME NEW allowed, NEW effect, NEW done, NEW error, Call(allowed, effect, done, error)
    PROVE  /\ files' = files \/ (allowed /\ files' = effect)
           /\ pc' = error \/ (pc' = done /\ allowed /\ files' = effect)
           /\ faults' = faults \/ faults' = faults + 1
           /\ History BY CallChanges DEF Call

\* Removing and renaming keep the files files.
LEMMA EffectsTyped ==
    ASSUME files \in FileSystems, NEW a \in Names, NEW b \in Names
    PROVE  Removed(a) \in FileSystems /\ Renamed(a, b) \in FileSystems BY DEF FileSystems, Removed, Renamed

\* What the file panel and the commit see of a file system after a rename.
LEMMA RenameMoves ==
    ASSUME files \in FileSystems, NEW a \in Names, NEW b \in Names, a # b
    PROVE  /\ Renamed(a, b)[b] = files[a] /\ Renamed(a, b)[a] = None
           /\ \A n \in Names : n # a /\ n # b => Renamed(a, b)[n] = files[n] BY DEF FileSystems, Renamed

\* What is left after a name was removed.
LEMMA RemoveRemoves ==
    ASSUME files \in FileSystems, NEW a \in Names
    PROVE  /\ Removed(a)[a] = None
           /\ \A n \in Names : n # a => Removed(a)[n] = files[n] BY DEF FileSystems, Removed

----
(* Types. *)

\* The temporary file once it is open is a file.
LEMMA OpenedTyped ==
    ASSUME CommitTypeOK, NEW m \in Modes
    PROVE  OpenedFile(m) \in Files
<1>1. files[Temp[op.kind]] \in Files \cup {None} BY NamesDiffer DEF CommitTypeOK, Ops
<1>2. <<>> \in Seq(Versions) OBVIOUS
<1>3. CASE files[Temp[op.kind]] = None BY <1>2, <1>3 DEF OpenedFile, Regular, Files
<1>4. CASE files[Temp[op.kind]] # None BY <1>1, <1>4, <1>2 DEF Files, OpenedFile
<1> QED BY <1>3, <1>4

\* A complete version is a sequence of its blocks.
LEMMA CompleteTyped ==
    ASSUME NEW v \in Versions
    PROVE  Complete(v) \in Seq(Versions) /\ Regular(Complete(v), "own") \in Files
BY SizeAssumption DEF Complete, Regular, Files, Modes

\* A block written into a file leaves a file.
LEMMA PutTyped ==
    ASSUME CommitTypeOK, NEW data \in Seq(Versions), NEW v \in Versions
    PROVE  Put(data, v) \in Seq(Versions) BY SizeAssumption DEF CommitTypeOK, Put, Ops

\* The kind of an operation names a temporary file and a backup.
LEMMA OwnNames ==
    ASSUME CommitTypeOK
    PROVE  /\ op.kind \in Kinds /\ op.version \in Versions /\ op.overwrite \in BOOLEAN
           /\ Temp[op.kind] \in Names /\ Backup[op.kind] \in Names
           /\ Size[op.version] \in Nat BY NamesDiffer, SizeAssumption DEF CommitTypeOK, Ops

\* History follows the file.
LEMMA HistoryTyped ==
    ASSUME CommitTypeOK, History, files' \in FileSystems
    PROVE  last' \in Seq(Versions) \cup {None} BY NamesDiffer DEF CommitTypeOK, History, FileSystems, Files

\* A call with typed files that leaves the locals alone keeps the types.
LEMMA CallTyped ==
    ASSUME CommitTypeOK, NEW allowed, NEW effect \in FileSystems, NEW done \in CommitStages, NEW error \in CommitStages,
           Call(allowed, effect, done, error), UNCHANGED <<server, linked, locals>>
    PROVE  CommitTypeOK'
BY CallSteps, HistoryTyped DEF CommitTypeOK, FileSystems, locals

\* The file an operation writes to is there.
WritesToFile == pc = "write" => Exists(Temp[op.kind])

\* Every step keeps the types: a block is written into a file that is there, what is
\* found and sent never exceeds the size of the version.
THEOREM TypeStep ==
    ASSUME CommitTypeOK, WritesToFile, CommitNext
    PROVE  CommitTypeOK'
<1> USE DEF FileSystems
<1>n. /\ op.kind \in Kinds /\ op.version \in Versions /\ op.overwrite \in BOOLEAN
      /\ Temp[op.kind] \in Names /\ Backup[op.kind] \in Names
      /\ Size[op.version] \in Nat /\ "dest" \in Names BY OwnNames, NamesDiffer
<1>f. files \in FileSystems BY DEF CommitTypeOK
<1>d. Done \in CommitStages /\ Broken \in CommitStages BY DEF Done, Broken, CommitStages
<1>1. ASSUME NEW kind \in Kinds, NEW v \in Versions, NEW overwrite \in BOOLEAN, Start(kind, v, overwrite)
      PROVE  CommitTypeOK'
  <2>1. Size[v] \in Nat BY SizeAssumption
  <2>2. op' \in Ops /\ op'.version = v BY <1>1 DEF Start, Ops
  <2>3. offset' \in 0 .. Size[op'.version] BY <1>1, <2>1, <2>2 DEF Start
  <2>4. truncate' \in BOOLEAN /\ existed' \in BOOLEAN /\ foreign' \in BOOLEAN BY <1>1 DEF Start
  <2>5. mode' \in Modes /\ before' \in Files \cup {None} /\ pc' \in CommitStages
    BY <1>1, <1>f, <1>n DEF Start, Modes, CommitStages
  <2> QED BY <1>1, <2>2, <2>3, <2>4, <2>5 DEF Start, CommitTypeOK
<1>2. CASE InitSftp BY <1>2, <1>f, CallTyped DEF InitSftp, Step, CommitStages
<1>3. CASE StatDestination
  <2>1. PICK found \in BOOLEAN :
          /\ CallEnds(found, Exists("dest"), files) /\ History
          /\ existed' = found
          /\ mode' = IF found THEN LstatMode(files["dest"]) ELSE "default"
          /\ pc' = IF found /\ ~op.overwrite THEN "cleanup" ELSE "open" BY <1>3 DEF StatDestination
  <2>2. files' = files /\ faults' \in Nat /\ (found => Exists("dest")) BY <2>1, CallChanges DEF CommitTypeOK
  <2>3. last' \in Seq(Versions) \cup {None} BY <2>1, <2>2, <1>f, HistoryTyped
  <2>4. mode' \in Modes BY <2>1, <2>2, <1>f, <1>n DEF LstatMode, Exists, Files, Modes
  <2>5. pc' \in CommitStages BY <2>1 DEF CommitStages
  <2> QED BY <1>3, <2>1, <2>2, <2>3, <2>4, <2>5 DEF StatDestination, Step, CommitTypeOK
<1>4. CASE StatTemporary
  <2> DEFINE size(found) == IF found THEN Len(files["part"].data) ELSE 0
  <2>1. PICK found \in BOOLEAN :
          /\ CallEnds(found, Exists("part"), files) /\ History
          /\ offset' = IF size(found) <= Size[op.version] THEN size(found) ELSE 0
          /\ truncate' = (size(found) > Size[op.version]) BY <1>4 DEF StatTemporary
  <2>2. files' = files /\ faults' \in Nat /\ (found => Exists("part")) BY <2>1, CallChanges DEF CommitTypeOK
  <2>3. last' \in Seq(Versions) \cup {None} BY <2>1, <2>2, <1>f, HistoryTyped
  <2>4. "part" \in Names BY DEF Names, Kinds, Temp
  <2>5. size(found) \in Nat BY <2>2, <2>4, <1>f DEF Exists, Files
  <2>6. offset' \in 0 .. Size[op.version] BY <2>1, <2>5, <1>n
  <2>7. truncate' \in BOOLEAN BY <2>1
  <2>8. pc' \in CommitStages /\ UNCHANGED <<server, linked, op, existed, mode, before, foreign>>
    BY <1>4 DEF StatTemporary, Step, CommitStages
  <2> HIDE DEF size
  <2> QED BY <2>2, <2>3, <2>6, <2>7, <2>8 DEF CommitTypeOK
<1>5. CASE OpenTemporary
  <2>1. PICK m \in {mode, "default"} :
          /\ Call(TRUE, [files EXCEPT ![Temp[op.kind]] = OpenedFile(m)], "write", Broken)
          /\ foreign' = \E i \in DOMAIN OpenedFile(m).data : OpenedFile(m).data[i] # op.version
    BY <1>5 DEF OpenTemporary
  <2>2. m \in Modes BY DEF CommitTypeOK, Modes
  <2>3. [files EXCEPT ![Temp[op.kind]] = OpenedFile(m)] \in FileSystems BY <1>f, <1>n, <2>2, OpenedTyped
  <2>4. files' \in FileSystems /\ pc' \in CommitStages /\ faults' \in Nat /\ History
    BY <2>1, <2>3, <1>f, <1>d DEF Call, CallEnds, Fault, CommitTypeOK, CommitStages
  <2>5. last' \in Seq(Versions) \cup {None} BY <2>4, HistoryTyped
  <2>6. foreign' \in BOOLEAN BY <2>1
  <2> QED BY <1>5, <2>4, <2>5, <2>6 DEF OpenTemporary, Step, CommitTypeOK
<1>6. CASE Write
  <2> DEFINE effect == [files EXCEPT ![Temp[op.kind]].data = Put(@, op.version)]
  <2>1. PICK ok \in BOOLEAN :
          /\ CallEnds(ok, TRUE, effect) /\ History
          /\ offset' = IF ok THEN offset + 1 ELSE offset
          /\ pc' = IF ok THEN "write" ELSE Broken BY <1>6 DEF Write
  <2>2. files[Temp[op.kind]] \in Files BY <1>6, <1>f, <1>n DEF Write, Step, WritesToFile, Exists
  <2>3. Put(files[Temp[op.kind]].data, op.version) \in Seq(Versions) BY <2>2, <1>n, PutTyped DEF Files
  <2>4. effect \in FileSystems BY <2>2, <2>3, <1>f, <1>n DEF Files
  <2>5. files' \in FileSystems /\ faults' \in Nat BY <2>1, <2>4, <1>f DEF CallEnds, Fault, CommitTypeOK
  <2>6. last' \in Seq(Versions) \cup {None} BY <2>1, <2>5, HistoryTyped
  <2>7. offset' \in 0 .. Size[op.version] BY <2>1, <1>6, <1>n DEF Write, CommitTypeOK
  <2>8. pc' \in CommitStages BY <2>1, <1>d DEF CommitStages
  <2> QED BY <1>6, <2>5, <2>6, <2>7, <2>8 DEF Write, Step, CommitTypeOK
<1>7. CASE Canceled \/ Written BY <1>7, <1>d DEF Canceled, Written, CommitStages, Step, CommitTypeOK, locals
<1>8. CASE Sync BY <1>8, <1>d, <1>f, CallTyped DEF Sync, Step, CommitStages
<1>9. CASE RestorePermissions
  <2>1. CASE ~Exists("dest")
    BY <1>9, <2>1, <1>f, CallSteps, HistoryTyped DEF RestorePermissions, CommitTypeOK, CommitStages, Step, locals
  <2>2. CASE Exists("dest")
    BY <2>2, <1>f, <1>n, <1>9, CallTyped DEF Exists, CommitTypeOK, Files, RestorePermissions, Step, CommitStages
  <2> QED BY <2>1, <2>2
<1>10. CASE Cleanup BY <1>10, <1>f, <1>n, EffectsTyped, CallTyped DEF Cleanup, Step, CommitStages
<1>11. CASE PosixRename BY <1>11, <1>f, <1>n, <1>d, EffectsTyped, CallTyped DEF PosixRename, Step, CommitStages
<1>12. CASE OverwritingRename BY <1>12, <1>f, <1>n, <1>d, EffectsTyped, CallTyped DEF OverwritingRename, Step, CommitStages
<1>13. CASE LookForDestination BY <1>13, <1>f, CallTyped DEF LookForDestination, Step, CommitStages
<1>14. CASE CommitPlainly
  BY <1>14, <1>f, <1>n, <1>d, EffectsTyped, CallTyped DEF CommitPlainly, PlainRename, Step, CommitStages
<1>15. CASE ClearBackup BY <1>15, <1>f, <1>n, EffectsTyped, CallTyped DEF ClearBackup, Step, CommitStages
<1>16. CASE BackUp BY <1>16, <1>f, <1>n, <1>d, EffectsTyped, CallTyped DEF BackUp, PlainRename, Step, CommitStages
<1>17. CASE CommitBehindBackup
  BY <1>17, <1>f, <1>n, EffectsTyped, CallTyped DEF CommitBehindBackup, PlainRename, Step, CommitStages
<1>18. CASE DropBackup BY <1>18, <1>f, <1>n, <1>d, EffectsTyped, CallTyped DEF DropBackup, Step, CommitStages
<1>19. CASE RollBack BY <1>19, <1>f, <1>n, <1>d, EffectsTyped, CallTyped DEF RollBack, PlainRename, Step, CommitStages
<1>20. CASE RemovePath
  <2>1. PICK ok \in BOOLEAN : CallEnds(ok, TRUE, Removed("dest")) BY <1>20 DEF RemovePath
  <2>2. files' \in FileSystems /\ faults' \in Nat
    BY <2>1, <1>f, <1>n, EffectsTyped DEF CallEnds, Fault, CommitTypeOK
  <2> QED BY <1>20, <2>2 DEF RemovePath, CommitTypeOK, CommitStages, locals
<1>21. CASE LinkLost \/ Reconnect
  <2>1. linked' \in BOOLEAN BY <1>21 DEF LinkLost, Reconnect
  <2>2. UNCHANGED <<server, files, pc, op, offset, truncate, existed, mode, before, foreign, last>>
    BY <1>21 DEF LinkLost, Reconnect, locals
  <2>3. faults' \in Nat BY <1>21 DEF LinkLost, Reconnect, Fault, CommitTypeOK
  <2> QED BY <2>1, <2>2, <2>3 DEF CommitTypeOK
<1>22. ASSUME NEW v \in Versions, OthersCreate(v)
       PROVE  CommitTypeOK' BY <1>22, <1>f, <1>n, CompleteTyped DEF OthersCreate, Fault, CommitTypeOK, locals
<1> QED
  BY <1>1, <1>2, <1>3, <1>4, <1>5, <1>6, <1>7, <1>8, <1>9, <1>10, <1>11, <1>12, <1>13, <1>14, <1>15, <1>16,
     <1>17, <1>18, <1>19, <1>20, <1>21, <1>22 DEF CommitNext, Transfer, CommitSteps, Environment

----
(* The inductive invariant. *)

\* The history variable holds what the file holds.
LastIsDest == Exists("dest") => last = files["dest"].data

\* While a backup may be cleared or dropped the file is there; while it is not,
\* between the two renames, the operation's own backup holds its contents.
HeldBack ==
    /\ pc \in {"clear", "backup", "drop"} => Exists("dest")
    /\ pc \in {"move", "rollback"} /\ ~Exists("dest") =>
          Exists(Backup[op.kind]) /\ files[Backup[op.kind]].data = last

\* No temporary file has a block beyond the size of the version it belongs to;
\* so one that holds a single version is not longer than that.
BlocksFit ==
    \A k \in Kinds : Exists(Temp[k]) =>
        \A i \in DOMAIN files[Temp[k]].data : i <= Size[files[Temp[k]].data[i]]

\* Until it writes, an operation has sent nothing but what it found.  While it
\* writes, what it has sent is in its temporary file, and nothing else unless it
\* is an upload that found blocks of another version.
Filling ==
    /\ op.kind = "save" => truncate /\ ~foreign
    /\ pc \in {"init", "stat"} => offset = 0
    /\ pc = "open" /\ offset > 0 =>
          ~truncate /\ Exists(Temp[op.kind]) /\ offset <= Len(files[Temp[op.kind]].data)
    /\ pc = "write" =>
          LET data == files[Temp[op.kind]].data
          IN  offset <= Len(data) /\ (~foreign => \A i \in DOMAIN data : data[i] = op.version)

\* While it commits, its temporary file is complete unless it has been moved.
Committing == {"sync", "posix", "overwrite", "lstat", "plain", "clear", "backup", "move"}
Filled ==
    pc \in Committing /\ Exists(Temp[op.kind]) =>
        foreign \/ files[Temp[op.kind]].data = Complete(op.version)

\* After the commit the file is what the operation wanted.
Committed ==
    pc \in {"drop", "setstat", "saved"} =>
        Exists("dest") /\ (foreign \/ files["dest"].data = Complete(op.version))

\* An operation that creates a file takes no step of the replacing commit.
NewFile ==
    ~op.overwrite =>
        /\ pc \in {"idle", "saved", "failed", "init", "stat", "open", "write", "sync", "plain", "cleanup"}
        /\ existed => pc \in {"cleanup", "failed", "idle"}

CommitInv == CommitTypeOK /\ WritesToFile /\ LastIsDest /\ NeverLost /\ HeldBack /\ BlocksFit /\ Filling /\ Filled /\ Committed /\ NewFile

----
(* What the steps do to the files. *)

\* The commit removes temporary files, it never writes one.
LEMMA CommitEffects ==
    ASSUME CommitTypeOK, CommitSteps
    PROVE  /\ \A k \in Kinds : files'[Temp[k]] = files[Temp[k]] \/ files'[Temp[k]] = None
           /\ UNCHANGED <<server, linked, locals>> /\ History
<1>n. /\ Temp[op.kind] \in Names /\ Backup[op.kind] \in Names /\ op.kind \in Kinds /\ "dest" \in Names
  BY OwnNames, NamesDiffer
<1>f. files \in FileSystems BY DEF CommitTypeOK, FileSystems
<1>1. UNCHANGED <<server, linked, locals>> /\ History
  BY DEF CommitSteps, PosixRename, OverwritingRename, LookForDestination, CommitPlainly, ClearBackup, BackUp,
         CommitBehindBackup, DropBackup, RollBack, PlainRename, Call, Step
<1>2. \/ files' = files
      \/ files' = Renamed(Temp[op.kind], "dest")
      \/ files' = Renamed("dest", Backup[op.kind])
      \/ files' = Renamed(Backup[op.kind], "dest")
      \/ files' = Removed(Backup[op.kind])
  BY DEF CommitSteps, PosixRename, OverwritingRename, LookForDestination, CommitPlainly, ClearBackup, BackUp,
         CommitBehindBackup, DropBackup, RollBack, PlainRename, Call, CallEnds
<1> QED BY <1>n, <1>f, <1>1, <1>2, NamesDiffer, RenameMoves, RemoveRemoves

\* Before the commit an operation touches its temporary file only; the
\* permissions of the file come after it.
LEMMA TransferEffects ==
    ASSUME CommitTypeOK, WritesToFile, LastIsDest, Transfer
    PROVE  /\ \A k \in Kinds : files'[Backup[k]] = files[Backup[k]]
           /\ \A k \in Kinds : k # op.kind => files'[Temp[k]] = files[Temp[k]]
           /\ \/ files'["dest"] = files["dest"]
              \/ RestorePermissions /\ Exists("dest") /\ files'["dest"] = [files["dest"] EXCEPT !.mode = mode]
           /\ History /\ UNCHANGED <<server, linked, op>>
<1>n. /\ Temp[op.kind] \in Names /\ op.kind \in Kinds /\ "dest" \in Names BY OwnNames, NamesDiffer
<1>f. files \in FileSystems BY DEF CommitTypeOK, FileSystems
<1>1. UNCHANGED <<server, linked, op>>
  BY DEF Transfer, InitSftp, StatDestination, StatTemporary, OpenTemporary, Write, Canceled, Written, Sync,
         RestorePermissions, Cleanup, Step, locals
<1>2. History
  <2>1. (Canceled \/ Written) => History BY DEF Canceled, Written, History, LastIsDest, Exists
  <2> QED BY <2>1 DEF Transfer, InitSftp, StatDestination, StatTemporary, OpenTemporary, Write, Sync,
                      RestorePermissions, Cleanup, Call
<1>3. CASE ~RestorePermissions
  <2>1. \/ files' = files
        \/ files' = Removed(Temp[op.kind])
        \/ \E f : files' = [files EXCEPT ![Temp[op.kind]] = f]
    BY <1>3 DEF Transfer, InitSftp, StatDestination, StatTemporary, OpenTemporary, Write, Canceled, Written, Sync,
         Cleanup, Call, CallEnds
  <2> QED BY <2>1, <1>n, <1>f, <1>1, <1>2, NamesDiffer, RemoveRemoves DEF FileSystems
<1>4. CASE RestorePermissions
  BY <1>4, <1>n, <1>f, <1>1, <1>2, NamesDiffer DEF RestorePermissions, Call, CallEnds, FileSystems
<1> QED BY <1>3, <1>4

----
(* Each part of the invariant is kept by every step. *)

\* A step is one of an operation, or one of its surroundings, whose effect on the
\* file and the history is told in full.
LEMMA NextCases ==
    ASSUME CommitTypeOK, CommitNext
    PROVE  \/ Transfer \/ CommitSteps
           \/ UNCHANGED <<files, last>> /\ (LinkLost \/ Reconnect \/ pc' = "init")
           \/ RemovePath /\ pc' = "idle" /\ (files' = files \/ files' = Removed("dest"))
                         /\ last' = IF files'["dest"] = None THEN None ELSE last
           \/ \E v \in Versions : /\ OthersCreate(v) /\ UNCHANGED <<pc, locals>>
                                  /\ files["dest"] = None /\ last' = Complete(v)
                                  /\ files' = [files EXCEPT !["dest"] = Regular(Complete(v), "own")]
<1>1. ASSUME RemovePath
      PROVE  files' = files \/ files' = Removed("dest") BY <1>1 DEF RemovePath, CallEnds
<1> QED BY <1>1 DEF CommitNext, Environment, Start, RemovePath, LinkLost, Reconnect, OthersCreate, Exists

\* LastIsDest is kept: every step that changes the file keeps the books.
LEMMA KeepsLastIsDest ==
    ASSUME CommitInv, CommitNext
    PROVE  LastIsDest'
<1>n. files \in FileSystems /\ "dest" \in Names /\ CommitTypeOK BY NamesDiffer DEF CommitInv, CommitTypeOK, FileSystems
<1>1. CASE Transfer \/ CommitSteps BY <1>1, CommitEffects, TransferEffects DEF CommitInv, History, LastIsDest, Exists
<1>2. CASE UNCHANGED <<files, last>> BY <1>2 DEF CommitInv, LastIsDest, Exists
<1>3. CASE /\ files' = files \/ files' = Removed("dest")
           /\ last' = IF files'["dest"] = None THEN None ELSE last
  BY <1>3, <1>n, RemoveRemoves DEF CommitInv, LastIsDest, Exists
<1>4. ASSUME NEW v \in Versions, last' = Complete(v),
             files' = [files EXCEPT !["dest"] = Regular(Complete(v), "own")]
      PROVE  LastIsDest' BY <1>4, <1>n DEF LastIsDest, Regular, FileSystems
<1> QED BY <1>1, <1>2, <1>3, <1>4, <1>n, NextCases

\* NeverLost is kept: a commit moves the file away only into a backup, and clears
\* a backup only while the file is there.
LEMMA KeepsNeverLost ==
    ASSUME CommitInv, CommitNext
    PROVE  NeverLost'
<1>n. /\ files \in FileSystems /\ "dest" \in Names /\ CommitTypeOK
      /\ Temp[op.kind] \in Names /\ Backup[op.kind] \in Names /\ op.kind \in Kinds
  BY NamesDiffer, OwnNames DEF CommitInv, CommitTypeOK, FileSystems
<1>0. ASSUME History, \A k \in Kinds : files'[Backup[k]] = files[Backup[k]],
             files'["dest"] = None => files["dest"] = None
      PROVE  NeverLost' BY <1>0 DEF CommitInv, NeverLost, History, Exists
<1>1. CASE Transfer
  <2>1. files'["dest"] = None => files["dest"] = None
    BY <1>n, <1>1, NoneAssumption, TransferEffects DEF Exists, FileSystems, CommitTypeOK, Files, CommitInv
  <2> QED BY <2>1, <1>0, <1>1, TransferEffects DEF CommitInv
<1>2. CASE CommitSteps
  <2>h. History BY <1>2, <1>n, CommitEffects
  <2>e. Exists("dest")' => NeverLost' BY DEF NeverLost
  <2>1. CASE files' = files BY <2>1, <1>0, <2>h
  <2>2. CASE files' = Renamed(Temp[op.kind], "dest") /\ Exists(Temp[op.kind])
    BY <2>2, <2>e, <1>n, NamesDiffer, RenameMoves DEF Exists
  <2>3. CASE files' = Renamed(Backup[op.kind], "dest") /\ Exists(Backup[op.kind])
    BY <2>3, <2>e, <1>n, NamesDiffer, RenameMoves DEF Exists
  <2>4. CASE files' = Removed(Backup[op.kind]) /\ Exists("dest")
    BY <2>4, <2>e, <1>n, NamesDiffer, RemoveRemoves DEF Exists
  <2>5. CASE files' = Renamed("dest", Backup[op.kind]) /\ Exists("dest")
    BY <2>5, <1>n, <2>h, NamesDiffer, RenameMoves DEF History, CommitInv, LastIsDest, NeverLost, Exists
  <2>6. \/ files' = files
        \/ files' = Renamed(Temp[op.kind], "dest") /\ Exists(Temp[op.kind])
        \/ files' = Renamed("dest", Backup[op.kind]) /\ Exists("dest")
        \/ files' = Renamed(Backup[op.kind], "dest") /\ Exists(Backup[op.kind])
        \/ files' = Removed(Backup[op.kind]) /\ Exists("dest")
    BY <1>2 DEF CommitSteps, PosixRename, OverwritingRename, LookForDestination, CommitPlainly, ClearBackup, BackUp,
         CommitBehindBackup, DropBackup, RollBack, PlainRename, Call, CallEnds, Step, CommitInv, HeldBack
  <2> QED BY <2>1, <2>2, <2>3, <2>4, <2>5, <2>6
<1>3. CASE UNCHANGED <<files, last>> BY <1>3 DEF CommitInv, NeverLost, Exists
<1>4. CASE /\ files' = files \/ files' = Removed("dest")
           /\ last' = IF files'["dest"] = None THEN None ELSE last
  BY <1>4, <1>n, RemoveRemoves DEF CommitInv, NeverLost, Exists
<1>5. ASSUME NEW v \in Versions, files' = [files EXCEPT !["dest"] = Regular(Complete(v), "own")]
      PROVE  NeverLost' BY <1>5, <1>n, CompleteTyped, NoneAssumption DEF FileSystems, NeverLost, Exists
<1> QED BY <1>1, <1>2, <1>3, <1>4, <1>5, <1>n, NextCases

\* HeldBack is kept: what the fallbacks know of the file when they touch its backup.
LEMMA KeepsHeldBack ==
    ASSUME CommitInv, CommitNext
    PROVE  HeldBack'
<1>n. /\ files \in FileSystems /\ "dest" \in Names /\ CommitTypeOK
      /\ Temp[op.kind] \in Names /\ Backup[op.kind] \in Names /\ op.kind \in Kinds
  BY NamesDiffer, OwnNames DEF CommitInv, CommitTypeOK, FileSystems
<1>1. CASE Transfer
  <2>1. pc' \notin {"clear", "backup", "move", "drop", "rollback"}
    BY <1>1 DEF Transfer, InitSftp, StatDestination, StatTemporary, OpenTemporary, Write, Canceled, Written, Sync,
         RestorePermissions, Cleanup, Call, Broken
  <2> QED BY <2>1 DEF HeldBack
<1>2. CASE CommitSteps
  <2>1. op' = op /\ History BY <1>2, <1>n, CommitEffects DEF locals
  <2>2. CASE PosixRename \/ OverwritingRename \/ CommitPlainly \/ DropBackup \/ RollBack
    <3>1. pc' \notin {"clear", "backup", "move", "drop", "rollback"}
      BY <2>2 DEF PosixRename, OverwritingRename, CommitPlainly, DropBackup, RollBack, PlainRename, Call, Done, Broken
    <3> QED BY <3>1 DEF HeldBack
  <2>3. CASE LookForDestination BY <2>3 DEF LookForDestination, Call, CallEnds, HeldBack, Exists
  <2>4. CASE ClearBackup
    <3>1. pc' = "backup" /\ (files' = files \/ files' = Removed(Backup[op.kind])) /\ Exists("dest")
      BY <2>4 DEF ClearBackup, Step, Call, CallEnds, CommitInv, HeldBack
    <3> QED BY <3>1, <1>n, NamesDiffer, RemoveRemoves DEF HeldBack, Exists
  <2>5. CASE BackUp
    <3>1. CASE pc' = "move"
      <4>1. files' = Renamed("dest", Backup[op.kind]) /\ Exists("dest")
        BY <2>5, <3>1 DEF BackUp, PlainRename, Call, CallEnds, Broken
      <4>2. files'[Backup[op.kind]] = files["dest"] /\ files'["dest"] = None
        BY <4>1, <1>n, NamesDiffer, RenameMoves
      <4>3. last' = files["dest"].data BY <4>1, <4>2, <2>1 DEF History, CommitInv, LastIsDest
      <4> QED BY <2>1, <3>1, <4>1, <4>2, <4>3 DEF HeldBack, Exists
    <3>2. CASE pc' # "move" BY <2>5, <3>2 DEF BackUp, PlainRename, Call, Broken, HeldBack
    <3> QED BY <3>1, <3>2
  <2>6. CASE CommitBehindBackup
    <3>1. /\ pc = "move" /\ pc' \in {"drop", "rollback"}
          /\ (files' = files /\ pc' = "rollback")
                \/ (files' = Renamed(Temp[op.kind], "dest") /\ Exists(Temp[op.kind]))
      BY <2>6 DEF CommitBehindBackup, Step, PlainRename, Call, CallEnds
    <3>2. CASE files' = files /\ pc' = "rollback" BY <2>1, <3>1, <3>2 DEF HeldBack, CommitInv, Exists, History
    <3>3. CASE files' = Renamed(Temp[op.kind], "dest") /\ Exists(Temp[op.kind])
      BY <3>3, <1>n, <3>1, NamesDiffer, RenameMoves DEF Exists, HeldBack
    <3> QED BY <3>1, <3>2, <3>3
  <2> QED BY <1>2, <2>2, <2>3, <2>4, <2>5, <2>6 DEF CommitSteps
<1>3. CASE UNCHANGED <<files, last>> /\ (LinkLost \/ Reconnect \/ pc' = "init")
  BY <1>3 DEF LinkLost, Reconnect, CommitInv, HeldBack, Exists, locals
<1>4. CASE pc' = "idle" BY <1>4 DEF HeldBack
<1>5. ASSUME NEW v \in Versions, UNCHANGED <<pc, locals>>,
             files' = [files EXCEPT !["dest"] = Regular(Complete(v), "own")]
      PROVE  HeldBack' BY <1>5, <1>n, CompleteTyped, NoneAssumption DEF Exists, FileSystems, HeldBack
<1> QED BY <1>1, <1>2, <1>3, <1>4, <1>5, <1>n, NextCases

\* NewFile is kept: only the plain rename commits a file that must be new.
LEMMA KeepsNewFile ==
    ASSUME CommitInv, CommitNext
    PROVE  NewFile'
<1>n. CommitTypeOK /\ op.overwrite \in BOOLEAN BY OwnNames DEF CommitInv
<1>1. ASSUME NEW kind \in Kinds, NEW v \in Versions, NEW overwrite \in BOOLEAN, Start(kind, v, overwrite)
      PROVE  NewFile' BY <1>1 DEF Start, NewFile
<1>2. CASE InitSftp BY <1>2 DEF InitSftp, Step, Call, locals, CommitInv, NewFile
<1>3. CASE StatDestination BY <1>3 DEF StatDestination, Step, CommitInv, NewFile
<1>4. CASE StatTemporary BY <1>4 DEF StatTemporary, Step, CommitInv, NewFile
<1>5. CASE OpenTemporary BY <1>5 DEF OpenTemporary, Step, Call, Broken, CommitInv, NewFile
<1>6. CASE Write \/ Canceled \/ Written BY <1>6 DEF Write, Canceled, Written, Step, Broken, locals, CommitInv, NewFile
<1>7. CASE Sync \/ Cleanup BY <1>7 DEF Sync, Cleanup, Step, Call, Broken, locals, CommitInv, NewFile
<1>8. CASE RestorePermissions BY <1>8 DEF RestorePermissions, Step, locals, CommitInv, NewFile
<1>9. CASE CommitSteps
  <2>1. UNCHANGED locals BY <1>9, <1>n, CommitEffects
  <2>2. CASE CommitPlainly
    BY <2>1, <2>2 DEF CommitPlainly, PlainRename, Step, Call, Done, Broken, locals, CommitInv, NewFile
  <2>3. CASE ~CommitPlainly
    <3>1. pc \in {"posix", "overwrite", "lstat", "clear", "backup", "move", "drop", "rollback"}
      BY <1>9, <2>3 DEF CommitSteps, PosixRename, OverwritingRename, LookForDestination, ClearBackup, BackUp,
         CommitBehindBackup, DropBackup, RollBack, Step
    <3> QED BY <2>1, <3>1 DEF locals, CommitInv, NewFile
  <2> QED BY <2>2, <2>3
<1>10. CASE RemovePath BY <1>10 DEF RemovePath, Idle, locals, CommitInv, NewFile
<1>11. CASE LinkLost \/ Reconnect BY <1>11 DEF LinkLost, Reconnect, locals, CommitInv, NewFile
<1>12. ASSUME NEW v \in Versions, OthersCreate(v)
       PROVE  NewFile' BY <1>12 DEF OthersCreate, locals, CommitInv, NewFile
<1> QED
  BY <1>1, <1>2, <1>3, <1>4, <1>5, <1>6, <1>7, <1>8, <1>9, <1>10, <1>11, <1>12 DEF CommitNext, Transfer, Environment

\* BlocksFit is kept: blocks are only sent while some of the version are left.
LEMMA KeepsBlocksFit ==
    ASSUME CommitInv, CommitNext
    PROVE  BlocksFit'
<1>n. /\ files \in FileSystems /\ "dest" \in Names /\ CommitTypeOK
      /\ Temp[op.kind] \in Names /\ op.kind \in Kinds /\ op.version \in Versions /\ Size[op.version] \in Nat
  BY NamesDiffer, OwnNames DEF CommitInv, CommitTypeOK, FileSystems
<1> DEFINE Fits(f) == \A i \in DOMAIN f.data : i <= Size[f.data[i]]
<1>0. ASSUME \A k \in Kinds : \/ files'[Temp[k]] = files[Temp[k]]
                              \/ files'[Temp[k]] = None
                              \/ Fits(files'[Temp[k]])
      PROVE  BlocksFit' BY <1>0 DEF CommitInv, BlocksFit, Exists
<1>1. CASE CommitSteps BY <1>0, <1>1, <1>n, CommitEffects
<1>2. CASE Transfer
  <2>0. ASSUME \/ files'[Temp[op.kind]] = files[Temp[op.kind]]
               \/ files'[Temp[op.kind]] = None
               \/ Fits(files'[Temp[op.kind]])
        PROVE  BlocksFit' BY <1>0, <1>2, <2>0, <1>n, TransferEffects DEF CommitInv
  <2>1. CASE OpenTemporary
    <3>1. PICK m \in {mode, "default"} :
            Call(TRUE, [files EXCEPT ![Temp[op.kind]] = OpenedFile(m)], "write", Broken)
      BY <2>1 DEF OpenTemporary
    <3>2. files' = files \/ files' = [files EXCEPT ![Temp[op.kind]] = OpenedFile(m)] BY <3>1 DEF Call, CallEnds
    <3>3. OpenedFile(m).data = <<>> \/ (Exists(Temp[op.kind]) /\ OpenedFile(m).data = files[Temp[op.kind]].data)
      BY <1>n DEF OpenedFile, Regular, Exists, FileSystems, Files
    <3>4. Fits(OpenedFile(m)) BY <3>3, <1>n DEF CommitInv, BlocksFit
    <3> HIDE DEF Fits
    <3> QED BY <2>0, <3>2, <3>4, <1>n DEF FileSystems
  <2>2. CASE Write
    <3> DEFINE old == files[Temp[op.kind]]  new == [old EXCEPT !.data = Put(old.data, op.version)]
    <3>1. /\ pc = "write" /\ offset < Size[op.version]
          /\ files' = files \/ files' = [files EXCEPT ![Temp[op.kind]] = new] BY <2>2 DEF Write, Step, CallEnds
    <3>2. old \in Files /\ Fits(old) /\ offset <= Len(old.data)
      BY <3>1, <1>n DEF CommitInv, WritesToFile, Exists, FileSystems, BlocksFit, Filling
    <3>3. new.data = Put(old.data, op.version) BY <3>2 DEF Files
    <3>4. old.data \in Seq(Versions) /\ offset \in Nat BY <3>2, <1>n DEF Files, CommitTypeOK
    <3>5. Fits(new)
      <4> DEFINE d == old.data
      <4>1. \A i \in DOMAIN d : i <= Size[d[i]] BY <3>2
      <4>2. d \in Seq(Versions) /\ offset <= Len(d) BY <3>2, <3>4
      <4> HIDE DEF d
      <4>3. \A i \in DOMAIN Put(d, op.version) : i <= Size[Put(d, op.version)[i]]
        BY <4>1, <4>2, <3>1, <3>4, <1>n DEF Put
      <4> QED BY <3>3, <4>3 DEF d
    <3> HIDE DEF new, Fits
    <3> QED BY <2>0, <3>1, <3>5, <1>n DEF FileSystems
  <2>3. CASE Cleanup BY <2>3, <2>0, <1>n, RemoveRemoves DEF Cleanup, Call, CallEnds
  <2>4. CASE RestorePermissions BY <2>4, <2>0, <1>n, NamesDiffer DEF RestorePermissions, Call, CallEnds, FileSystems
  <2>5. CASE InitSftp \/ StatDestination \/ StatTemporary \/ Canceled \/ Written \/ Sync
    <3>1. files' = files
      BY <2>5 DEF InitSftp, StatDestination, StatTemporary, Canceled, Written, Sync, Call, CallEnds
    <3> QED BY <2>0, <3>1
  <2> QED BY <1>2, <2>1, <2>2, <2>3, <2>4, <2>5 DEF Transfer
<1>3. CASE files' = files BY <1>0, <1>3
<1>4. CASE files' = Removed("dest") BY <1>0, <1>4, <1>n, NamesDiffer, RemoveRemoves
<1>5. ASSUME NEW v \in Versions, files' = [files EXCEPT !["dest"] = Regular(Complete(v), "own")]
      PROVE  BlocksFit' BY <1>0, <1>5, <1>n, NamesDiffer DEF FileSystems
<1> QED BY <1>1, <1>2, <1>3, <1>4, <1>5, <1>n, NextCases

\* Filling is kept: the loops send block after block to where the last one ended.
LEMMA KeepsFilling ==
    ASSUME CommitInv, CommitNext
    PROVE  WritesToFile' /\ Filling'
<1>n. /\ files \in FileSystems /\ "dest" \in Names /\ CommitTypeOK /\ "part" \in Names
      /\ Temp[op.kind] \in Names /\ op.kind \in Kinds /\ op.version \in Versions /\ Size[op.version] \in Nat
  BY NamesDiffer, OwnNames DEF CommitInv, CommitTypeOK, FileSystems, Names, Temp, Kinds
<1>0. ASSUME pc' \notin {"init", "stat", "open", "write"}, op' = op, truncate' = truncate, foreign' = foreign
      PROVE  WritesToFile' /\ Filling' BY <1>0 DEF CommitInv, WritesToFile, Filling
<1>1. ASSUME NEW kind \in Kinds, NEW v \in Versions, NEW overwrite \in BOOLEAN, Start(kind, v, overwrite)
      PROVE  WritesToFile' /\ Filling' BY <1>1 DEF Start, WritesToFile, Filling
<1>2. CASE InitSftp
  <2>1. files' = files /\ UNCHANGED locals /\ pc = "init" /\ pc' \in {"stat", "failed"}
    BY <1>2 DEF InitSftp, Step, Call, CallEnds
  <2> QED BY <2>1 DEF CommitInv, WritesToFile, Filling, locals
<1>3. CASE StatDestination BY <1>3 DEF StatDestination, Step, CommitInv, WritesToFile, Filling
<1>4. CASE StatTemporary
  <2>1. PICK found \in BOOLEAN :
          /\ CallEnds(found, Exists("part"), files)
          /\ LET size == IF found THEN Len(files["part"].data) ELSE 0
             IN  /\ offset' = IF size <= Size[op.version] THEN size ELSE 0
                 /\ truncate' = (size > Size[op.version]) BY <1>4 DEF StatTemporary
  <2>2. files' = files /\ (found => Exists("part")) BY <2>1 DEF CallEnds
  <2>3. pc' = "open" /\ op' = op /\ foreign' = foreign /\ op.kind = "upload" BY <1>4 DEF StatTemporary
  <2>4. Temp[op.kind] = "part" BY <2>3 DEF Temp, Kinds
  <2>5. offset' > 0 => found /\ ~truncate' /\ offset' = Len(files["part"].data)
    <3> SUFFICES ASSUME offset' > 0 PROVE found /\ ~truncate' /\ offset' = Len(files["part"].data) OBVIOUS
    <3> DEFINE size == IF found THEN Len(files["part"].data) ELSE 0
    <3>1. /\ offset' = IF size <= Size[op.version] THEN size ELSE 0
          /\ truncate' = (size > Size[op.version]) BY <2>1
    <3>2. found => Len(files["part"].data) \in Nat BY <2>2, <1>n DEF Exists, FileSystems, Files
    <3>3. size <= Size[op.version] /\ found BY <3>1, <3>2, <1>n
    <3>4. ~(size > Size[op.version]) /\ offset' = Len(files["part"].data) BY <3>1, <3>2, <3>3, <1>n
    <3> HIDE DEF size
    <3> QED BY <3>1, <3>3, <3>4, Zenon
  <2>6. Exists("part") => Len(files["part"].data) \in Nat BY <1>n DEF Exists, FileSystems, Files
  <2> QED BY <2>2, <2>3, <2>4, <2>5, <2>6 DEF WritesToFile, Filling, Exists
<1>5. CASE OpenTemporary
  <2>1. PICK m \in {mode, "default"} :
          /\ Call(TRUE, [files EXCEPT ![Temp[op.kind]] = OpenedFile(m)], "write", Broken)
          /\ foreign' = \E i \in DOMAIN OpenedFile(m).data : OpenedFile(m).data[i] # op.version
    BY <1>5 DEF OpenTemporary
  <2>2. m \in Modes /\ OpenedFile(m) \in Files BY <1>n, OpenedTyped DEF CommitTypeOK, Modes
  <2>3. UNCHANGED <<op, offset, truncate>> /\ pc = "open" BY <1>5 DEF OpenTemporary, Step
  <2>4. OpenedFile(m).data = IF truncate \/ ~Exists(Temp[op.kind]) THEN <<>> ELSE files[Temp[op.kind]].data
    BY <1>n DEF OpenedFile, Regular, Exists, FileSystems, Files
  <2>5. op.kind = "save" => ~foreign' BY <2>1, <2>4 DEF CommitInv, Filling
  <2>6. CASE pc' = "write"
    <3>1. files'[Temp[op.kind]] = OpenedFile(m) BY <2>1, <2>6, <1>n DEF Call, CallEnds, Broken, FileSystems
    <3>2. offset <= Len(OpenedFile(m).data) BY <2>2, <2>3, <2>4, <1>n DEF Files, CommitInv, Filling, CommitTypeOK
    <3>3. OpenedFile(m) # None BY <2>2, NoneAssumption
    <3> QED BY <2>1, <2>3, <2>5, <2>6, <3>1, <3>2, <3>3 DEF CommitInv, WritesToFile, Filling, Exists
  <2>7. CASE pc' # "write" BY <2>1, <2>7, <2>3, <2>5 DEF Call, Broken, CommitInv, WritesToFile, Filling
  <2> QED BY <2>6, <2>7
<1>6. CASE Write
  <2> DEFINE old == files[Temp[op.kind]]  new == [old EXCEPT !.data = Put(old.data, op.version)]
  <2>1. /\ pc = "write" /\ offset < Size[op.version] /\ UNCHANGED <<op, truncate, foreign>>
        /\ \/ pc' = "write" /\ offset' = offset + 1 /\ files' = [files EXCEPT ![Temp[op.kind]] = new]
           \/ pc' = Broken BY <1>6 DEF Write, Step, CallEnds
  <2>2. CASE pc' = Broken BY <1>0, <2>1, <2>2 DEF Broken
  <2>3. CASE pc' = "write" /\ offset' = offset + 1 /\ files' = [files EXCEPT ![Temp[op.kind]] = new]
    <3>1. old \in Files /\ offset <= Len(old.data)
      BY <2>1, <1>n DEF CommitInv, WritesToFile, Exists, FileSystems, Filling
    <3>2. old.data \in Seq(Versions) /\ offset \in Nat BY <3>1, <1>n DEF Files, CommitTypeOK
    <3>3. new \in Files /\ new.data = Put(old.data, op.version) BY <3>1, <3>2, <1>n, PutTyped DEF Files
    <3>4. ~foreign => \A i \in DOMAIN old.data : old.data[i] = op.version BY <2>1 DEF CommitInv, Filling
    <3>5. /\ offset + 1 <= Len(new.data)
          /\ ~foreign => \A i \in DOMAIN new.data : new.data[i] = op.version
      <4> DEFINE d == old.data
      <4>1. d \in Seq(Versions) /\ offset <= Len(d) BY <3>1, <3>2
      <4>2. ~foreign => \A i \in DOMAIN d : d[i] = op.version BY <3>4
      <4> HIDE DEF d
      <4>3. offset + 1 <= Len(Put(d, op.version)) BY <4>1, <3>2, <1>n DEF Put
      <4>4. ~foreign => \A i \in DOMAIN Put(d, op.version) : Put(d, op.version)[i] = op.version
        BY <4>1, <4>2, <3>2, <1>n DEF Put
      <4> QED BY <3>3, <4>3, <4>4 DEF d
    <3>6. files'[Temp[op.kind]] = new BY <2>3, <1>n DEF FileSystems
    <3>7. new # None BY <3>3, NoneAssumption
    <3> HIDE DEF new
    <3> QED BY <2>1, <2>3, <3>5, <3>6, <3>7 DEF CommitInv, WritesToFile, Filling, Exists
  <2> QED BY <2>1, <2>2, <2>3
<1>7. CASE Canceled \/ Written \/ Sync \/ RestorePermissions \/ Cleanup
  <2>1. pc' \notin {"init", "stat", "open", "write"}
    BY <1>7 DEF Canceled, Written, Sync, RestorePermissions, Cleanup, Call, Broken
  <2>2. UNCHANGED locals BY <1>7 DEF Canceled, Written, Sync, RestorePermissions, Cleanup
  <2> QED BY <1>0, <2>1, <2>2 DEF locals
<1>8. CASE CommitSteps
  <2>1. UNCHANGED locals BY <1>8, <1>n, CommitEffects
  <2>2. pc' \notin {"init", "stat", "open", "write"}
    BY <1>8 DEF CommitSteps, PosixRename, OverwritingRename, LookForDestination, CommitPlainly, ClearBackup, BackUp,
         CommitBehindBackup, DropBackup, RollBack, PlainRename, Call, Done, Broken
  <2> QED BY <1>0, <2>1, <2>2 DEF locals
<1>9. CASE RemovePath BY <1>0, <1>9 DEF RemovePath, locals
<1>10. CASE LinkLost \/ Reconnect
  <2>1. UNCHANGED <<files, pc, locals>> BY <1>10 DEF LinkLost, Reconnect
  <2> QED BY <2>1 DEF locals, CommitInv, WritesToFile, Filling, Exists
<1>11. ASSUME NEW v \in Versions, OthersCreate(v)
       PROVE  WritesToFile' /\ Filling'
  <2>1. UNCHANGED <<pc, locals>> /\ files' = [files EXCEPT !["dest"] = Regular(Complete(v), "own")]
    BY <1>11 DEF OthersCreate
  <2>2. files'[Temp[op.kind]] = files[Temp[op.kind]] BY <2>1, <1>n, NamesDiffer DEF FileSystems
  <2> QED BY <2>1, <2>2 DEF locals, CommitInv, WritesToFile, Filling, Exists
<1> QED
  BY <1>1, <1>2, <1>3, <1>4, <1>5, <1>6, <1>7, <1>8, <1>9, <1>10, <1>11 DEF CommitNext, Transfer, Environment

\* Filled is kept: an operation begins to commit when all blocks are sent, and then
\* no step writes to its temporary file.
LEMMA KeepsFilled ==
    ASSUME CommitInv, CommitNext
    PROVE  Filled'
<1>n. /\ files \in FileSystems /\ "dest" \in Names /\ CommitTypeOK
      /\ Temp[op.kind] \in Names /\ op.kind \in Kinds /\ op.version \in Versions /\ Size[op.version] \in Nat
  BY NamesDiffer, OwnNames DEF CommitInv, CommitTypeOK, FileSystems
<1>0. ASSUME pc' \notin Committing PROVE Filled' BY <1>0 DEF Filled
<1>1. CASE Transfer
  <2>1. CASE Written
    <3>1. /\ pc = "write" /\ pc' = "sync" /\ offset = Size[op.version]
          /\ UNCHANGED <<files, op, foreign>> BY <2>1 DEF Written, Step, locals
    <3> DEFINE d == files[Temp[op.kind]].data
    <3>2. d \in Seq(Versions) /\ offset <= Len(d) /\ (~foreign => \A i \in DOMAIN d : d[i] = op.version)
      BY <3>1, <1>n DEF CommitInv, WritesToFile, Exists, FileSystems, Files, Filling
    <3>3. \A i \in DOMAIN d : i <= Size[d[i]] BY <3>1, <1>n DEF CommitInv, WritesToFile, BlocksFit
    <3> HIDE DEF d
    <3>4. ~foreign => d = Complete(op.version)
      <4> SUFFICES ASSUME ~foreign PROVE d = Complete(op.version) OBVIOUS
      <4>1. Len(d) <= Size[op.version] BY <1>n, <3>2, <3>3
      <4>2. Len(d) = Size[op.version] BY <3>1, <3>2, <4>1, <1>n
      <4> QED BY <3>2, <4>2 DEF Complete
    <3> QED BY <3>1, <3>4 DEF Filled, d
  <2>2. CASE Sync
    <3>1. pc = "sync" /\ UNCHANGED <<files, op, foreign>> BY <2>2 DEF Sync, Step, Call, CallEnds, locals
    <3> QED BY <3>1 DEF CommitInv, Filled, Committing, Exists
  <2>3. CASE ~Written /\ ~Sync
    <3>1. pc' \notin Committing
      BY <1>1, <2>3 DEF Transfer, InitSftp, StatDestination, StatTemporary, OpenTemporary, Write, Canceled,
         RestorePermissions, Cleanup, Call, Broken, Committing
    <3> QED BY <1>0, <3>1
  <2> QED BY <2>1, <2>2, <2>3
<1>2. CASE CommitSteps
  <2>1. /\ files'[Temp[op.kind]] = files[Temp[op.kind]] \/ files'[Temp[op.kind]] = None
        /\ UNCHANGED <<op, foreign>> BY <1>2, <1>n, CommitEffects DEF locals
  <2>2. pc \in Committing \/ pc' \notin Committing
    BY <1>2 DEF CommitSteps, PosixRename, OverwritingRename, LookForDestination, CommitPlainly, ClearBackup, BackUp,
         CommitBehindBackup, DropBackup, RollBack, PlainRename, Call, Done, Broken, Step, Committing
  <2> QED BY <2>1, <2>2 DEF CommitInv, Filled, Exists
<1>3. CASE UNCHANGED <<files, last>> /\ (LinkLost \/ Reconnect \/ pc' = "init")
  BY <1>0, <1>3 DEF LinkLost, Reconnect, CommitInv, Filled, Exists, Committing, locals
<1>4. CASE pc' = "idle" BY <1>0, <1>4 DEF Committing
<1>5. ASSUME NEW v \in Versions, UNCHANGED <<pc, locals>>,
             files' = [files EXCEPT !["dest"] = Regular(Complete(v), "own")]
      PROVE  Filled' BY <1>5, <1>n, NamesDiffer DEF FileSystems, CommitInv, Filled, Exists, locals
<1> QED BY <1>1, <1>2, <1>3, <1>4, <1>5, <1>n, NextCases

\* Committed is kept: each way to a success ends with the temporary file in place.
LEMMA KeepsCommitted ==
    ASSUME CommitInv, CommitNext
    PROVE  Committed'
<1>n. /\ files \in FileSystems /\ "dest" \in Names /\ CommitTypeOK
      /\ Temp[op.kind] \in Names /\ Backup[op.kind] \in Names /\ op.kind \in Kinds
  BY NamesDiffer, OwnNames DEF CommitInv, CommitTypeOK, FileSystems
<1>0. ASSUME pc' \notin {"drop", "setstat", "saved"} PROVE Committed' BY <1>0 DEF Committed
<1>1. CASE Transfer
  <2>1. CASE RestorePermissions
    <3>1. pc = "setstat" /\ UNCHANGED <<op, foreign>> BY <2>1 DEF RestorePermissions, Step, locals
    <3>2. Exists("dest") /\ (foreign \/ files["dest"].data = Complete(op.version)) BY <3>1 DEF CommitInv, Committed
    <3>3. files["dest"] \in Files /\ mode \in Modes BY <3>2, <1>n DEF Exists, FileSystems, CommitTypeOK
    <3>4. files' = files \/ files'["dest"] = [files["dest"] EXCEPT !.mode = mode]
      BY <1>1, <2>1, <1>n DEF RestorePermissions, Call, CallEnds, FileSystems
    <3>5. /\ [files["dest"] EXCEPT !.mode = mode] # None
          /\ [files["dest"] EXCEPT !.mode = mode].data = files["dest"].data BY <3>3, NoneAssumption DEF Files
    <3> QED BY <3>1, <3>2, <3>4, <3>5 DEF Committed, Exists
  <2>2. CASE ~RestorePermissions
    <3>1. pc' \notin {"drop", "setstat", "saved"}
      BY <1>1, <2>2 DEF Transfer, InitSftp, StatDestination, StatTemporary, OpenTemporary, Write, Canceled, Written,
         Sync, Cleanup, Call, Broken
    <3> QED BY <1>0, <3>1
  <2> QED BY <2>1, <2>2
<1>2. CASE CommitSteps
  <2>1. UNCHANGED <<op, foreign>> BY <1>2, <1>n, CommitEffects DEF locals
  <2>2. ASSUME pc \in Committing, Exists(Temp[op.kind]), files' = Renamed(Temp[op.kind], "dest")
        PROVE  Committed' BY <2>2, <1>n, <2>1, NamesDiffer, RenameMoves DEF CommitInv, Filled, Committed, Exists
  <2>3. CASE PosixRename \/ OverwritingRename \/ CommitPlainly \/ CommitBehindBackup
    <3>1. /\ pc \in Committing
          /\ \/ pc' \notin {"drop", "setstat", "saved"}
             \/ Exists(Temp[op.kind]) /\ files' = Renamed(Temp[op.kind], "dest")
      BY <2>3 DEF PosixRename, OverwritingRename, CommitPlainly, CommitBehindBackup, PlainRename, Step, Call,
         CallEnds, Broken, Committing
    <3> QED BY <1>0, <2>2, <3>1
  <2>4. CASE LookForDestination \/ ClearBackup \/ BackUp \/ RollBack
    BY <1>0, <2>4 DEF LookForDestination, ClearBackup, BackUp, RollBack, PlainRename, Call, Broken
  <2>5. CASE DropBackup
    <3>1. pc = "drop" /\ (files' = files \/ files' = Removed(Backup[op.kind]))
      BY <2>5 DEF DropBackup, Step, Call, CallEnds
    <3>2. files'["dest"] = files["dest"] BY <3>1, <1>n, NamesDiffer, RemoveRemoves
    <3> QED BY <2>1, <3>1, <3>2 DEF CommitInv, Committed, Exists
  <2> QED BY <1>2, <2>3, <2>4, <2>5 DEF CommitSteps
<1>3. CASE UNCHANGED <<files, last>> /\ (LinkLost \/ Reconnect \/ pc' = "init")
  BY <1>0, <1>3 DEF LinkLost, Reconnect, CommitInv, Committed, Exists, locals
<1>4. CASE pc' = "idle" BY <1>0, <1>4
<1>5. ASSUME NEW v \in Versions, OthersCreate(v)
      PROVE  Committed' BY <1>5, <1>0 DEF OthersCreate, Exists, CommitInv, Committed
<1> QED BY <1>1, <1>2, <1>3, <1>4, <1>5, <1>n, NextCases

----
(* The theorems. *)

\* The invariant holds in the beginning.
LEMMA InitInv == CommitInit => CommitInv
<1> SUFFICES ASSUME CommitInit PROVE CommitInv OBVIOUS
<1>a. linked = TRUE /\ truncate = FALSE /\ existed = FALSE /\ foreign = FALSE BY DEF CommitInit
<1>b. linked \in BOOLEAN /\ truncate \in BOOLEAN /\ existed \in BOOLEAN /\ foreign \in BOOLEAN BY <1>a
<1>1. PICK dest \in {None} \cup {[data |-> Complete(v), mode |-> "own", symlink |-> s] :
                                    v \in Versions, s \in BOOLEAN} :
         /\ files = [n \in Names |-> IF n = "dest" THEN dest ELSE None]
         /\ before = dest
         /\ last = IF dest = None THEN None ELSE dest.data BY DEF CommitInit
<1>2. dest \in Files \cup {None} BY <1>1, CompleteTyped DEF Files, Modes
<1>3. files["dest"] = dest /\ \A n \in Names : n # "dest" => files[n] = None BY <1>1, NamesDiffer
<1>4. op \in Ops /\ op.kind = "upload" /\ op.overwrite BY DEF CommitInit
<1>5. Size[op.version] \in Nat BY <1>4, SizeAssumption DEF Ops
<1>6. last \in Seq(Versions) \cup {None} BY <1>1, <1>2 DEF Files
<1>7. CommitTypeOK BY <1>1, <1>2, <1>5, <1>b, <1>4, <1>6 DEF CommitInit, CommitStages, Modes, CommitTypeOK
<1>8. WritesToFile /\ HeldBack /\ Filling /\ Filled /\ Committed /\ NewFile
  BY <1>4 DEF CommitInit, WritesToFile, HeldBack, Filling, Filled, Committing, Committed, NewFile
<1>9. LastIsDest /\ NeverLost BY <1>1, <1>3 DEF LastIsDest, NeverLost, Exists
<1>10. BlocksFit BY <1>3, NamesDiffer DEF BlocksFit, Exists
<1> QED BY <1>7, <1>8, <1>9, <1>10 DEF CommitInv

\* Every step keeps the invariant.
LEMMA StepInv == CommitInv /\ [CommitNext]_commitVars => CommitInv'
<1> SUFFICES ASSUME CommitInv, [CommitNext]_commitVars PROVE CommitInv' OBVIOUS
<1>1. CASE CommitNext
  <2>1. CommitTypeOK' BY <1>1, TypeStep DEF CommitInv
  <2> QED
    BY <1>1, <2>1, KeepsLastIsDest, KeepsNeverLost, KeepsHeldBack, KeepsNewFile, KeepsBlocksFit, KeepsFilling,
       KeepsFilled, KeepsCommitted DEF CommitInv
<1>2. CASE UNCHANGED commitVars
  BY <1>2 DEF commitVars, locals, CommitInv, CommitTypeOK, WritesToFile, LastIsDest, NeverLost, HeldBack, BlocksFit, Filling, Filled,
       Committed, NewFile, Exists
<1> QED BY <1>1, <1>2

\* The invariant holds always.
THEOREM CommitInvariance == CommitSpec => []CommitInv
BY InitInv, StepInv, PTL DEF CommitSpec

\* The types hold always: no call leaves a malformed file, no loop sends more than
\* the data holds.
THEOREM CommitTypeCorrect == CommitSpec => []CommitTypeOK
<1>1. CommitInv => CommitTypeOK BY DEF CommitInv
<1> QED BY <1>1, CommitInvariance, PTL

\* At every instant the latest contents of the file are in place or in a backup,
\* whichever calls of whichever operations failed.
THEOREM NothingLost == CommitSpec => []NeverLost
<1>1. CommitInv => NeverLost BY DEF CommitInv
<1> QED BY <1>1, CommitInvariance, PTL

\* What an operation reports as saved or uploaded is there and complete.
THEOREM SavedCorrect == CommitSpec => []SavedMeansSaved
<1>1. CommitInv => SavedMeansSaved
  <2> SUFFICES ASSUME CommitInv PROVE SavedMeansSaved OBVIOUS
  <2>1. foreign => Mixes BY OwnNames DEF CommitInv, Filling, Mixes, Kinds
  <2> QED BY <2>1 DEF CommitInv, Committed, SavedMeansSaved
<1> QED BY <1>1, CommitInvariance, PTL

\* The ways in which a commit changes the file, and on which conditions.
LEMMA CommitCases ==
    ASSUME CommitInv, CommitSteps
    PROVE  \/ files'["dest"] = files["dest"]
           \/ files'["dest"] = None /\ op.overwrite
           \/ files'["dest"].data = last /\ ~Exists("dest")
           \/ /\ pc \in Committing /\ Exists(Temp[op.kind])
              /\ files'["dest"] = files[Temp[op.kind]]
              /\ op.overwrite \/ ~Exists("dest")
<1>n. /\ files \in FileSystems /\ "dest" \in Names /\ CommitTypeOK
      /\ Temp[op.kind] \in Names /\ Backup[op.kind] \in Names /\ op.kind \in Kinds
  BY NamesDiffer, OwnNames DEF CommitInv, CommitTypeOK, FileSystems
<1>1. \/ files' = files
      \/ /\ files' = Renamed(Temp[op.kind], "dest") /\ Exists(Temp[op.kind])
         /\ pc \in Committing /\ (pc = "plain" => ~Exists("dest"))
      \/ files' = Renamed("dest", Backup[op.kind]) /\ pc = "backup"
      \/ files' = Renamed(Backup[op.kind], "dest") /\ pc = "rollback" /\ ~Exists("dest")
      \/ files' = Removed(Backup[op.kind])
  BY DEF CommitSteps, PosixRename, OverwritingRename, LookForDestination, CommitPlainly, ClearBackup, BackUp,
       CommitBehindBackup, DropBackup, RollBack, PlainRename, Call, CallEnds, Step, Committing
<1>2. pc # "plain" /\ CommitSteps => op.overwrite
  BY DEF CommitSteps, PosixRename, OverwritingRename, LookForDestination, CommitPlainly, ClearBackup, BackUp,
       CommitBehindBackup, DropBackup, RollBack, Step, CommitInv, NewFile
<1>3. CASE /\ files' = Renamed(Temp[op.kind], "dest") /\ Exists(Temp[op.kind])
           /\ pc \in Committing /\ (pc = "plain" => ~Exists("dest"))
  BY <1>2, <1>3, <1>n, NamesDiffer, RenameMoves
<1>4. CASE files' = Renamed("dest", Backup[op.kind]) /\ pc = "backup"
  BY <1>2, <1>4, <1>n, NamesDiffer, RenameMoves
<1>5. CASE files' = Renamed(Backup[op.kind], "dest") /\ pc = "rollback" /\ ~Exists("dest")
  BY <1>5, <1>n, NamesDiffer, RenameMoves DEF CommitInv, HeldBack
<1>6. CASE files' = Removed(Backup[op.kind]) BY <1>6, <1>n, NamesDiffer, RemoveRemoves
<1> QED BY <1>1, <1>3, <1>4, <1>5, <1>6

\* No step tears the file: every new content is a complete version or the latest
\* contents, but for an upload that went on after blocks of another version.
THEOREM NeverTornCorrect == CommitSpec => NeverTorn
<1> DEFINE A == files'["dest"] # files["dest"] /\ files'["dest"] # None =>
                  \/ \E v \in Versions : files'["dest"].data = Complete(v)
                  \/ files'["dest"].data = last
                  \/ ~Idle /\ Mixes
<1>1. ASSUME CommitInv, CommitNext PROVE A
  <2>n. CommitTypeOK /\ files \in FileSystems /\ "dest" \in Names /\ op.kind \in Kinds /\ op.version \in Versions
    BY <1>1, NamesDiffer, OwnNames DEF CommitInv, CommitTypeOK, FileSystems
  <2>1. CASE Transfer BY <2>n, <1>1, <2>1, TransferEffects DEF Exists, FileSystems, Files, CommitInv, LastIsDest
  <2>2. CASE CommitSteps
    <3>1. ASSUME pc \in Committing, Exists(Temp[op.kind]), files'["dest"] = files[Temp[op.kind]]
          PROVE  A
      <4>1. foreign \/ files'["dest"].data = Complete(op.version) BY <1>1, <3>1 DEF CommitInv, Filled
      <4>2. foreign => Mixes BY <1>1, <2>n DEF CommitInv, Filling, Mixes, Kinds
      <4> QED BY <2>n, <3>1, <4>1, <4>2 DEF Idle, Committing
    <3> HIDE DEF A
    <3>2. (\/ files'["dest"] = files["dest"] \/ files'["dest"] = None \/ files'["dest"].data = last) => A BY DEF A
    <3> QED BY <1>1, <2>2, <3>1, <3>2, CommitCases
  <2>3. CASE files' = files BY <2>3
  <2>4. CASE files' = Removed("dest") BY <2>4, <2>n, RemoveRemoves
  <2>5. ASSUME NEW v \in Versions, files' = [files EXCEPT !["dest"] = Regular(Complete(v), "own")]
        PROVE  A BY <2>5, <2>n DEF FileSystems, Regular
  <2> QED BY <1>1, <2>1, <2>2, <2>3, <2>4, <2>5, <2>n, NextCases
<1>2. CommitInv /\ [CommitNext]_commitVars => [A]_commitVars BY <1>1
<1> QED BY <1>2, CommitInvariance, PTL DEF CommitSpec, NeverTorn

\* An operation that creates a file leaves one that exists as it is.
THEOREM KeepsExistingCorrect == CommitSpec => KeepsExisting
<1> DEFINE A == ~Idle /\ ~op.overwrite /\ Exists("dest") => files'["dest"] = files["dest"]
<1>1. ASSUME CommitInv, CommitNext, ~Idle, ~op.overwrite, Exists("dest") PROVE files'["dest"] = files["dest"]
  <2>1. CASE Transfer BY <1>1, <2>1, TransferEffects DEF RestorePermissions, Step, CommitInv, NewFile
  <2>2. CASE CommitSteps BY <1>1, <2>2, CommitCases
  <2>3. CASE Environment BY <1>1, <2>3 DEF Environment, RemovePath, LinkLost, Reconnect, OthersCreate
  <2> QED BY <1>1, <2>1, <2>2, <2>3 DEF CommitNext, Start
<1>2. CommitInv /\ [CommitNext]_commitVars => [A]_commitVars BY <1>1
<1> QED BY <1>2, CommitInvariance, PTL DEF CommitSpec, KeepsExisting
----
(* Permissions. *)

\* As long as nothing went wrong the link is up, a save replaces the file it began
\* with, and it carries that file's permissions until they are set.
Late == {"open", "write", "sync", "drop", "setstat"} \cup Committing
CarriesMode ==
    /\ linked
    /\ op.kind = "save" =>
          /\ pc \in {"init", "stat"} => files["dest"] = before
          /\ pc \in Late => (existed <=> before # None) /\ (existed => mode = LstatMode(before))
          /\ pc = "setstat" => existed
          /\ pc = "saved" /\ before # None => files["dest"].mode = LstatMode(before)
Unfaulted == faults = 0 => CarriesMode

\* A call that met no fault was carried out and answered, if it could be, and
\* failed otherwise.
LEMMA AnsweredUnfaulted ==
    ASSUME NEW ok \in BOOLEAN, NEW allowed \in BOOLEAN, NEW effect, CallEnds(ok, allowed, effect),
           CommitTypeOK, faults' = 0, linked
    PROVE  /\ faults = 0 /\ (ok <=> allowed)
           /\ files' = IF allowed THEN effect ELSE files
BY DEF CommitTypeOK, CallEnds, Fault

\* A step that leaves the locals and, if it is not the last one of a save, the
\* file alone keeps what a save knows.
LEMMA CarriesOn ==
    ASSUME CarriesMode, UNCHANGED <<linked, locals>>, pc \in Late,
           pc' \in Late \/ pc' \in {"cleanup", "failed"}, pc' = "setstat" => existed
    PROVE  CarriesMode' BY DEF CarriesMode, Late, Committing, locals

\* A commit is over when the permissions it should set are set or there are none.
LEMMA CommitEnds ==
    ASSUME CarriesMode, UNCHANGED <<linked, locals>>, pc \in Late, pc' = Done
    PROVE  CarriesMode'
BY CarriesOn DEF Done, Late, CarriesMode, locals

\* Unfaulted is kept: a save looks at the file it will replace before anyone else
\* touches it, and sets what it saw when the new file is in place.
LEMMA KeepsUnfaulted ==
    ASSUME CommitInv, Unfaulted, CommitNext
    PROVE  Unfaulted'
<1> SUFFICES ASSUME faults' = 0 PROVE CarriesMode' BY DEF Unfaulted
<1>n. /\ CommitTypeOK /\ files \in FileSystems /\ "dest" \in Names /\ op.kind \in Kinds /\ faults \in Nat
      /\ existed \in BOOLEAN BY NamesDiffer, OwnNames DEF CommitInv, CommitTypeOK, FileSystems
<1>0. faults = 0 /\ ~Fault
  <2>1. faults' = faults \/ faults' = faults + 1
    <3>1. CASE Transfer
      BY <3>1 DEF Transfer, InitSftp, StatDestination, StatTemporary, OpenTemporary, Write, Canceled, Written, Sync,
         RestorePermissions, Cleanup, Call, CallEnds, Fault
    <3>2. CASE CommitSteps
      BY <3>2 DEF CommitSteps, PosixRename, OverwritingRename, LookForDestination, CommitPlainly, ClearBackup, BackUp,
         CommitBehindBackup, DropBackup, RollBack, PlainRename, Call, CallEnds, Fault
    <3> QED BY <3>1, <3>2 DEF CommitNext, Environment, Start, RemovePath, CallEnds, LinkLost, Reconnect, OthersCreate, Fault
  <2> QED BY <2>1, <1>n DEF Fault
<1>c. CarriesMode /\ linked BY <1>0 DEF Unfaulted, CarriesMode
<1>1. ASSUME NEW kind \in Kinds, NEW v \in Versions, NEW overwrite \in BOOLEAN, Start(kind, v, overwrite)
      PROVE  CarriesMode' BY <1>1, <1>c DEF Start, CarriesMode, Late, Committing
<1>2. CASE InitSftp
  <2>1. /\ pc = "init" /\ pc' \in {"stat", "failed"} /\ files' = files /\ UNCHANGED <<linked, locals>>
    BY <1>2 DEF InitSftp, Step, Call, CallEnds
  <2> QED BY <2>1, <1>c DEF CarriesMode, Late, Committing, locals
<1>3. CASE StatDestination
  <2>1. PICK found \in BOOLEAN :
          /\ CallEnds(found, Exists("dest"), files)
          /\ existed' = found
          /\ mode' = IF found THEN LstatMode(files["dest"]) ELSE "default"
          /\ pc' = IF found /\ ~op.overwrite THEN "cleanup" ELSE "open" BY <1>3 DEF StatDestination
  <2>2. found <=> files["dest"] # None BY <2>1, <1>n, <1>c, AnsweredUnfaulted DEF Exists
  <2>3. pc = "stat" /\ op.kind = "save" /\ UNCHANGED <<linked, op, before>> BY <1>3 DEF StatDestination, Step
  <2>4. files["dest"] = before BY <2>3, <1>c DEF CarriesMode
  <2> QED BY <2>1, <2>2, <2>3, <2>4, <1>c DEF CarriesMode, Late, Committing, LstatMode
<1>4. CASE StatTemporary BY <1>4, <1>c DEF StatTemporary, Step, CarriesMode
<1>5. CASE OpenTemporary \/ Write
  <2>1. pc \in {"open", "write"} /\ UNCHANGED <<linked, op, existed, mode, before>>
    BY <1>5 DEF OpenTemporary, Write, Step
  <2>2. pc' \in {"write", "cleanup", "failed"} BY <1>5 DEF OpenTemporary, Write, Call, Broken
  <2> QED BY <2>1, <2>2, <1>c DEF CarriesMode, Late, Committing
<1>6. CASE Canceled \/ Written \/ Sync
  <2>1. pc \in {"write", "sync"} /\ UNCHANGED <<linked, locals>> BY <1>6 DEF Canceled, Written, Sync, Step
  <2>2. pc' \in {"sync", "posix", "plain", "cleanup", "failed"}
    BY <1>6 DEF Canceled, Written, Sync, Call, Broken
  <2> QED BY <2>1, <2>2, <1>c, CarriesOn DEF Late, Committing
<1>7. CASE RestorePermissions
  <2>1. pc = "setstat" /\ pc' = "saved" /\ UNCHANGED <<linked, locals>>
    BY <1>7 DEF RestorePermissions, Step, Call
  <2>2. Exists("dest") BY <2>1 DEF CommitInv, Committed
  <2>3. files' = [files EXCEPT !["dest"].mode = mode]
    BY <1>7, <2>2, <1>n, <1>c, AnsweredUnfaulted DEF RestorePermissions, Call
  <2>4. files["dest"] \in Files BY <2>2, <1>n DEF Exists, FileSystems
  <2>5. files'["dest"].mode = mode BY <2>3, <2>4, <1>n DEF FileSystems, Files
  <2> QED BY <2>1, <2>5, <1>c DEF CarriesMode, Late, Committing, locals
<1>8. CASE Cleanup
  <2>1. pc' = "failed" /\ UNCHANGED <<linked, locals>> BY <1>8 DEF Cleanup, Step, Call
  <2> QED BY <2>1, <1>c DEF CarriesMode, Late, Committing, locals
<1>9. CASE CommitSteps
  <2>1. UNCHANGED <<linked, locals>> BY <1>9, <1>n, CommitEffects
  <2>2. /\ pc \in Late \ {"setstat"} \/ pc = "rollback"
        /\ \/ pc' = Done /\ pc # "rollback"
           \/ pc' \in Committing \cup {"drop", "cleanup", "failed"} /\ pc # "rollback"
           \/ pc' \in {"cleanup", "failed", "rollback"}
    BY <1>9 DEF CommitSteps, PosixRename, OverwritingRename, LookForDestination, CommitPlainly, ClearBackup, BackUp,
       CommitBehindBackup, DropBackup, RollBack, PlainRename, Call, Broken, Step, Late, Committing
  <2>3. CASE pc' = Done /\ pc # "rollback" BY <2>1, <2>2, <2>3, <1>c, CommitEnds
  <2>4. CASE pc' \in Committing \cup {"drop", "cleanup", "failed"} /\ pc # "rollback"
    BY <2>1, <2>2, <2>4, <1>c, CarriesOn DEF Late, Committing
  <2>5. CASE pc' \in {"cleanup", "failed", "rollback"}
    BY <2>1, <2>5, <1>c DEF CarriesMode, Late, Committing, locals
  <2> QED BY <2>2, <2>3, <2>4, <2>5
<1>10. CASE Environment
  <2>1. CASE RemovePath BY <2>1, <1>c DEF RemovePath, CarriesMode, Late, Committing, locals
  <2>2. ~Reconnect BY <1>c DEF Reconnect
  <2> QED BY <2>1, <2>2, <1>10, <1>0 DEF Environment, LinkLost, OthersCreate
<1> QED BY <1>1, <1>2, <1>3, <1>4, <1>5, <1>6, <1>7, <1>8, <1>9, <1>10 DEF CommitNext, Transfer

\* A save keeps the permissions of the file it replaces, if nothing failed and the
\* file is no link.
THEOREM PermissionsCorrect == CommitSpec => []PermissionsKept
<1>1. CommitInit => Unfaulted BY DEF CommitInit, Unfaulted, CarriesMode, Late, Committing
<1>2. CommitInv /\ Unfaulted /\ [CommitNext]_commitVars => Unfaulted'
  BY KeepsUnfaulted DEF commitVars, locals, Unfaulted, CarriesMode
<1>3. CommitInv /\ Unfaulted => PermissionsKept
  <2> SUFFICES ASSUME CommitInv, Unfaulted PROVE PermissionsKept OBVIOUS
  <2> QED BY DEF Unfaulted, CarriesMode, PermissionsKept, LstatMode
<1> QED BY <1>1, <1>2, <1>3, CommitInvariance, PTL DEF CommitSpec
================================================================================
