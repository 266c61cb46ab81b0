----------------------------- MODULE TransferQueue -----------------------------
(***************************************************************************)
(* The transfer queue of one SSH session: uploads and downloads wait in    *)
(* m_transferQueue, one at a time is active and runs as a blocking loop in *)
(* Libssh2Worker.  The user cancels and retries tasks by their id; the     *)
(* active one is canceled by an atomic, m_cancelTransferId, that the       *)
(* worker reads before each block.  A task keeps its id when it is         *)
(* retried, and an id of an earlier connection is told by its generation.  *)
(*                                                                         *)
(* Ids grow and tasks are appended, so the queue is a function from ids to *)
(* states and its order is that of the ids.  The blocks a loop moves are   *)
(* only counted; their contents, the temporary file and its commit are not *)
(* the queue's business.  That a request may have to wait for the          *)
(* management channel is a choice here (ManagementChannel says when).      *)
(***************************************************************************)
EXTENDS Naturals, Sequences, FiniteSets, FiniteSetsExt

CONSTANTS
    Capacity,        \* tasks kept before finished ones are evicted (100 in the code)
    Blocks,          \* blocks of the longest file
    MaxTasks,        \* bound on the tasks of a session
    MaxTimers,       \* bound on retries within the 70 ms of a simulated transfer
    MaxConnections   \* bound on the connection generations

ASSUME CapacityAssumption == Capacity \in Nat \ {0}
ASSUME BoundAssumption == Blocks \in Nat \ {0} /\ MaxTasks \in Nat /\ MaxTimers \in Nat /\ MaxConnections \in Nat

Ids == 1 .. MaxTasks
Ended == {"completed", "failed", "canceled"}     \* TransferState
States == Ended \cup {"none", "queued", "running"}
Stages == {"idle", "begin", "check", "io", "commit"}
WorkerEvents == [op : {"connect", "disconnect"}, gen : Nat] \cup [op : {"transfer"}, id : Ids]
GuiEvents == [type : {"up", "down"}, gen : Nat] \cup [type : Ended, id : Ids]

VARIABLES
    up, tgen, demo,   \* m_connected, m_transportGeneration (0 none), m_demo
    lastId, base,     \* ids given out; those up to base are of earlier connections
    task,             \* m_transferQueue: [Ids -> States], "none" if not in it
    uploads,          \* the tasks that are uploads
    canceling,        \* the tasks shown as being canceled
    active,           \* m_activeTransferTaskId (0 none)
    startDue,         \* a zero timer for startNextTransfer is pending
    demoTimers,       \* transfers a demo session simulates, oldest first
    cancelId, wgen,   \* the worker's atomics m_cancelTransferId, m_connectionGeneration
    wup, wactive,     \* the worker's m_connected, m_activeConnectionGeneration
    stage, wjob,      \* where uploadFile or downloadFile is, and with which task
    left,             \* blocks still to be moved
    deferred,         \* requests waiting in a 40 ms timer, with their generation
    toWorker, toGui   \* queued events

link == <<up, tgen, demo, wgen>>
tasks == <<task, uploads, canceling, lastId, base>>
loop == <<stage, wjob, left>>
gui == <<link, tasks, active, startDue, demoTimers>>
worker == <<wup, wactive, loop, deferred>>
vars == <<gui, cancelId, worker, toWorker, toGui>>

Init ==
    /\ up = FALSE /\ tgen = 0 /\ demo = TRUE
    /\ lastId = 0 /\ base = 0
    /\ task = [i \in Ids |-> "none"] /\ uploads = {} /\ canceling = {}
    /\ active = 0 /\ startDue = FALSE /\ demoTimers = <<>>
    /\ cancelId = 0 /\ wgen = 1
    /\ wup = FALSE /\ wactive = 1
    /\ stage = "idle" /\ wjob = 0 /\ left = 0 /\ deferred = {}
    /\ toWorker = <<>> /\ toGui = <<>>

In(t, states) == {i \in Ids : t[i] \in states}

-----------------------------------------------------------------------------
(* The GUI thread: the queue. *)

\* startNextTransfer, the queue being t: the first queued task becomes active.
StartNext(t) ==
    \/ /\ active # 0 \/ ~up \/ In(t, {"queued"}) = {}
       /\ task' = t
       /\ UNCHANGED <<active, canceling, demoTimers, toWorker>>
    \/ /\ active = 0 /\ up /\ In(t, {"queued"}) # {}
       /\ active' = Min(In(t, {"queued"}))
       /\ task' = [t EXCEPT ![active'] = "running"]
       /\ canceling' = canceling \ {active'}
       /\ IF demo THEN demoTimers' = Append(demoTimers, active') /\ UNCHANGED toWorker
          ELSE toWorker' = Append(toWorker, [op |-> "transfer", id |-> active']) /\ UNCHANGED demoTimers

\* Faulty: a full queue drops its oldest task, whatever its state.
EvictOldest ==
    IF Cardinality(In(task, States \ {"none"})) < Capacity THEN task
    ELSE [task EXCEPT ![Min(In(task, States \ {"none"}))] = "none"]

\* A full queue drops its first finished task, if it has one.
Evict ==
    IF Cardinality(In(task, States \ {"none"})) < Capacity \/ In(task, Ended) = {} THEN task
    ELSE [task EXCEPT ![Min(In(task, Ended))] = "none"]

\* uploadFile or downloadFile of the session, by the file panel.
Enqueue(upload) ==
    /\ up /\ lastId < MaxTasks
    /\ lastId' = lastId + 1
    /\ uploads' = IF upload THEN uploads \cup {lastId'} ELSE uploads
    /\ StartNext([Evict EXCEPT ![lastId'] = "queued"])
    /\ UNCHANGED <<link, base, startDue, cancelId, worker, toGui>>

FinishActive(state) ==
    /\ task' = [task EXCEPT ![active] = state]
    /\ canceling' = canceling \ {active}
    /\ active' = 0
    /\ startDue' = TRUE

CancelQueued(i) ==
    /\ task[i] = "queued"
    /\ task' = [task EXCEPT ![i] = "canceled"]
    /\ UNCHANGED <<link, uploads, canceling, lastId, base, active, startDue, demoTimers, cancelId,
                   worker, toWorker, toGui>>

\* Faulty: the task is given up at once, the worker may still be at it.
CancelRunningAtOnce(i) ==
    /\ task[i] = "running"
    /\ FinishActive("canceled")
    /\ cancelId' = i
    /\ UNCHANGED <<link, uploads, lastId, base, demoTimers, worker, toWorker, toGui>>

\* A running task goes on until the worker sees the atomic.
CancelRunning(i) ==
    /\ task[i] = "running"
    /\ IF demo THEN FinishActive("canceled") /\ UNCHANGED cancelId
       ELSE /\ cancelId' = i /\ canceling' = canceling \cup {i}
            /\ UNCHANGED <<task, active, startDue>>
    /\ UNCHANGED <<link, uploads, lastId, base, demoTimers, worker, toWorker, toGui>>

\* retryTransfer of a task whose local file is still there.
RetryTransfer(i) ==
    /\ task[i] \in {"failed", "canceled"} /\ Len(demoTimers) < MaxTimers
    /\ StartNext([task EXCEPT ![i] = "queued"])
    /\ UNCHANGED <<link, uploads, lastId, base, startDue, cancelId, worker, toGui>>

StartTimerFires ==
    /\ startDue
    /\ startDue' = FALSE
    /\ StartNext(task)
    /\ UNCHANGED <<link, uploads, lastId, base, cancelId, worker, toGui>>

\* The 70 ms timer of a simulated transfer; one for a task that was canceled
\* and retried meanwhile ends the retry.
DemoTimerFires ==
    /\ demoTimers # <<>>
    /\ demoTimers' = Tail(demoTimers)
    /\ \/ /\ task[Head(demoTimers)] = "running"
          /\ \E state \in {"completed", "failed"} : FinishActive(state)
       \/ /\ task[Head(demoTimers)] # "running"
          /\ UNCHANGED <<task, canceling, active, startDue>>
    /\ UNCHANGED <<link, uploads, lastId, base, cancelId, worker, toWorker, toGui>>

-----------------------------------------------------------------------------
(* The GUI thread: connections and answers. *)

CanceledAll == [i \in Ids |-> IF task[i] \in {"queued", "running"} THEN "canceled" ELSE task[i]]

\* disconnectFromHost except for what becomes of the tasks and the teardown.
EndConnection ==
    /\ up' = FALSE
    /\ base' = lastId
    /\ cancelId' = IF active # 0 THEN active ELSE cancelId
    /\ active' = 0
    /\ canceling' = {i \in canceling : task[i] # "running"}
    /\ wgen < MaxConnections
    /\ IF demo THEN UNCHANGED wgen ELSE wgen' = wgen + 1
    /\ UNCHANGED <<uploads, lastId, startDue, demoTimers, worker, toGui>>

Teardown == IF demo THEN <<>> ELSE <<[op |-> "disconnect", gen |-> 0]>>

Disconnect ==
    /\ EndConnection
    /\ tgen' = 0 /\ UNCHANGED demo
    /\ task' = CanceledAll
    /\ toWorker' = toWorker \o Teardown

\* connectToImpl: the queue starts empty.
Connect(isDemo) ==
    /\ ~up
    /\ EndConnection
    /\ tgen' = wgen' /\ demo' = isDemo
    /\ task' = [i \in Ids |-> "none"]
    /\ toWorker' = toWorker \o Teardown
                       \o (IF isDemo THEN <<>> ELSE <<[op |-> "connect", gen |-> wgen']>>)

DemoConnects ==
    /\ demo /\ ~up /\ tgen # 0
    /\ up' = TRUE
    /\ UNCHANGED <<tgen, demo, wgen, tasks, active, startDue, demoTimers, cancelId, worker, toWorker, toGui>>

Deliver(type) == toGui # <<>> /\ Head(toGui).type = type /\ toGui' = Tail(toGui)

HandleUp ==
    /\ Deliver("up")
    /\ up' = (up \/ Head(toGui).gen = tgen)
    /\ UNCHANGED <<tgen, demo, wgen, tasks, active, startDue, demoTimers, cancelId, worker, toWorker>>

\* A lost connection leaves the queue alone.
HandleDown ==
    /\ Deliver("down")
    /\ up' = (up /\ Head(toGui).gen # tgen)
    /\ UNCHANGED <<tgen, demo, wgen, tasks, active, startDue, demoTimers, cancelId, worker, toWorker>>

HandleAnswer(state) ==
    /\ Deliver(state)
    /\ IF Head(toGui).id > base /\ Head(toGui).id = active THEN FinishActive(state)
       ELSE UNCHANGED <<task, canceling, active, startDue>>
    /\ UNCHANGED <<link, uploads, lastId, base, demoTimers, cancelId, worker, toWorker>>

-----------------------------------------------------------------------------
(* The worker thread. *)

Take(op) == stage = "idle" /\ toWorker # <<>> /\ Head(toWorker).op = op /\ toWorker' = Tail(toWorker)
Return == stage' = "idle" /\ wjob' = 0 /\ left' = 0
Answer(type) == Return /\ toGui' = Append(toGui, [type |-> type, id |-> wjob])
ConnectionCanceled == wactive # wgen

\* A download forgets earlier cancellations before it opens SFTP.
Begin(i) ==
    /\ stage' = "begin" /\ wjob' = i
    /\ cancelId' = IF i \in uploads THEN cancelId ELSE 0
    /\ UNCHANGED left

\* deferDuringSizeChannelSetup, or the first lines of uploadFile, downloadFile.
TakeTransfer ==
    /\ Take("transfer")
    /\ \/ Begin(Head(toWorker).id) /\ UNCHANGED deferred
       \/ /\ deferred' = deferred \cup {[id |-> Head(toWorker).id, gen |-> wactive]}
          /\ UNCHANGED <<loop, cancelId>>
    /\ UNCHANGED <<gui, wup, wactive, toGui>>

\* Faulty: the timer does not look at the generation it was started for.
RetryDeferredAlways(d) ==
    /\ stage = "idle"
    /\ deferred' = deferred \ {d}
    /\ IF wup THEN Begin(d.id) ELSE UNCHANGED <<loop, cancelId>>
    /\ UNCHANGED <<gui, wup, wactive, toWorker, toGui>>

\* The timer of a deferred request drops it with its connection, unanswered.
RetryDeferred(d) ==
    /\ stage = "idle"
    /\ deferred' = deferred \ {d}
    /\ IF wup /\ d.gen = wactive /\ ~ConnectionCanceled THEN Begin(d.id) ELSE UNCHANGED <<loop, cancelId>>
    /\ UNCHANGED <<gui, wup, wactive, toWorker, toGui>>

\* SFTP and the files are open: an upload forgets earlier cancellations only
\* now.  What an earlier run left in the temporary file need not be sent.
Opened ==
    /\ stage = "begin" /\ wup
    /\ cancelId' = IF wjob \in uploads THEN 0 ELSE cancelId
    /\ left' \in (IF wjob \in uploads THEN 0 ELSE 1) .. Blocks
    /\ stage' = IF left' = 0 THEN "commit" ELSE "check"
    /\ UNCHANGED <<gui, wup, wactive, wjob, deferred, toWorker, toGui>>

\* Faulty: the transfer ends without a word when its connection was canceled.
CheckQuietly ==
    /\ stage = "check"
    /\ IF ConnectionCanceled \/ cancelId = wjob THEN Return
       ELSE stage' = "io" /\ UNCHANGED <<wjob, left>>
    /\ UNCHANGED <<gui, cancelId, wup, wactive, deferred, toWorker, toGui>>

\* Before each block.
Check ==
    /\ stage = "check"
    /\ IF ConnectionCanceled \/ cancelId = wjob THEN Answer("canceled")
       ELSE stage' = "io" /\ UNCHANGED <<wjob, left, toGui>>
    /\ UNCHANGED <<gui, cancelId, wup, wactive, deferred, toWorker>>

MoveBlock ==
    /\ stage = "io"
    /\ left' = left - 1
    /\ stage' = IF left' = 0 THEN "commit" ELSE "check"
    /\ UNCHANGED <<gui, cancelId, wup, wactive, wjob, deferred, toWorker, toGui>>

Commit ==
    /\ stage = "commit"
    /\ Answer("completed")
    /\ UNCHANGED <<gui, cancelId, wup, wactive, deferred, toWorker>>

\* The connection is gone, or a file cannot be opened, read, written or renamed;
\* an upload whose SFTP opens and whose file does not has forgotten, too.
TransferFails ==
    /\ stage \in {"begin", "io", "commit"}
    /\ Answer("failed")
    /\ \/ UNCHANGED cancelId
       \/ stage = "begin" /\ wup /\ wjob \in uploads /\ cancelId' = 0
    /\ UNCHANGED <<gui, wup, wactive, deferred, toWorker>>

\* Seen between two slots of the worker.
TransportLost ==
    /\ wup /\ stage = "idle"
    /\ wup' = FALSE
    /\ toGui' = Append(toGui, [type |-> "down", gen |-> wactive])
    /\ UNCHANGED <<gui, cancelId, wactive, loop, deferred, toWorker>>

WorkerDisconnects ==
    /\ Take("disconnect")
    /\ wup' = FALSE
    /\ toGui' = IF wup THEN Append(toGui, [type |-> "down", gen |-> wactive]) ELSE toGui
    /\ UNCHANGED <<gui, cancelId, wactive, loop, deferred>>

\* A canceled connectTo stops at once, others succeed or fail.
WorkerConnects ==
    /\ Take("connect")
    /\ wactive' = Head(toWorker).gen
    /\ \/ wactive' = wgen /\ wup' = TRUE /\ toGui' = Append(toGui, [type |-> "up", gen |-> wactive'])
       \/ wactive' = wgen /\ wup' = FALSE /\ toGui' = Append(toGui, [type |-> "down", gen |-> wactive'])
       \/ wactive' # wgen /\ wup' = FALSE /\ UNCHANGED toGui
    /\ UNCHANGED <<gui, cancelId, loop, deferred>>

-----------------------------------------------------------------------------

UserStep ==
    \/ \E upload \in BOOLEAN : Enqueue(upload)
    \/ \E i \in Ids : CancelQueued(i) \/ CancelRunning(i) \/ RetryTransfer(i)
    \/ Disconnect
    \/ \E isDemo \in BOOLEAN : Connect(isDemo)

GuiStep ==
    \/ StartTimerFires \/ DemoTimerFires \/ DemoConnects
    \/ HandleUp \/ HandleDown
    \/ \E state \in Ended : HandleAnswer(state)

WorkerStep ==
    \/ TakeTransfer \/ WorkerDisconnects \/ WorkerConnects
    \/ \E d \in deferred : RetryDeferred(d)
    \/ Opened \/ Check \/ MoveBlock \/ Commit \/ TransferFails

Next == UserStep \/ GuiStep \/ WorkerStep \/ TransportLost

\* Both event loops run; each blocking call has a timeout, and the management
\* channel a deferred request waits for is freed (ManagementChannel).
Fairness == WF_vars(GuiStep) /\ WF_vars(WorkerStep)

Spec == Init /\ [][Next]_vars
LiveSpec == Spec /\ Fairness

-----------------------------------------------------------------------------
(* What makes the component correct. *)

\* Every variable keeps the shape the declarations of SshSession.h,
\* Libssh2Worker.h and FileTransferTask.h give it.
TypeOK ==
    /\ up \in BOOLEAN /\ demo \in BOOLEAN /\ startDue \in BOOLEAN /\ wup \in BOOLEAN
    /\ tgen \in Nat /\ wgen \in Nat /\ wactive \in Nat
    /\ lastId \in 0 .. MaxTasks /\ base \in 0 .. MaxTasks /\ active \in 0 .. MaxTasks
    /\ task \in [Ids -> States] /\ uploads \subseteq Ids /\ canceling \subseteq Ids
    /\ demoTimers \in Seq(Ids)
    /\ cancelId \in 0 .. MaxTasks /\ stage \in Stages /\ wjob \in 0 .. MaxTasks /\ left \in 0 .. Blocks
    /\ deferred \subseteq [id : Ids, gen : Nat]
    /\ toWorker \in Seq(WorkerEvents) /\ toGui \in Seq(GuiEvents)

\* The task shown as running is the one the session waits for, and there is
\* no other: eviction, cancellation, retry, late answers and reconnects never
\* leave a row running that nothing can end.
ActiveIsRunning == \A i \in Ids : task[i] = "running" <=> i = active

\* Places where the worker has a transfer, or has just answered one.
Requested == {i \in DOMAIN toWorker : toWorker[i].op = "transfer"}
Answered == {i \in DOMAIN toGui : toGui[i].type \in Ended}

\* Transfers of this connection that are under way anywhere.
UnderWay ==
    {<<"request", k, toWorker[k].id>> : k \in Requested}
        \cup {<<"deferred", d.gen, d.id>> : d \in deferred}
        \cup (IF stage = "idle" THEN {} ELSE {<<"loop", 0, wjob>>})
        \cup {<<"answer", k, toGui[k].id>> : k \in Answered}

\* A task keeps its id when it is retried, so there must never be two runs:
\* a late answer of the first would end the second, and both would write the
\* same temporary file.
RunsOnce ==
    LET current == {x \in UnderWay : x[3] > base}
    IN  /\ \A x \in current : x[3] = active
        /\ Cardinality(current) <= 1

\* What the worker moves belongs to the connection it is moved over.
OwnConnection == stage \in {"check", "io", "commit"} => wjob > base \/ ConnectionCanceled

\* A transfer is reported as canceled only if this run of it was canceled, or
\* its connection was.
CanceledOnlyIfAsked ==
    [][\A k \in DOMAIN toGui' :
          k > Len(toGui) /\ toGui'[k].type = "canceled" /\ toGui'[k].id > base
              => toGui'[k].id \in canceling]_vars

\* Runs and connections are kept apart: a transfer put off on one connection is
\* never carried out over the next, and a retry is not hit by the cancellation
\* of the run before it.
RunsAreApart == [](TypeOK /\ OwnConnection) /\ CanceledOnlyIfAsked

\* The queue moves on while its connection lasts: a transfer comes to an end, also
\* on a worker that had to put it off, and after it the next one is started, which
\* only a zero timer, a new request or a retry does (scheduleNextTransfer).
TransferEnds ==
    /\ \A i \in Ids : i = active ~> (i # active \/ ~up)
    /\ (\E i \in Ids : task[i] = "queued") /\ active = 0 ~> active # 0 \/ ~up \/ \A i \in Ids : task[i] # "queued"
=============================================================================
