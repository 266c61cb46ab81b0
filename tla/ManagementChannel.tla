--------------------------- MODULE ManagementChannel ---------------------------
(***************************************************************************)
(* The management channel of one SSH session: the single slot that the     *)
(* server tools, the software installer, the agent bridge and the          *)
(* directory-size column share, the nonblocking channel state machine of   *)
(* Libssh2Worker behind it, and the blocking operations (metrics, file     *)
(* panel) that have to wait for it.                                        *)
(*                                                                         *)
(* A request is canceled by an atomic, m_desiredSizeRequest, that the GUI  *)
(* writes and the worker reads between two libssh2 calls; everything else  *)
(* travels in two queues.  Each phase of advanceDirectorySize is a step of *)
(* its own, since each of its libssh2 calls may return EAGAIN.  How a      *)
(* connection is made is the business of SshConnection: here it succeeds   *)
(* or fails in one step.                                                   *)
(***************************************************************************)
EXTENDS Naturals, Sequences

CONSTANTS
    Windows,         \* subset of {"tools", "install", "bridge"}: who may ask for a tool
    Ops,             \* subset of {"metrics", "files"}: the blocking operations
    MaxRequests,     \* bound on the requests of a session
    MaxConnections   \* bound on the connection generations

ASSUME WindowAssumption == Windows \subseteq {"tools", "install", "bridge"}
ASSUME OpAssumption == Ops \subseteq {"metrics", "files"}
ASSUME BoundAssumption == MaxRequests \in Nat /\ MaxConnections \in Nat

Kinds == {"tool", "size"}
Jobs == [kind : Kinds, id : Nat]
NoJob == [kind |-> "size", id |-> 0]
Phases == {"idle", "opening", "starting", "reading", "eof", "closing", "freeing"}
WorkerEvents == [op : {"connect", "disconnect"}, gen : Nat] \cup [op : Kinds \cup Ops, id : Nat]
GuiEvents == [type : {"up", "down"}, gen : Nat] \cup [type : Kinds \cup Ops, id : Nat]

VARIABLES
    up, tgen,          \* m_connected, m_transportGeneration (0 none)
    toolReq, sizeReq,  \* m_serverToolRequest, m_directorySizeRequest (0 none)
    agent,             \* m_agentCommandRequest
    asked,             \* [Ops -> id], m_metricsInFlight, m_pendingDirectories or m_activeTransferTaskId
    lastId,            \* request ids given out: generation << 32 | serial only grows
    held,              \* [Windows -> id], each window's m_request or m_pendingBridgeRequest
    refreshAfter,      \* m_refreshAfterCancel of the server tools window
    cancelRequested,   \* m_cancelRequested of the server tools window
    desired, wgen,     \* the worker's atomics m_desiredSizeRequest, m_connectionGeneration
    wup, wactive,      \* the worker's m_connected, m_activeConnectionGeneration
    phase, job,        \* m_sizePhase; m_sizeRequest with m_sizeIsTool
    pending,           \* m_pendingSizeRequest with its command or path
    stopSent,          \* m_sizeStopSent
    clock,             \* m_sizeClock: before, past the soft, past the hard limit
    silent,            \* the server has stopped answering
    deferred,          \* operations waiting in a 40 ms timer, with their generation
    toWorker, toGui    \* queued events

windows == <<held, refreshAfter, cancelRequested>>
slot == <<toolReq, sizeReq, agent, lastId, desired>>
link == <<up, tgen, wgen>>
channel == <<phase, job, pending, stopSent, clock>>
gui == <<windows, slot, link, asked>>
worker == <<wup, wactive, channel, silent, deferred>>
vars == <<gui, worker, toWorker, toGui>>

Init ==
    /\ up = FALSE /\ tgen = 0 /\ wgen = 1
    /\ toolReq = 0 /\ sizeReq = 0 /\ agent = FALSE /\ lastId = 0 /\ desired = 0
    /\ asked = [o \in Ops |-> 0]
    /\ held = [w \in Windows |-> 0] /\ refreshAfter = FALSE /\ cancelRequested = FALSE
    /\ wup = FALSE /\ wactive = 1 /\ silent = FALSE /\ deferred = {}
    /\ phase = "idle" /\ job = NoJob /\ pending = NoJob /\ stopSent = FALSE /\ clock = "fresh"
    /\ toWorker = <<>> /\ toGui = <<>>

-----------------------------------------------------------------------------
(* The GUI thread: requests. *)

Send(e) == toWorker' = Append(toWorker, e)
Holds(w) == w \in Windows /\ held[w] # 0

\* runServerTool and runAgentCommand refuse to queue behind anything.
SlotFree == up /\ sizeReq = 0 /\ (\A o \in Ops : asked[o] = 0) /\ lastId < MaxRequests

\* A window without a request of its own asks for a tool.
RunTool(w) ==
    /\ held[w] = 0 /\ toolReq = 0 /\ SlotFree
    /\ lastId' = lastId + 1
    /\ toolReq' = lastId' /\ desired' = lastId' /\ held' = [held EXCEPT ![w] = lastId']
    /\ agent' = (agent \/ w = "bridge")
    /\ cancelRequested' = (cancelRequested /\ w # "tools")
    /\ Send([op |-> "tool", id |-> lastId'])
    /\ UNCHANGED <<link, sizeReq, asked, refreshAfter, worker, toGui>>

\* calculateDirectorySize; while a tool holds the slot it answers on its own.
CalculateSize ==
    /\ up /\ toolReq = 0 /\ sizeReq = 0 /\ lastId < MaxRequests
    /\ lastId' = lastId + 1
    /\ sizeReq' = lastId' /\ desired' = lastId'
    /\ Send([op |-> "size", id |-> lastId'])
    /\ UNCHANGED <<link, windows, toolReq, agent, asked, worker, toGui>>

CancelSize ==
    /\ sizeReq # 0
    /\ sizeReq' = 0
    /\ desired' = IF toolReq = 0 THEN 0 ELSE desired
    /\ UNCHANGED <<link, windows, toolReq, agent, lastId, asked, worker, toWorker, toGui>>

\* requestMetrics waits while a tool holds the slot; the file panel does not.
Ask(o) ==
    /\ up /\ asked[o] = 0 /\ lastId < MaxRequests
    /\ o = "metrics" => toolReq = 0
    /\ lastId' = lastId + 1
    /\ asked' = [asked EXCEPT ![o] = lastId']
    /\ Send([op |-> o, id |-> lastId'])
    /\ UNCHANGED <<link, windows, toolReq, sizeReq, agent, desired, worker, toGui>>

\* cancelServerTool: only the atomic changes, the slot stays taken.
CancelTool ==
    /\ desired' = IF toolReq # 0 THEN 0 ELSE desired
    /\ UNCHANGED <<link, toolReq, sizeReq, agent, lastId, asked, held, worker, toWorker, toGui>>

\* The cancel button of the server tools.
CancelTask == Holds("tools") /\ CancelTool /\ refreshAfter' = FALSE /\ cancelRequested' = TRUE

\* Another tab is chosen: the query of the old one stops, its own comes next.
SwitchTab ==
    /\ Holds("tools") /\ ~cancelRequested
    /\ CancelTool
    /\ refreshAfter' = TRUE /\ UNCHANGED cancelRequested

HideTools == Holds("tools") /\ CancelTool /\ refreshAfter' = FALSE /\ UNCHANGED cancelRequested

\* Cancels its own request only.
HideInstall ==
    /\ Holds("install") /\ held["install"] = toolReq
    /\ CancelTool /\ UNCHANGED <<refreshAfter, cancelRequested>>

\* The local agent stops, or its client hangs up.
StopAgent ==
    /\ Holds("bridge") /\ agent
    /\ CancelTool /\ UNCHANGED <<refreshAfter, cancelRequested>>

-----------------------------------------------------------------------------
(* The GUI thread: answers and connections. *)

\* serverToolFinished(toolReq) reaches the windows; the server tools ask for
\* their next query from within the signal, before the caller goes on.
ToolAnswered ==
    LET shown == "tools" \in Windows /\ held["tools"] = toolReq
        again == shown /\ refreshAfter /\ ~cancelRequested /\ SlotFree
    IN  /\ lastId' = IF again THEN lastId + 1 ELSE lastId
        /\ toolReq' = IF again THEN lastId' ELSE 0
        /\ held' = [w \in Windows |-> IF held[w] # toolReq THEN held[w]
                                      ELSE IF w = "tools" THEN toolReq' ELSE 0]
        /\ refreshAfter' = (refreshAfter /\ ~shown)
        /\ cancelRequested' = (cancelRequested /\ ~shown)

Requested == IF toolReq' = 0 THEN <<>> ELSE <<[op |-> "tool", id |-> toolReq']>>

\* disconnectFromHost up to the teardown of the transport.
EndConnection ==
    /\ wgen < MaxConnections
    /\ IF toolReq # 0 THEN ToolAnswered ELSE UNCHANGED <<toolReq, lastId, windows>>
    /\ sizeReq' = 0 /\ asked' = [o \in Ops |-> 0]
    /\ desired' = toolReq'
    /\ up' = FALSE
    /\ wgen' = wgen + 1
    /\ UNCHANGED agent

Teardown == Requested \o <<[op |-> "disconnect", gen |-> 0]>>

Disconnect ==
    /\ EndConnection
    /\ tgen' = 0
    /\ toWorker' = toWorker \o Teardown
    /\ UNCHANGED <<worker, toGui>>

\* The pane of a session that is up starts nothing.
Connect ==
    /\ ~up
    /\ EndConnection
    /\ tgen' = wgen'
    /\ toWorker' = toWorker \o Teardown \o <<[op |-> "connect", gen |-> wgen']>>
    /\ UNCHANGED <<worker, toGui>>

Deliver(type) == toGui # <<>> /\ Head(toGui).type = type /\ toGui' = Tail(toGui)

HandleToolFinished ==
    /\ Deliver("tool")
    /\ IF Head(toGui).id = toolReq /\ toolReq # 0
       THEN /\ ToolAnswered
            /\ agent' = FALSE
            /\ desired' = IF toolReq' = 0 THEN desired ELSE toolReq'
            /\ toWorker' = toWorker \o Requested
       ELSE UNCHANGED <<toolReq, lastId, windows, agent, desired, toWorker>>
    /\ UNCHANGED <<link, sizeReq, asked, worker>>

HandleSizeCalculated ==
    /\ Deliver("size")
    /\ sizeReq' = IF Head(toGui).id = sizeReq /\ up THEN 0 ELSE sizeReq
    /\ UNCHANGED <<link, windows, toolReq, agent, lastId, desired, asked, worker, toWorker>>

HandleOpDone(o) ==
    /\ Deliver(o)
    /\ asked' = IF asked[o] = Head(toGui).id THEN [asked EXCEPT ![o] = 0] ELSE asked
    /\ UNCHANGED <<link, windows, slot, worker, toWorker>>

HandleUp ==
    /\ Deliver("up")
    /\ up' = (up \/ Head(toGui).gen = tgen)
    /\ UNCHANGED <<tgen, wgen, windows, slot, asked, worker, toWorker>>

\* The session keeps its requests; the installer lets go of its own.
HandleDown ==
    /\ Deliver("down")
    /\ IF Head(toGui).gen = tgen
       THEN up' = FALSE /\ held' = [w \in Windows |-> IF w = "install" THEN 0 ELSE held[w]]
       ELSE UNCHANGED <<up, held>>
    /\ UNCHANGED <<tgen, wgen, refreshAfter, cancelRequested, slot, asked, worker, toWorker>>

-----------------------------------------------------------------------------
(* The worker thread. *)

Report(type) == <<[type |-> type, gen |-> wactive]>>
Answer(kind, id) == <<[type |-> kind, id |-> id]>>
Take(op) == toWorker # <<>> /\ Head(toWorker).op = op /\ toWorker' = Tail(toWorker)
Running == phase # "idle"
IsTool == Running /\ job.kind = "tool"
Obsolete == job.id # desired

\* cleanup: a running tool is answered, a pending one is dropped.
Interrupted == IF IsTool /\ job.id # 0 THEN Answer("tool", job.id) ELSE <<>>

Cleanup ==
    /\ wup' = FALSE /\ silent' = FALSE
    /\ phase' = "idle" /\ job' = NoJob /\ pending' = NoJob
    /\ UNCHANGED <<stopSent, clock, deferred>>

\* A read fails, or the shell ends and its end is reported before the cleanup.
TransportLost ==
    /\ wup
    /\ Cleanup
    /\ \/ toGui' = toGui \o Interrupted \o Report("down")
       \/ toGui' = toGui \o Report("down") \o Interrupted
    /\ UNCHANGED <<gui, wactive, toWorker>>

WorkerDisconnects ==
    /\ Take("disconnect")
    /\ Cleanup
    /\ toGui' = toGui \o Interrupted \o (IF wup THEN Report("down") ELSE <<>>)
    /\ UNCHANGED <<gui, wactive>>

\* connectTo, where a canceled one stops at once.
WorkerConnects ==
    /\ Take("connect")
    /\ wactive' = Head(toWorker).gen
    /\ phase' = "idle" /\ job' = NoJob /\ pending' = NoJob /\ silent' = FALSE
    /\ UNCHANGED <<gui, stopSent, clock, deferred>>
    /\ \/ /\ wactive' = wgen
          /\ wup' = TRUE
          /\ toGui' = toGui \o Interrupted \o <<[type |-> "up", gen |-> wactive']>>
       \/ /\ wactive' = wgen
          /\ wup' = FALSE
          /\ toGui' = toGui \o Interrupted \o <<[type |-> "down", gen |-> wactive']>>
       \/ /\ wactive' # wgen
          /\ wup' = FALSE
          /\ toGui' = toGui \o Interrupted

\* Faulty: the rule for scans is applied to tools as well.
FinishedIfWanted(j) == IF j.id = desired THEN Answer(j.kind, j.id) ELSE <<>>

\* finishDirectorySize: a tool is always answered, a scan only if still wanted.
Finished(j) == IF j.kind = "tool" \/ j.id = desired THEN Answer(j.kind, j.id) ELSE <<>>

\* The idle branch of advanceDirectorySize with j pending.
Start(j) ==
    /\ pending' = NoJob
    /\ IF j.id # desired
       THEN /\ UNCHANGED <<phase, job, stopSent, clock>>
            /\ toGui' = IF j.kind = "tool" THEN toGui \o Answer("tool", j.id) ELSE toGui
       ELSE /\ stopSent' = FALSE /\ clock' = "fresh"
            /\ IF wup THEN phase' = "opening" /\ job' = j /\ UNCHANGED toGui
               ELSE UNCHANGED <<phase, job>> /\ toGui' = toGui \o Finished(j)

\* calculateDirectorySize and runServerTool in the worker.
Accept(kind) ==
    /\ Take(kind)
    /\ LET j == [kind |-> kind, id |-> Head(toWorker).id]
       IN  IF j.id # desired
           THEN /\ UNCHANGED channel
                /\ toGui' = IF kind = "tool" THEN toGui \o Answer(kind, j.id) ELSE toGui
           ELSE IF Running THEN pending' = j /\ UNCHANGED <<phase, job, stopSent, clock, toGui>>
           ELSE Start(j)
    /\ UNCHANGED <<gui, wup, wactive, silent, deferred>>

\* A tick of the 40 ms timer with nothing running.
StartPending ==
    /\ ~Running /\ pending # NoJob
    /\ Start(pending)
    /\ UNCHANGED <<gui, wup, wactive, silent, deferred, toWorker>>

Finish ==
    /\ phase' = "idle" /\ job' = NoJob
    /\ toGui' = toGui \o Finished(job)
    /\ UNCHANGED stopSent

\* Faulty: the request is still recorded when the transport is failed.
HardTimeoutAnswersTwice ==
    /\ IsTool /\ clock = "dead"
    /\ Cleanup
    /\ toGui' = toGui \o Answer("tool", job.id) \o Interrupted \o Report("down")
    /\ UNCHANGED <<gui, wactive, toWorker>>

\* Faulty: the limit is looked at only while output is read.
HardTimeoutOfReading ==
    /\ IsTool /\ clock = "dead" /\ phase = "reading"
    /\ Cleanup
    /\ toGui' = toGui \o Answer("tool", job.id) \o Report("down")
    /\ UNCHANGED <<gui, wactive, toWorker>>

\* A tool past its hard limit takes the transport with it.
HardTimeout ==
    /\ IsTool /\ clock = "dead"
    /\ Cleanup
    /\ toGui' = toGui \o Answer("tool", job.id) \o Report("down")
    /\ UNCHANGED <<gui, wactive, toWorker>>

\* One libssh2 call of advanceDirectorySize that does not return EAGAIN.
Advance ==
    /\ Running /\ ~(IsTool /\ clock = "dead")
    /\ phase = "reading" \/ ~silent
    /\ CASE phase = "opening" ->
              \/ phase' = (IF Obsolete THEN "closing" ELSE "starting") /\ UNCHANGED <<job, stopSent, toGui>>
              \/ Finish
         [] phase = "starting" -> phase' \in {"reading", "closing"} /\ UNCHANGED <<job, stopSent, toGui>>
         [] phase = "reading" ->
              /\ IF ~stopSent /\ (Obsolete \/ clock # "fresh") THEN phase' = "eof"
                 ELSE ~silent /\ phase' \in {"eof", "closing"} /\ (phase' = "eof" => ~stopSent)
              /\ UNCHANGED <<job, stopSent, toGui>>
         [] phase = "eof" ->
              /\ phase' \in {"reading", "closing"} /\ stopSent' = TRUE
              /\ UNCHANGED <<job, toGui>>
         [] phase = "closing" -> phase' = "freeing" /\ UNCHANGED <<job, stopSent, toGui>>
         [] phase = "freeing" -> Finish
    /\ UNCHANGED <<gui, wup, wactive, silent, deferred, pending, clock, toWorker>>

Elapse ==
    /\ Running /\ clock # "dead"
    /\ clock' = IF clock = "fresh" THEN "late" ELSE "dead"
    /\ UNCHANGED <<gui, wup, wactive, phase, job, pending, stopSent, silent, deferred, toWorker, toGui>>

GoSilent == wup /\ ~silent /\ silent' = TRUE /\ UNCHANGED <<gui, wup, wactive, channel, deferred, toWorker, toGui>>

\* deferDuringSizeChannelSetup: what keeps a blocking operation waiting; a
\* scan that is obsolete is told to stop first.
MustDefer == IsTool \/ phase \notin {"idle", "reading"}
StopsScanFirst == phase = "reading" /\ Obsolete /\ ~stopSent

TakeOp(o) ==
    /\ ~StopsScanFirst
    /\ Take(o)
    /\ IF MustDefer
       THEN deferred' = deferred \cup {[op |-> o, id |-> Head(toWorker).id, gen |-> wactive]} /\ UNCHANGED toGui
       ELSE toGui' = toGui \o Answer(o, Head(toWorker).id) /\ UNCHANGED deferred
    /\ UNCHANGED <<gui, wup, wactive, channel, silent>>

\* The timer of a deferred operation: it waits again, runs, or is dropped with
\* the connection it was for.
Retry(d) ==
    LET alive == wup /\ d.gen = wactive /\ wactive = wgen
    IN  /\ alive => ~StopsScanFirst /\ ~MustDefer
        /\ deferred' = deferred \ {d}
        /\ toGui' = IF alive THEN toGui \o Answer(d.op, d.id) ELSE toGui
        /\ UNCHANGED <<gui, wup, wactive, channel, silent, toWorker>>

-----------------------------------------------------------------------------

UserStep ==
    \/ \E w \in Windows : RunTool(w)
    \/ CalculateSize \/ CancelSize
    \/ \E o \in Ops : Ask(o)
    \/ CancelTask \/ SwitchTab \/ HideTools \/ HideInstall \/ StopAgent
    \/ Connect \/ Disconnect

GuiStep ==
    \/ HandleToolFinished \/ HandleSizeCalculated \/ HandleUp \/ HandleDown
    \/ \E o \in Ops : HandleOpDone(o)

WorkerStep ==
    \/ WorkerConnects \/ WorkerDisconnects
    \/ \E kind \in Kinds : Accept(kind)
    \/ StartPending \/ HardTimeout \/ Advance
    \/ \E o \in Ops : TakeOp(o)
    \/ \E d \in deferred : Retry(d)

Next == UserStep \/ GuiStep \/ WorkerStep \/ Elapse \/ TransportLost \/ GoSilent

\* The event loops run, and time passes.
Fairness == WF_vars(GuiStep) /\ WF_vars(WorkerStep) /\ WF_vars(Elapse)

Spec == Init /\ [][Next]_vars
LiveSpec == Spec /\ Fairness

-----------------------------------------------------------------------------
(* What makes the component correct. *)

\* Every variable keeps the shape SshSession.h and Libssh2Worker.h declare.
TypeOK ==
    /\ up \in BOOLEAN /\ agent \in BOOLEAN /\ refreshAfter \in BOOLEAN /\ cancelRequested \in BOOLEAN
    /\ wup \in BOOLEAN /\ stopSent \in BOOLEAN /\ silent \in BOOLEAN
    /\ tgen \in Nat /\ wgen \in Nat /\ wactive \in Nat
    /\ toolReq \in Nat /\ sizeReq \in Nat /\ lastId \in 0 .. MaxRequests /\ desired \in Nat
    /\ asked \in [Ops -> Nat] /\ held \in [Windows -> Nat]
    /\ phase \in Phases /\ job \in Jobs /\ pending \in Jobs /\ clock \in {"fresh", "late", "dead"}
    /\ phase = "idle" => job = NoJob
    /\ deferred \subseteq [op : Ops, id : Nat, gen : Nat]
    /\ toWorker \in Seq(WorkerEvents) /\ toGui \in Seq(GuiEvents)

Queued(op) == {i \in DOMAIN toWorker : toWorker[i].op = op}
Answered(type) == {i \in DOMAIN toGui : toGui[i].type = type}
Ids(queue, places) == {queue[i].id : i \in places}
DownComes == \E i \in Answered("down") : toGui[i].gen = tgen

\* Where the worker has a request of this kind.
Waiting(kind) ==
    Ids(toWorker, Queued(kind)) \cup {j.id : j \in {x \in {job, pending} : x.kind = kind /\ x.id # 0}}

\* While the session is up its slot is never taken by a request nobody works
\* on: the request is on its way, waiting, running or answered.  Otherwise
\* every later tool, scan and metrics sample would be refused for good.
SlotInSight ==
    up => /\ toolReq \in {0} \cup Waiting("tool") \cup Ids(toGui, Answered("tool")) \/ DownComes
          /\ sizeReq \in {0} \cup Waiting("size") \cup Ids(toGui, Answered("size")) \/ DownComes

\* A window that waits for a tool owns the slot, so what it cancels is its own
\* request and never that of another window or of a newer connection.
HolderOwnsSlot == \A w \in Windows : held[w] \in {0, toolReq}

\* A request for a tool is answered at most once.
NeverTwice ==
    /\ \A i, k \in Answered("tool") : toGui[i].id = toGui[k].id => i = k
    /\ Ids(toGui, Answered("tool")) \cap Waiting("tool") = {}

\* While a tool runs neither a metrics sample nor a scan waits behind it.
ToolRunsAlone ==
    IsTool /\ Queued("disconnect") = {} =>
        /\ Waiting("size") = {}
        /\ Queued("metrics") = {}
        /\ \A d \in deferred : d.op = "metrics" => d.gen # wactive

\* A tool that stops running is answered in that step.
EndedToolIsAnswered ==
    [][IsTool /\ job' # job => \E i \in DOMAIN toGui' : toGui'[i] = [type |-> "tool", id |-> job.id]]_vars

\* The slot, the windows and the worker agree, over cancellations, timeouts and
\* reconnections: no request holds the slot without anybody working on it, no
\* window cancels what is not its own, and nothing waits behind a tool.
SlotIsBacked == SlotInSight /\ HolderOwnsSlot /\ ToolRunsAlone

\* Whichever of completion, cancellation, hard limit, teardown and a new
\* connection end a running tool, or come together, its window gets exactly
\* one answer.
AnsweredOnce == [](TypeOK /\ NeverTwice) /\ EndedToolIsAnswered

\* A tool that runs comes to an end, even if the server never answers again.
ToolEnds == IsTool ~> ~Running

\* The panels get their answer unless the connection ends or the server stops.
OpsAnswered == \A o \in Ops : asked[o] # 0 ~> (asked[o] = 0 \/ ~up \/ silent)

\* Every request ends: a tool by its hard limit, an operation with an answer,
\* unless a stuck scan holds the channel of a silent server.
RequestsEnd == ToolEnds /\ OpsAnswered
=============================================================================
