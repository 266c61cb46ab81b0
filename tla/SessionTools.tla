---------------------------- MODULE SessionTools ----------------------------
(***************************************************************************)
(* The tools of one pane together: the bridge of a local agent, the        *)
(* software dialog and the server tools compete for the slot of their      *)
(* session, and all follow its connection.  Their questions are modal:     *)
(* below one the user does nothing else, but connections come and go,      *)
(* clients leave, timers fire and answers arrive, and the question of a    *)
(* command may open on top of one of a dialog.                             *)
(***************************************************************************)
EXTENDS AgentBridge, SoftwareInstall, ServerTools, Functions

vars == <<t, acts>>

\* A program that has just started: what the servers do and the saved job of each host go on, and
\* the dialog of another pane may, if that is of another program.
Fresh(s, h) ==
    [up |-> FALSE, connecting |-> FALSE, host |-> h, slot |-> 0, flag |-> FALSE, desired |-> 0,
     calls |-> {}, modals |-> <<>>, running |-> FALSE, run |-> 0, pending |-> 0, client |-> 0,
     socks |-> [k \in Sockets |-> NoSocket], dialog |-> NoDialog,
     tools |-> NoTools, other |-> s.other, saved |-> s.saved, jobs |-> s.jobs, wire |-> s.wire, forgotten |-> s.forgotten,
     procs |-> s.procs, helper |-> s.helper, struck |-> s.struck]

Start(procs) ==
    [other |-> NoOther, saved |-> [h \in Hosts |-> NoJob], jobs |-> [j \in Jobs |-> NewJob], wire |-> {}, forgotten |-> {},
     procs |-> procs, helper |-> NoHelper, struck |-> FALSE]

\* The pane has just connected for the first time.
Init == acts = 0 /\ \E h \in Hosts, procs \in Injection(Hosts, 1 .. Cardinality(Hosts)) :
            t = [Fresh(Start(procs), h) EXCEPT !.up = TRUE]

Counted == acts < MaxActs /\ acts' = acts + 1
User == Counted /\ t.modals = <<>>
Becomes(s) == t' = Tidied(s)
Quietly(s) == Becomes(s) /\ UNCHANGED acts

\* serverToolFinished and connectionChanged(false) reach all, one after the other.
Finish(s, id, who, ans, free) ==
    LET agent == AgentFinished(s, id, IF ans = "error" THEN Refused ELSE who)
    IN  ToolsFinished(DialogFinished(agent, id, who, ans), id, ans # "error", free)
Down(s) == ToolsDown(DialogDown(AgentDown(s)))

\* disconnectFromHost: the call in the slot ends while the session still counts as connected, so
\* that a query that waited for it goes out once more.
Disconnected(s, free) ==
    LET given == [CancelServerTool(s, 0) EXCEPT !.slot = 0]
        ended == IF s.slot = 0 THEN given ELSE Finish(given, s.slot, 0, "error", free)
        off == [ended EXCEPT !.up = FALSE, !.connecting = FALSE]
    IN  IF s.up \/ s.connecting THEN Down(off) ELSE off

-----------------------------------------------------------------------------
(* The session. *)

Connect == User /\ ~t.up /\ ~t.connecting
    /\ \E h \in Hosts, free \in BOOLEAN : Becomes([Disconnected(t, free) EXCEPT !.host = h, !.connecting = TRUE])
Disconnect == User /\ (t.up \/ t.connecting) /\ \E free \in BOOLEAN : Becomes(Disconnected(t, free))
ConnectionUp == t.connecting
    /\ \E free \in BOOLEAN : Quietly(DialogUp([t EXCEPT !.connecting = FALSE, !.up = TRUE], free))
ConnectionLost == (t.up \/ t.connecting)
    /\ Quietly(Down([t EXCEPT !.connecting = FALSE, !.up = FALSE]))

\* The program is closed or killed, and started again.
Restart == \E h \in Hosts : Quietly(Fresh(t, h))

\* It is killed after it has submitted the job that s has on the wire, and before it has saved it; r
\* is what is left.
Unsaved(r, s) == [r EXCEPT !.wire = s.wire, !.jobs = s.jobs, !.forgotten = @ \cup (s.wire \ t.wire)]
JobsLeft == \E j \in Jobs : t.jobs[j].host = NoHost

\* The end of a call reaches the session; the faulty variant passes on whatever call it is.
AnswerWithAny(c, ans) ==
    LET freed == [t EXCEPT !.calls = @ \ {c}, !.slot = 0, !.flag = FALSE]
    IN  \E free \in BOOLEAN : Quietly(Finish(freed, c.id, c.who, ans, free))

\* handleServerToolFinished: only the call in the slot is passed on.
AnswerWith(c, ans) ==
    LET rest == [t EXCEPT !.calls = @ \ {c}]
        freed == [rest EXCEPT !.slot = 0, !.flag = FALSE]
    IN  IF c.id # t.slot THEN Quietly(rest)
        ELSE \E free \in BOOLEAN : Quietly(Finish(freed, c.id, c.who, ans, free))

\* A call that was given up, or that failed on the way, ends with an error whatever it did.
Answer == \E c \in t.calls :
    \/ AnswerWith(c, "error")
    \/ c.id = t.desired /\ c.what \notin {"install", "status", "signal"} /\ AnswerWith(c, "result")
    \/ c.id = t.desired /\ c.ans # "none" /\ AnswerWith(c, c.ans)

-----------------------------------------------------------------------------
(* The agent. *)

Launch == User /\ t.up /\ ~t.running /\ t.run < MaxLaunches /\ Becomes(Launched(t))
StopAgent == User /\ t.running /\ Becomes(AgentEnded(IF t.pending # 0 THEN CancelAgentCommand(t) ELSE t))
AgentExits == t.running /\ Quietly(AgentEnded(t))
ClientAsks == Counted /\ t.running
    /\ \E k \in Sockets : \E g \in {t.run, t.run - 1} \ {0} :
          t.socks[k] = NoSocket /\ Becomes(Connected(t, k, g))
ReadLine == \E k \in Sockets : Open(t, k) /\ t.socks[k].asked /\ Quietly(HandleBridgeRequest(t, k))

\* A client has its answer, waits no longer, or is cut off because its line never came.
ClientLeaves == \E k \in Sockets : Open(t, k) /\ Quietly(Closed(t, k))

-----------------------------------------------------------------------------
(* The software dialog. *)

OpenSoftware == User /\ \E free \in BOOLEAN : Becomes(Opened(t, free))
CloseSoftware == User /\ t.dialog.visible /\ Becomes(Hidden(t))
ClickSearch == User /\ CanSearch(t) /\ \E free \in BOOLEAN : Becomes(Search(t, free))
ClickInstall == User /\ CanInstall(t) /\ \E free \in BOOLEAN : Becomes(Request(t, "plan", NoJob, free))
ClickRefresh == User /\ CanRefresh(t) /\ \E free \in BOOLEAN : Becomes(Poll(t, free))
ClickForget == User /\ CanForget(t) /\ Becomes(Ask(t, Question("forget", t.dialog.job, t.host)))
TimerFires == t.dialog.timer /\ t.dialog.visible /\ t.modals = <<>> /\ t.dialog.request = 0
    /\ \E free \in BOOLEAN : Quietly(Poll(t, free))

\* Another pane, whose questions may be on top of those of this one.
OtherOpens == User /\ \E h \in Hosts : Becomes(OtherOpened(t, h))
OtherInstalls ==
    /\ Counted /\ t.other.target # NoHost /\ ~t.other.active /\ JobsLeft
    /\ LET s == OtherPlanned(t, NextJob(t)) IN Becomes(s) \/ Becomes(Unsaved([t EXCEPT !.other = NoOther], s))
OtherForgets == Counted /\ t.other.job # NoJob /\ Becomes(OtherForgotten(t))
OtherHears ==
    /\ t.other.job # NoJob
    /\ \E phase \in StatusOf(t.jobs[t.other.job]) \ {"error"} : Quietly(OtherTold(t, phase))

-----------------------------------------------------------------------------
(* The server tools. *)

ShowTools == User /\ \E page \in {0, 1}, free \in BOOLEAN : Becomes(PageShown(t, page, free))
RefreshPage == User /\ ToolsReady(t) /\ \E free \in BOOLEAN : Becomes(RefreshTools(t, free))
ToggleAuto == User /\ t.tools.open /\ t.up /\ ~t.tools.cancel /\ Becomes([t EXCEPT !.tools.auto = ~@])
CancelTask == User /\ (t.tools.request # 0 \/ t.tools.auto) /\ ~t.tools.cancel /\ Becomes(TaskCancelled(t))
CloseTools == User /\ t.tools.open /\ Becomes(ToolsClosed(t))
ClickSignal == User /\ CanSignal(t) /\ Becomes(Ask(t, Question("signal", t.tools.shown, t.host)))
ClickSpeed == User /\ ToolsReady(t) /\ t.tools.tab = 1 /\ Becomes(Ask(t, Question("speed", NoProcess, t.host)))
ToolsTimerFires == t.tools.auto /\ t.modals = <<>> /\ t.tools.tab = 0 /\ t.tools.request = 0
    /\ \E free \in BOOLEAN : Quietly(RefreshTools(t, free))

\* The user answers the question on top.  MaxJobs bounds the plans that are approved.
Decide == \E yes, free \in BOOLEAN :
    \/ Top(t) = "command" /\ Quietly(Decided(t, yes, free))
    \/ Top(t) = "plan" /\ (yes => JobsLeft) /\ Quietly(Planned(t, yes, free))
    \/ /\ Top(t) = "plan" /\ yes /\ JobsLeft
       /\ \E h \in Hosts : Quietly(Unsaved(Fresh(t, h), Planned(t, yes, free)))
    \/ Top(t) = "forget" /\ Quietly(Forgotten(t, yes))
    \/ Top(t) \in {"signal", "speed"} /\ Quietly(ToolsDecided(t, yes, free))

-----------------------------------------------------------------------------
(* The servers. *)

Executes(s, c, ans) == [s EXCEPT !.calls = (@ \ {c}) \cup {[c EXCEPT !.ans = ans]}]

\* What a status call reads may be old when its answer arrives.
StatusRuns == \E c \in t.calls : c.what = "status" /\ c.ans = "none"
    /\ \E ans \in StatusOf(t.jobs[c.who]) : Quietly(Executes(t, c, ans))

\* An installation that was sent reaches the server, also after its call was given up, or never.
InstallRuns == \E j \in t.wire, forked \in BOOLEAN :
    LET begun == InstallBegins(t, j, forked)
        mine == {c \in t.calls : c.what = "install" /\ c.who = j}
    IN  Quietly(IF mine = {} THEN begun
                ELSE Executes(begun, CHOOSE c \in mine : TRUE, IF forked THEN "result" ELSE "error"))
InstallDropped == \E j \in t.wire : Quietly([t EXCEPT !.wire = @ \ {j}])

JobRuns == \E j \in Jobs : LET job == t.jobs[j] IN
    \/ job.sup = "new" /\ Quietly([t EXCEPT !.jobs[j] = SupervisorBegins(job)])
    \/ job.sup = "alive" /\ job.pkg = "none" /\ Quietly([t EXCEPT !.jobs[j] = PackageBegins(job)])
    \/ job.pkg = "alive" /\ Quietly([t EXCEPT !.jobs[j] = PackageEnds(job)])
    \/ job.sup = "alive" /\ job.pkg = "ended" /\ \E phase \in {"succeeded", "failed"} :
          Quietly([t EXCEPT !.jobs[j] = SupervisorReports(job, phase)])
JobBreaks == \E j \in Jobs : LET job == t.jobs[j] IN
    \/ job.sup = "alive" /\ Quietly([t EXCEPT !.jobs[j] = SupervisorFails(job)])
    \/ job.sup \in {"new", "alive"} /\ Quietly([t EXCEPT !.jobs[j] = SupervisorDies(job)])

\* The helper of a signal, which answers its call when it has ended, or is stopped on the way.
HelperTold(s) ==
    LET mine == {c \in s.calls : c.what = "signal" /\ c.ans = "none"}
    IN  IF mine = {} THEN s ELSE Executes(s, CHOOSE c \in mine : TRUE, "result")
HelperRuns ==
    \/ t.helper.stage = "sent" /\ Quietly(HelperOpens(t))
    \/ t.helper.stage = "opened" /\ Quietly(HelperChecks(t))
    \/ t.helper.stage = "checked" /\ Quietly(HelperSignals(t))
    \/ t.helper.stage = "ended" /\ Quietly([HelperTold(t) EXCEPT !.helper = NoHelper])
HelperStops == t.helper.stage \in {"sent", "opened", "checked"} /\ Quietly([t EXCEPT !.helper = NoHelper])

\* A process that somebody has seen dies, and its PID is used again.
Seen == {t.tools.shown, t.helper.want, t.helper.handle} \cup {q.who : q \in {t.modals[i] : i \in DOMAIN t.modals}}
PidReused == \E h \in Hosts :
    /\ t.procs[h] \in {t.tools.shown, t.helper.want, t.helper.handle}
    /\ Quietly([t EXCEPT !.procs[h] = Unused(Range(t.procs) \cup Seen)])

Next ==
    \/ Connect \/ Disconnect \/ ConnectionUp \/ ConnectionLost \/ Restart \/ Answer
    \/ Launch \/ StopAgent \/ AgentExits \/ ClientAsks \/ ReadLine \/ ClientLeaves
    \/ OpenSoftware \/ CloseSoftware \/ ClickSearch \/ ClickInstall \/ ClickRefresh \/ ClickForget
    \/ TimerFires \/ Decide \/ OtherOpens \/ OtherInstalls \/ OtherForgets \/ OtherHears
    \/ ShowTools \/ RefreshPage \/ ToggleAuto \/ CancelTask \/ CloseTools \/ ClickSignal \/ ClickSpeed \/ ToolsTimerFires
    \/ HelperRuns \/ HelperStops \/ PidReused
    \/ StatusRuns \/ InstallRuns \/ InstallDropped \/ JobRuns \/ JobBreaks

Spec == Init /\ [][Next]_vars

-----------------------------------------------------------------------------
(* What is promised. *)

TypeOK ==
    /\ acts \in 0 .. MaxActs /\ t.host \in Hosts /\ t.up \in BOOLEAN /\ t.connecting \in BOOLEAN
    /\ t.slot \in Nat /\ t.pending \in Nat /\ t.client \in Sockets \cup {0} /\ t.run \in 0 .. MaxLaunches
    /\ t.dialog.target \in Hosts \cup {NoHost} /\ t.dialog.job \in Jobs \cup {NoJob}
    /\ t.wire \subseteq Jobs /\ Len(t.modals) <= 3 /\ ~(t.up /\ t.connecting)

\* The tools never wait for nothing and never take an answer meant for the other: the command a
\* panel waits for and the query a dialog waits for are the call in the slot, that call is still to
\* be answered, and a client is told once, the result of its own command or an error.
ToolsAreBacked ==
    /\ TypeOK
    /\ t.slot # 0 => \E c \in t.calls : c.id = t.slot
    /\ t.pending # 0 => t.slot = t.pending /\ t.flag
    /\ t.dialog.request # 0 => t.slot = t.dialog.request
    /\ t.tools.request # 0 => t.slot = t.tools.request
    /\ \A k \in Sockets : t.socks[k].reply \in {0, Refused, k} /\ t.socks[k].said <= 1

\* A command is only submitted when the user approves it, for the host the question named, while the
\* client that asked is still there and belongs to the running launch; and a call in the slot is only
\* given up by its own tool, or with the connection.
Approved(c) ==
    /\ Top(t) = "command" /\ Head(t.modals).who = c.who /\ Head(t.modals).host = t.host
    /\ t.up /\ t.running /\ Open(t, c.who) /\ t.socks[c.who].token = t.run
Submitted == {c \in t'.calls \ t.calls : c.what = "command" /\ c.ans = "none"}
GivenUp == t.slot # 0 /\ t'.slot = t.slot /\ t.desired = t.slot /\ t'.desired = 0
OwnCancel ==
    IF t.slot = t.pending THEN ~t'.running \/ \A k \in Sockets : t'.socks[k].req = t.slot => ~Open(t', k)
    ELSE IF t.slot = t.dialog.request THEN t'.dialog.ignore
    ELSE t.slot = t.tools.request => ~t'.tools.open \/ t'.tools.cancel \/ t'.tools.again
AgentStaysInBounds == [][(\A c \in Submitted : Approved(c)) /\ (GivenUp => OwnCancel)]_vars

\* "Do not install twice": while the package manager works on an installation of a host, or may
\* still come to, no other of that host is under way, over losses, late effects, dead supervisors
\* and restarts, whichever panes they were approved in.  Exceptions: nothing refers to one of them
\* any more, since the user chose to forget it, or the program was killed between submitting and
\* saving it (SoftwareInstallDialog.cpp:205-206), or a dialog of another pane that was opened
\* before it was saved did not know of it, and saved or removed the number of its own.
InstallsOneAtATime ==
    \A i, j \in Jobs : i < j /\ Working(t, i) /\ Working(t, j) /\ t.jobs[i].host = t.jobs[j].host
                        => t.forgotten \cap {i, j} # {}

\* A signal that the user approved reaches the process of the row, or none, though its PID may have
\* passed to another process since the list was read, during the question, or between any two steps
\* of the helper; rows may even be of a host the pane was connected to before.
SignalsReachTheirProcess == ~t.struck
=============================================================================
