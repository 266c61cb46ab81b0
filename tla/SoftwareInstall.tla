--------------------------- MODULE SoftwareInstall ---------------------------
(***************************************************************************)
(* The software dialog of a pane (SoftwareInstallDialog) and the package   *)
(* jobs it starts on the servers (tools/server_packages.py): searching,    *)
(* planning, the question that approves a plan, submitting, following a    *)
(* job, forgetting it, and the supervisor that runs it on the server       *)
(* whatever becomes of the connection and of the program.                  *)
(*                                                                         *)
(* Each pane has a dialog of its own, but the number of a job is saved     *)
(* under its host: the dialog of another pane reads and writes the same    *)
(* entry.  Of that one only its job is kept.                               *)
(*                                                                         *)
(* Which packages are chosen is left out: the server may refuse any call.  *)
(***************************************************************************)
EXTENDS ToolSlot

NoJob == 0
NoDialog ==
    [target |-> NoHost, visible |-> FALSE, request |-> 0, op |-> "none", ignore |-> FALSE,
     job |-> NoJob, active |-> FALSE, unknown |-> FALSE, timer |-> FALSE, listed |-> FALSE]

ConnectedToTarget(s) == s.up /\ s.dialog.target = s.host

\* The constructor takes up the job saved for this host.
DialogOf(s) ==
    LET job == s.saved[s.host]
    IN  [s EXCEPT !.dialog = [NoDialog EXCEPT !.target = s.host, !.job = job, !.active = job # NoJob]]

Request(s, op, who, free) ==
    LET r == Submit(s, op, who)
    IN  IF s.dialog.request # 0 \/ ~ConnectedToTarget(s) \/ ~CanRun(s, free) THEN s
        ELSE [r EXCEPT !.dialog = [@ EXCEPT !.request = r.slot, !.op = op, !.ignore = FALSE]]

Search(s, free) == IF s.dialog.active THEN s ELSE Request(s, "search", NoJob, free)
Poll(s, free) == IF s.dialog.job = NoJob THEN s ELSE Request(s, "status", s.dialog.job, free)

\* showManager
Shown(s, free) ==
    LET v == [s EXCEPT !.dialog.visible = TRUE]
    IN  IF v.dialog.request # 0 THEN v ELSE IF v.dialog.job # NoJob THEN Poll(v, free) ELSE Search(v, free)

\* hideEvent: a query is given up, a submitted installation is not.
Hidden(s) ==
    LET v == [s EXCEPT !.dialog.visible = FALSE, !.dialog.timer = FALSE]
    IN  IF v.dialog.request = 0 \/ v.dialog.op = "install" THEN v
        ELSE CancelServerTool([v EXCEPT !.dialog.ignore = TRUE], v.dialog.request)

\* The button of the pane: a dialog of another host goes, and gives up its query once more.
Opened(s, free) ==
    LET old == s.dialog.target \notin {NoHost, s.host}
        off == IF old THEN Hidden(s) ELSE s
        kept == IF old /\ off.dialog.request # 0 /\ off.dialog.op # "install"
                THEN CancelServerTool(off, off.dialog.request) ELSE off
    IN  Shown(IF s.dialog.target = s.host THEN s ELSE DialogOf(kept), free)

\* The buttons that controls() enables.
CanSearch(s) == ConnectedToTarget(s) /\ s.dialog.visible /\ s.dialog.request = 0 /\ ~s.dialog.active
CanInstall(s) == CanSearch(s) /\ s.dialog.listed
CanRefresh(s) == ConnectedToTarget(s) /\ s.dialog.visible /\ s.dialog.request = 0 /\ s.dialog.job # NoJob
CanForget(s) == s.dialog.visible /\ s.dialog.request = 0 /\ s.dialog.job # NoJob /\ s.dialog.unknown

\* saveJob.  What the entry of host h named before is forgotten with it, unless this dialog knew it.
SaveJob(s, h, job, known) ==
    [s EXCEPT !.saved[h] = job, !.forgotten = @ \cup ((Jobs \cap {s.saved[h]}) \ {known})]

\* What follows the question about forgetting: it does not look again at what it was asked about.
Forgotten(s, yes) ==
    LET r == [s EXCEPT !.modals = Tail(@)]
        d == [r.dialog EXCEPT !.job = NoJob, !.active = FALSE, !.unknown = FALSE, !.timer = FALSE]
    IN  IF yes THEN SaveJob([r EXCEPT !.forgotten = @ \cup ({r.dialog.job} \ {NoJob}), !.dialog = d],
                            d.target, NoJob, NoJob)
        ELSE r

\* A new number, and the installation on its way to host h.
NextJob(s) == CHOOSE j \in Jobs : s.jobs[j].host = NoHost
OnWire(s, h, job) == [s EXCEPT !.wire = @ \cup {job}, !.jobs[job].host = h]

\* What follows the question about a plan: the connection and the job are looked at again.
Planned(s, yes, free) ==
    LET r == [s EXCEPT !.modals = Tail(@)]
        job == NextJob(r)
        sent == Request(r, "install", job, free)
    IN  IF ~yes \/ ~ConnectedToTarget(r) \/ ~r.dialog.visible \/ r.dialog.request # 0 \/ r.dialog.active
           \/ sent = r
        THEN r
        ELSE SaveJob(OnWire([sent EXCEPT !.dialog = [@ EXCEPT !.job = job, !.active = TRUE, !.unknown = FALSE]],
                            r.dialog.target, job),
                     r.dialog.target, job, r.dialog.job)

Lost(s) == IF s.dialog.job = NoJob THEN s ELSE [s EXCEPT !.dialog.unknown = TRUE, !.dialog.timer = FALSE]

\* finish: an answer of the server, or an error, to the query or the submission of this dialog.
Told(s, phase) ==
    LET active == phase \notin {"succeeded", "failed"}
        unknown == phase = "unknown"
    IN  [s EXCEPT !.dialog.active = active, !.dialog.unknown = unknown,
                  !.dialog.timer = active /\ ~unknown /\ s.dialog.visible]

Answered(s, who, ans) ==
    IF ans = "error" THEN Lost(s)
    ELSE IF s.dialog.op = "search" THEN [s EXCEPT !.dialog.listed = TRUE]
    ELSE IF s.dialog.op = "plan" THEN
            IF s.dialog.visible THEN Ask(s, Question("plan", NoJob, s.host)) ELSE s
    ELSE IF s.dialog.op \in {"install", "status"} /\ who # s.dialog.job THEN
            [s EXCEPT !.dialog.unknown = TRUE]
    ELSE IF s.dialog.op = "install" THEN
            [s EXCEPT !.dialog.unknown = FALSE, !.dialog.timer = s.dialog.visible \/ @]
    ELSE Told(s, ans)

DialogFinished(s, id, who, ans) ==
    LET r == [s EXCEPT !.dialog.request = 0, !.dialog.ignore = FALSE]
    IN  IF id # s.dialog.request THEN s
        ELSE IF s.dialog.ignore \/ ~ConnectedToTarget(r) THEN r ELSE Answered(r, who, ans)

DialogDown(s) == [s EXCEPT !.dialog.timer = FALSE, !.dialog.request = 0]
DialogUp(s, free) ==
    IF s.dialog.visible /\ ConnectedToTarget(s) /\ s.dialog.active THEN Poll(s, free) ELSE s

-----------------------------------------------------------------------------
(* The dialog of another pane, for host h: opened, its installation approved, its job forgotten, *)
(* and an answer about that job, which is asked for whenever it is answered.                     *)
NoOther == [target |-> NoHost, job |-> NoJob, active |-> FALSE]

OtherOpened(s, h) == [s EXCEPT !.other = [target |-> h, job |-> s.saved[h], active |-> s.saved[h] # NoJob]]
OtherPlanned(s, job) ==
    SaveJob(OnWire([s EXCEPT !.other = [@ EXCEPT !.job = job, !.active = TRUE]], s.other.target, job),
            s.other.target, job, s.other.job)
OtherForgotten(s) ==
    SaveJob([s EXCEPT !.forgotten = @ \cup {s.other.job}, !.other = [@ EXCEPT !.job = NoJob, !.active = FALSE]],
            s.other.target, NoJob, NoJob)
OtherTold(s, phase) == [s EXCEPT !.other.active = phase \notin {"succeeded", "failed"}]

-----------------------------------------------------------------------------
(* The servers. *)

NewJob == [host |-> NoHost, phase |-> "none", sup |-> "none", pkg |-> "none"]

\* install: the job's directory is made, its state written, and a supervisor detached, unless
\* the fork fails.
InstallBegins(s, j, forked) ==
    [s EXCEPT !.wire = @ \ {j},
              !.jobs[j] = [@ EXCEPT !.phase = IF forked THEN "starting" ELSE "failed",
                                    !.sup = IF forked THEN "new" ELSE "gone"]]

\* run_job, step by step.
SupervisorBegins(job) == [job EXCEPT !.phase = "running", !.sup = "alive"]
PackageBegins(job) == [job EXCEPT !.pkg = "alive"]
PackageEnds(job) == [job EXCEPT !.pkg = "ended"]
SupervisorReports(job, phase) == [job EXCEPT !.phase = phase, !.sup = "gone"]
SupervisorDies(job) == [job EXCEPT !.sup = "gone"]

\* It failed on the way: unknown while the package process lives.  The faulty variant says failed.
SupervisorFailsBluntly(job) == SupervisorReports(job, "failed")
SupervisorFails(job) == SupervisorReports(job, IF job.pkg = "alive" THEN "unknown" ELSE "failed")

\* status: what a reader of the record is told, and "error" when there is none.
StatusOf(job) ==
    CASE job.phase = "none" -> {"error"}
      [] job.phase = "running" /\ job.sup = "gone" -> {"unknown"}
      [] job.phase = "starting" -> {"starting", "unknown"}
      [] OTHER -> {job.phase}

\* The package manager works on it, or may still come to.
Working(s, j) == j \in s.wire \/ s.jobs[j].sup \in {"new", "alive"} \/ s.jobs[j].pkg = "alive"
=============================================================================
