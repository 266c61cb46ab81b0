----------------------------- MODULE ServerTools -----------------------------
(***************************************************************************)
(* The dialog of the server tools (ServerToolsDialog): process list, speed *)
(* test and their refresh, one request at a time, a cancel that also stops *)
(* what would follow, a page that is changed while a query runs, and the   *)
(* question before a signal is sent; with the helper that sends it on the  *)
(* server (tools/server_tools.py), where a PID may meanwhile belong to     *)
(* another process.                                                        *)
(*                                                                         *)
(* A process is known by its PID and start time: one number here, 0 for    *)
(* none.  Pages 0 and 1 stand for those that are refreshed by themselves   *)
(* and the one that is not.                                                *)
(***************************************************************************)
EXTENDS ToolSlot

NoProcess == 0
NoTools ==
    [open |-> FALSE, tab |-> 0, request |-> 0, op |-> "none", page |-> 0, auto |-> FALSE,
     again |-> FALSE, cancel |-> FALSE, shown |-> NoProcess]
NoHelper == [stage |-> "none", host |-> NoHost, want |-> NoProcess, handle |-> NoProcess]

\* request: who is the process to be signalled, if it is a signal.  A helper that was sent before
\* and has not ended is not followed any longer.
ToolRequest(s, op, who, free) ==
    LET r == Submit(s, op, who)
        helper == IF op # "signal" THEN s.helper
                  ELSE [NoHelper EXCEPT !.stage = "sent", !.host = s.host, !.want = who]
    IN  IF s.tools.request # 0 \/ ~CanRun(s, free) THEN s
        ELSE [r EXCEPT !.tools = [@ EXCEPT !.request = r.slot, !.op = op, !.page = r.tools.tab, !.cancel = FALSE],
                       !.helper = helper]
RefreshTools(s, free) == ToolRequest(s, IF s.tools.tab = 0 THEN "processes" ELSE "interfaces", NoProcess, free)

CancelTools(s) == IF s.tools.request = 0 THEN s ELSE CancelServerTool(s, 0)

\* The page changes: a running query is given up, and the new page asked for when it has ended.
TabChanged(s, page, free) ==
    LET v == [s EXCEPT !.tools.tab = page]
    IN  IF s.tools.tab = page THEN s
        ELSE IF s.tools.request = 0 THEN RefreshTools(v, free)
        ELSE IF s.tools.cancel THEN v
        ELSE CancelTools([v EXCEPT !.tools.again = TRUE])

\* showPage, by a button of the pane.
PageShown(s, page, free) ==
    LET v == IF s.tools.open THEN s ELSE [s EXCEPT !.tools = [NoTools EXCEPT !.open = TRUE]]
    IN  IF v.tools.tab # page THEN TabChanged(v, page, free)
        ELSE IF v.tools.request = 0 THEN RefreshTools(v, free) ELSE v

\* cancelTask
TaskCancelled(s) ==
    CancelTools([s EXCEPT !.tools.again = FALSE, !.tools.auto = FALSE, !.tools.cancel = s.tools.request # 0])

\* closeEvent, hideEvent and the destructor, which give up a running request.
ToolsClosed(s) == [CancelTools(s) EXCEPT !.tools = NoTools]

\* finish: ok says that there is an answer; the list shows the process now there.
ToolsFinished(s, id, ok, free) ==
    LET r == [s EXCEPT !.tools.request = 0]
    IN  IF id = 0 \/ id # s.tools.request THEN s
        ELSE IF r.tools.cancel THEN [r EXCEPT !.tools.cancel = FALSE, !.tools.again = FALSE]
        ELSE IF r.tools.again THEN RefreshTools([r EXCEPT !.tools.again = FALSE], free)
        ELSE IF ok /\ r.tools.page = r.tools.tab /\ r.tools.op = "processes"
             THEN [r EXCEPT !.tools.shown = s.procs[s.host]]
        ELSE r

ToolsDown(s) == [s EXCEPT !.tools.auto = FALSE]

\* The buttons that controls() enables, and what follows their question.
ToolsReady(s) == s.tools.open /\ s.up /\ s.tools.request = 0
CanSignal(s) == ToolsReady(s) /\ s.tools.tab = 0 /\ s.tools.shown # NoProcess
ToolsDecided(s, yes, free) ==
    LET q == Head(s.modals)
        r == [s EXCEPT !.modals = Tail(@)]
    IN  IF yes /\ r.tools.open THEN ToolRequest(r, q.kind, q.who, free) ELSE r

-----------------------------------------------------------------------------
(* The helper on the server.  It may outlive its call until it sees that   *)
(* its input has ended.                                                    *)

\* signal_process: a handle of whoever has the PID, then a look at its start time, then the signal.
HelperOpens(s) == [s EXCEPT !.helper.stage = "opened", !.helper.handle = s.procs[s.helper.host]]
HelperChecks(s) == [s EXCEPT !.helper.stage = IF s.procs[s.helper.host] = s.helper.want THEN "checked" ELSE "ended"]

\* Who is reached: the process of the handle, if it still lives.  The faulty variant sends the
\* signal to the PID.
ReachedByPid(s) == s.procs[s.helper.host]
Reached(s) == IF s.procs[s.helper.host] = s.helper.handle THEN s.helper.handle ELSE NoProcess
HelperSignals(s) == [s EXCEPT !.helper.stage = "ended", !.struck = @ \/ Reached(s) \notin {NoProcess, s.helper.want}]
=============================================================================
