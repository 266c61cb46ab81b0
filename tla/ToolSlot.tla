------------------------------ MODULE ToolSlot ------------------------------
(***************************************************************************)
(* What the tools of one pane share: its session with the single slot of   *)
(* the management channel, and the modal dialogs that are open.  The       *)
(* session, the agent panel, the software dialog and the dialog of the     *)
(* server tools live on one thread and call each other; AgentBridge,       *)
(* SoftwareInstall and ServerTools give each of those calls as an operator *)
(* on the record t, and SessionTools puts them in order.                   *)
(*                                                                         *)
(* ManagementChannel is about the slot itself: here a call that was sent   *)
(* may be answered at any time, truly or with an error.                    *)
(***************************************************************************)
EXTENDS Integers, Sequences, FiniteSets

CONSTANTS
    Hosts,              \* the hosts the profile of the pane may name, one of them after an edit
    NoHost,
    MaxSockets,         \* connections to the bridge at a time
    MaxLaunches,        \* launches of the agent
    MaxJobs,            \* installations submitted
    MaxActs             \* what the user and the agent's clients do

ASSUME SlotAssumption ==
    /\ NoHost \notin Hosts /\ Hosts # {} /\ IsFiniteSet(Hosts)
    /\ MaxSockets \in Nat \ {0} /\ MaxLaunches \in Nat /\ MaxJobs \in Nat \ {0} /\ MaxActs \in Nat

VARIABLES
    t,                  \* the session, the agent, the dialog and the servers, see SessionTools!Fresh
    acts                \* a bound

Sockets == 1 .. MaxSockets
Jobs == 1 .. MaxJobs

Call(id, what, who) == [id |-> id, what |-> what, who |-> who, ans |-> "none"]
Question(kind, who, host) == [kind |-> kind, who |-> who, host |-> host]
Ask(s, question) == [s EXCEPT !.modals = <<question>> \o @]
Top(s) == IF s.modals = <<>> THEN "none" ELSE Head(s.modals).kind

\* Numbers only tell calls apart: one that nothing refers to any more is used again.
Unused(S) == CHOOSE n \in 1 .. (Cardinality(S) + 1) : n \notin S
InUse(s) ==
    {c.id : c \in s.calls} \cup {s.slot, s.pending, s.dialog.request, s.tools.request} \cup {s.socks[k].req : k \in Sockets}
FreshId(s) == Unused(InUse(s))

\* runServerTool and runAgentCommand refuse while anything else uses the channel; free says
\* whether samples, transfers and directory listings leave it alone.
CanRun(s, free) == s.up /\ s.slot = 0 /\ free
Submit(s, what, who) ==
    LET id == FreshId(s)
    IN  [s EXCEPT !.slot = id, !.desired = id, !.calls = @ \cup {Call(id, what, who)}]
RunAgentCommand(s, sock) == [Submit(s, "command", sock) EXCEPT !.flag = TRUE]

\* setDesiredDirectorySizeRequest(0): the call in the slot is given up, whosever it is.
Cancel(s) == [s EXCEPT !.desired = 0]
CancelAgentCommand(s) == IF s.flag /\ s.slot # 0 THEN Cancel(s) ELSE s
CancelServerTool(s, id) == IF s.slot # 0 /\ id \in {0, s.slot} THEN Cancel(s) ELSE s
=============================================================================
