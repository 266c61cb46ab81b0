----------------------------- MODULE AgentBridge -----------------------------
(***************************************************************************)
(* The agent panel of a pane (AgentPanel, LocalAgentProcess): a local      *)
(* agent, whose tool process (AgentMcpStdio) asks for commands over a      *)
(* local socket, the question that approves each of them, and the answer.  *)
(* A socket keeps the token of the launch it comes from, whether its line  *)
(* is unread, the call it stands for, and what it was answered.            *)
(***************************************************************************)
EXTENDS ToolSlot

NoSocket == [state |-> "none", token |-> 0, asked |-> FALSE, req |-> 0, reply |-> 0, said |-> 0]
Open(s, k) == s.socks[k].state = "open"
Refused == -1           \* an error; a result is the number of the socket that asked for it

\* A closed socket is kept while a question or a running command remembers it.
Tidied(s) ==
    LET kept(k) == \/ s.socks[k].state # "closed"
                   \/ s.pending # 0 /\ s.pending = s.socks[k].req
                   \/ \E i \in DOMAIN s.modals : s.modals[i].kind = "command" /\ s.modals[i].who = k
    IN  [s EXCEPT !.socks = [k \in Sockets |-> IF kept(k) THEN @[k] ELSE NoSocket]]

Reply(s, k, what) ==
    IF Open(s, k) THEN [s EXCEPT !.socks[k].reply = what, !.socks[k].said = @ + 1] ELSE s

\* A socket ends: by its client, by abort, or by disconnectFromServer.
Closed(s, k) ==
    LET gone == [s EXCEPT !.socks[k].state = "closed", !.client = IF @ = k THEN 0 ELSE @]
    IN  IF s.pending # 0 /\ s.pending = s.socks[k].req THEN CancelAgentCommand(gone) ELSE gone

\* The process ended, by itself or killed: the bridge closes with the socket of its last request.
AgentEnded(s) ==
    LET off == [s EXCEPT !.running = FALSE]
        given == IF off.pending # 0 THEN CancelAgentCommand(off) ELSE off
    IN  IF given.client # 0 THEN Closed(given, given.client) ELSE given

Stopped(s) == IF s.running THEN AgentEnded(s) ELSE s

\* launch: a new token for every launch.  A workspace that cannot be prepared changes nothing.
Launched(s) == [s EXCEPT !.running = TRUE, !.run = @ + 1]

\* A process of launch g connects and sends its line.
Connected(s, k, g) == [s EXCEPT !.socks[k] = [NoSocket EXCEPT !.state = "open", !.asked = TRUE, !.token = g]]

Busy(s) == s.pending # 0 \/ ~s.up \/ s.slot # 0 \/ \E i \in DOMAIN s.modals : s.modals[i].kind = "command"

\* handleBridgeRequest up to the question, whose dialog runs an event loop of its own.
HandleBridgeRequest(s, k) ==
    LET r == [s EXCEPT !.socks[k].asked = FALSE]
    IN  IF ~r.running \/ r.socks[k].token # r.run THEN Closed(Reply(r, k, Refused), k)
        ELSE IF Busy(r) THEN Reply(r, k, Refused)
        ELSE Ask([r EXCEPT !.client = k], Question("command", k, r.host))

\* What follows the question.  The faulty variant runs the command for a client that has gone.
DecidedForAnyone(s, yes, free) ==
    LET q == Head(s.modals)
        r == [s EXCEPT !.modals = Tail(@)]
        ran == RunAgentCommand(r, q.who)
    IN  IF ~yes \/ ~CanRun(r, free) THEN Reply(r, q.who, Refused)
        ELSE [ran EXCEPT !.pending = ran.slot, !.socks[q.who].req = ran.slot]

Decided(s, yes, free) ==
    LET q == Head(s.modals)
        r == [s EXCEPT !.modals = Tail(@)]
        ran == RunAgentCommand(r, q.who)
    IN  IF ~Open(r, q.who) \/ ~r.running THEN r
        ELSE IF ~yes \/ r.client = 0 \/ r.host # q.host \/ ~CanRun(r, free) THEN Reply(r, q.who, Refused)
        ELSE [ran EXCEPT !.pending = ran.slot, !.socks[q.who].req = ran.slot]

\* The slot of serverToolFinished that a running command connected.
AgentFinished(s, id, result) ==
    LET mine == {k \in Sockets : s.socks[k].req = id}
        done == [s EXCEPT !.pending = 0]
    IN  IF id # s.pending THEN s ELSE IF mine = {} THEN done ELSE Reply(done, CHOOSE k \in mine : TRUE, result)

AgentDown(s) == Stopped(s)
=============================================================================
