----------------------------- MODULE FileRequests -----------------------------
(***************************************************************************)
(* How the file panel and the file editor of a pane reach the server: the  *)
(* session (SshSession, user interface thread) numbers every request with  *)
(* the generation of the connection and forwards only the answers of the   *)
(* current one; the worker (Libssh2Worker, its own thread) takes the calls *)
(* in order, except that it puts off those that meet the opening of a size *)
(* or tool channel.  What a request does is the business of the modules    *)
(* that extend this one; how a connection is made is SshConnection's.      *)
(***************************************************************************)
EXTENDS Naturals, Sequences

CONSTANTS
    Hosts,     \* servers the profile of the pane may name
    NoLink,    \* the worker is not connected
    MaxGen     \* bound on connections and disconnections

ASSUME GenAssumption == MaxGen \in Nat /\ Hosts # {}

Gens == 0 .. MaxGen
Links == [host : Hosts, gen : Gens]
ASSUME LinkAssumption == NoLink \notin Links

VARIABLES
    connected,   \* m_connected of the session
    target,      \* the host of its profile
    gen,         \* m_directoryGeneration
    link,        \* the worker's connection: its host and generation
    calls,       \* signals on their way to the worker
    deferred,    \* calls that wait for a timer of the worker
    reports      \* signals on their way back

session == <<connected, target, gen>>
worker == <<link, deferred>>
requestVars == <<session, worker, calls, reports>>

\* The pane is connected and nothing is under way.
RequestsInit ==
    /\ connected = TRUE /\ target = (CHOOSE h \in Hosts : TRUE) /\ gen = 0
    /\ link = [host |-> target, gen |-> 0]
    /\ calls = <<>> /\ deferred = {} /\ reports = <<>>

\* What a request carries: generation and server.  The server is history.
Ask(data) == calls' = Append(calls, [call |-> data, gen |-> gen, host |-> target])

\* connectTo (after disconnectFromHost) and disconnectFromHost.
BeginConnect(h) ==
    /\ gen < MaxGen
    /\ gen' = gen + 1 /\ connected' = FALSE /\ target' = h
    /\ calls' = Append(calls, [call |-> [op |-> "connect"], gen |-> gen', host |-> h])

BeginDisconnect ==
    /\ gen < MaxGen
    /\ gen' = gen + 1 /\ connected' = FALSE
    /\ calls' = Append(calls, [call |-> [op |-> "disconnect"], gen |-> gen', host |-> target])
    /\ UNCHANGED target

\* ------------------------------------------------------------------------
\* The worker.

Connecting(c) == c.call.op = "connect"
Closing(c) == c.call.op = "disconnect"

\* A connection attempt succeeds, unless it was given up by then, or fails.
ServeConnect ==
    /\ calls # <<>> /\ Connecting(Head(calls))
    /\ LET c == Head(calls) IN
       \/ /\ c.gen = gen
          /\ link' = [host |-> c.host, gen |-> c.gen]
          /\ reports' = Append(reports, [call |-> [op |-> "up"], gen |-> c.gen])
       \/ /\ link' = NoLink
          /\ reports' = Append(reports, [call |-> [op |-> "down"], gen |-> c.gen])
    /\ calls' = Tail(calls)
    /\ UNCHANGED deferred

ServeDisconnect ==
    /\ calls # <<>> /\ Closing(Head(calls))
    /\ link' = NoLink
    /\ calls' = Tail(calls)
    /\ UNCHANGED <<deferred, reports>>

LoseLink ==
    /\ link # NoLink
    /\ link' = NoLink
    /\ reports' = Append(reports, [call |-> [op |-> "down"], gen |-> link.gen])
    /\ UNCHANGED <<calls, deferred>>

\* deferDuringSizeChannelSetup: the call comes again, after others that were
\* made later but met the worker when the channel was open.
Defer ==
    /\ calls # <<>> /\ link # NoLink
    /\ ~Connecting(Head(calls)) /\ ~Closing(Head(calls))
    /\ deferred' = deferred \cup {Head(calls)}
    /\ calls' = Tail(calls)
    /\ UNCHANGED <<link, reports>>

\* Faulty: a timer runs its call on whatever connection there is by then.
TakenAnywhere(c) ==
    \/ /\ calls # <<>> /\ c = Head(calls) /\ ~Connecting(c) /\ ~Closing(c)
       /\ calls' = Tail(calls) /\ UNCHANGED deferred
    \/ /\ c \in deferred /\ link # NoLink
       /\ deferred' = deferred \ {c} /\ UNCHANGED calls

\* The worker runs a request that arrives, or one that was put off if its
\* connection is still there and nobody has ended it.
Alive(c) == IF link = NoLink THEN FALSE ELSE link.gen = c.gen /\ c.gen = gen

Taken(c) ==
    \/ /\ calls # <<>> /\ c = Head(calls) /\ ~Connecting(c) /\ ~Closing(c)
       /\ calls' = Tail(calls) /\ UNCHANGED deferred
    \/ /\ c \in deferred /\ Alive(c)
       /\ deferred' = deferred \ {c} /\ UNCHANGED calls

\* Otherwise its timer does nothing, and nobody hears of the request again.
Vanish ==
    /\ \E c \in deferred : ~Alive(c) /\ deferred' = deferred \ {c}
    /\ UNCHANGED <<link, calls, reports>>

Requests == (IF calls = <<>> THEN {} ELSE {Head(calls)}) \cup deferred

\* ------------------------------------------------------------------------
\* The session takes the next report; it drops those of another generation.

NextReport(op) ==
    /\ reports # <<>> /\ Head(reports).call.op = op
    /\ Head(reports).gen = gen
    /\ reports' = Tail(reports)

StaleReport ==
    /\ reports # <<>> /\ Head(reports).gen # gen
    /\ reports' = Tail(reports)

InFlight(Match(_)) ==
    \/ \E i \in DOMAIN calls : Match(calls[i])
    \/ \E c \in deferred : Match(c)
    \/ \E i \in DOMAIN reports : Match(reports[i])
=============================================================================
