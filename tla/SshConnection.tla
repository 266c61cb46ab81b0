---------------------------- MODULE SshConnection ----------------------------
(***************************************************************************)
(* The life of an SSH connection in NoxShell: SshSession on the GUI thread *)
(* and Libssh2Worker on its own thread, joined by two queues of Qt events  *)
(* and by one atomic, the worker's connection generation.                  *)
(*                                                                         *)
(* The GUI side is re-entrant: a credential provider, a slot of            *)
(* connectionChanged and the host-key message box each run a nested event  *)
(* loop, so calls of SshSession are a stack of frames and queued events    *)
(* are delivered while frames are open.  The worker is busy, and takes no  *)
(* event, from connectTo until the shell is open, the host key needs an    *)
(* answer or the attempt failed; only the generation reaches it meanwhile. *)
(*                                                                         *)
(* One profile (one pane) with password authentication is modelled; the    *)
(* data of a profile are its address and its credential reference.         *)
(***************************************************************************)
EXTENDS Naturals, Sequences

CONSTANTS
    Hosts,         \* addresses the pane's profile may point to
    FirstHosts,    \* those it may point to at the start
    Keys,          \* host-key fingerprints
    HostKey,       \* [Hosts -> Keys], what each address answers with
    Secrets,       \* passwords
    HostSecret,    \* [Hosts -> Secrets], what each address accepts
    NoKey,         \* the empty fingerprint
    NoSecret,      \* the empty password
    MaxAttempts    \* bound on connection attempts

ASSUME AddressAssumption == FirstHosts \subseteq Hosts /\ HostKey \in [Hosts -> Keys] /\ NoKey \notin Keys
ASSUME SecretAssumption == HostSecret \in [Hosts -> Secrets] /\ NoSecret \notin Secrets
ASSUME BoundAssumption == MaxAttempts \in Nat

\* A reference names an item of the credential store: 0 is none, 1 an item
\* stored earlier, and n + 1 the item attempt n creates.
NoRef == 0
Refs == 0 .. MaxAttempts + 1
Profiles == [host : Hosts, ref : Refs]
Requests == [attempt : Nat, host : Hosts, expected : Keys \cup {NoKey}, secret : Secrets \cup {NoSecret}]

\* "kept" is the password to remember once the proxy's was read.
Frames ==
    [kind : {"proxy"}, request : Requests, ref : Refs, kept : Secrets \cup {NoSecret}]
        \cup [kind : {"load", "announce"}, request : Requests]
        \cup [kind : {"dialog"}]

WorkerEvents ==
    [op : {"connect"}, gen : Nat, request : Requests]
        \cup [op : {"approve"}, approved : BOOLEAN]
        \cup [op : {"disconnect"}]
GuiEvents ==
    [type : {"progress", "up", "down", "rejected"}, gen : Nat]
        \cup [type : {"hostKey"}, key : Keys]

\* Where the worker is in connectTo and continueAuthentication; in the first
\* five it runs its event loop, in the others it is inside a slot.
Resting == {"idle", "waitKey", "connected"}
Busy == {"tcp", "handshake", "auth", "shell", "rejected"}

VARIABLES
    connected, connecting, loading, waiting,  \* m_connected, m_connecting, m_loadingCredentials, m_waitingForPassword
    attempt,      \* m_connectionAttempt
    tgen,         \* m_transportGeneration, 0 when no transport is wanted
    demo,         \* m_demo
    profile,      \* m_profile
    remember,     \* m_credentialToRemember
    pendingKey,   \* m_pendingFingerprint
    stack,        \* open calls of SshSession, the innermost last
    overwritten,  \* auxiliary: a call of an earlier attempt wrote into this one
    demoTimers,   \* attempts whose demo timer is running
    row,          \* the saved profile in the database
    vault,        \* the credential store
    knownHosts,   \* the known_hosts table
    wgen,         \* the worker's atomic m_connectionGeneration
    wstate,       \* position of the worker thread
    wactive,      \* the worker's m_activeConnectionGeneration
    wjob,         \* the request the worker serves
    toWorker,     \* events queued to the worker
    toGui         \* events queued to the GUI

flags == <<connected, connecting, loading, waiting>>
stores == <<row, vault, knownHosts>>
worker == <<wstate, wactive, wjob>>
vars == <<flags, attempt, tgen, demo, profile, remember, pendingKey, stack, overwritten,
          demoTimers, stores, wgen, worker, toWorker, toGui>>

Init ==
    /\ connected = FALSE /\ connecting = FALSE /\ loading = FALSE /\ waiting = FALSE
    /\ attempt = 0 /\ tgen = 0 /\ demo = TRUE
    /\ row \in [host : FirstHosts, ref : {NoRef, 1}]
    /\ profile = row
    /\ remember = NoSecret /\ pendingKey = NoKey
    /\ stack = <<>> /\ overwritten = FALSE /\ demoTimers = {}
    /\ \E s \in Secrets \cup {NoSecret} :
          vault = [r \in Refs |-> IF r = row.ref /\ r # NoRef THEN s ELSE NoSecret]
    /\ knownHosts = [h \in Hosts |-> NoKey]
    /\ wgen = 1 /\ wstate = "idle" /\ wactive = 1
    /\ wjob = [attempt |-> 0, host |-> row.host, expected |-> NoKey, secret |-> NoSecret]
    /\ toWorker = <<>> /\ toGui = <<>>

-----------------------------------------------------------------------------
(* The GUI thread. *)

Top == stack[Len(stack)]
Pop == SubSeq(stack, 1, Len(stack) - 1)

\* The message box is application modal: while it is open no other input.
InputAllowed == ~(stack # <<>> /\ Top.kind = "dialog")

\* Faulty: tears down only what the pane shows as connected.
CancelTransportIfConnected ==
    IF demo \/ ~connected THEN UNCHANGED <<wgen, toWorker>>
    ELSE wgen' = wgen + 1 /\ toWorker' = Append(toWorker, [op |-> "disconnect"])

\* The end of disconnectFromHost: a demo session has no transport to cancel.
CancelTransport ==
    IF demo THEN UNCHANGED <<wgen, toWorker>>
    ELSE wgen' = wgen + 1 /\ toWorker' = Append(toWorker, [op |-> "disconnect"])

\* Faulty: a password to remember outlives the attempt it was typed for.
EndAttemptKeepingSecret(kept) ==
    /\ attempt < MaxAttempts
    /\ attempt' = attempt + 1
    /\ connected' = FALSE /\ overwritten' = FALSE
    /\ remember' = IF kept = NoSecret THEN remember ELSE kept
    /\ CancelTransport

\* Every call opens a new attempt; what the old one was to remember goes, and
\* "kept" is what the new one is to.
EndAttempt(kept) ==
    /\ attempt < MaxAttempts
    /\ attempt' = attempt + 1
    /\ connected' = FALSE /\ overwritten' = FALSE
    /\ remember' = kept
    /\ CancelTransport

\* Faulty: m_loadingCredentials is not reset.
DisconnectWhileLoading ==
    /\ EndAttempt(NoSecret)
    /\ tgen' = 0
    /\ connecting' = FALSE /\ waiting' = FALSE
    /\ UNCHANGED <<loading, demo, profile, pendingKey, stack, demoTimers, stores, worker, toGui>>

DisconnectFromHost ==
    /\ EndAttempt(NoSecret)
    /\ tgen' = 0
    /\ connecting' = FALSE /\ loading' = FALSE /\ waiting' = FALSE
    /\ UNCHANGED <<demo, profile, pendingKey, stack, demoTimers, stores, worker, toGui>>

UserDisconnects == InputAllowed /\ DisconnectFromHost

\* The 30 s timer fires in nested loops too, under an open message box.
IdleTimeout == connected /\ ~demo /\ DisconnectFromHost

\* connectToImpl up to the choice of a secret.
BeginAttempt(p, isDemo, kept) ==
    /\ ~loading
    /\ EndAttempt(kept)
    /\ tgen' = wgen'
    /\ profile' = p
    /\ demo' = isDemo
    /\ pendingKey' = NoKey
    /\ UNCHANGED <<stores, worker, toGui>>

Open(kind, p, secret) ==
    stack' = Append(stack, [kind |-> kind,
        request |-> [attempt |-> attempt', host |-> p.host, expected |-> knownHosts[p.host], secret |-> secret]])

\* The pane starts nothing while its session is up or under way.
PaneConnects == InputAllowed /\ ~connected /\ ~connecting

\* A proxy with a stored password is configured: its provider runs first.
OpenBehindProxy(p, secret, kept) ==
    /\ connecting' = TRUE /\ loading' = FALSE /\ waiting' = FALSE
    /\ stack' = Append(stack, [kind |-> "proxy", ref |-> p.ref, kept |-> kept,
           request |-> [attempt |-> attempt', host |-> p.host, expected |-> NoKey, secret |-> secret]])

\* connectTo: a secret in the profile, else the stored one, else a prompt.
ConnectTo(secret) ==
    /\ PaneConnects
    /\ BeginAttempt(row, FALSE, NoSecret)
    /\ UNCHANGED demoTimers
    /\ \/ OpenBehindProxy(row, secret, NoSecret)
       \/ /\ secret = NoSecret /\ row.ref # NoRef
          /\ connecting' = TRUE /\ loading' = TRUE /\ waiting' = FALSE
          /\ Open("load", row, NoSecret)
       \/ /\ secret = NoSecret /\ row.ref = NoRef
          /\ connecting' = FALSE /\ loading' = FALSE /\ waiting' = TRUE
          /\ UNCHANGED stack
       \/ /\ secret # NoSecret
          /\ connecting' = TRUE /\ loading' = FALSE /\ waiting' = FALSE
          /\ Open("announce", row, secret)

ConnectToDemo ==
    /\ PaneConnects
    /\ BeginAttempt(row, TRUE, NoSecret)
    /\ connecting' = TRUE /\ loading' = FALSE /\ waiting' = FALSE
    /\ demoTimers' = demoTimers \cup {attempt'}
    /\ UNCHANGED stack

\* connectWithPassword: what was typed, never the stored item.
ConnectWithPassword(secret, keep) ==
    LET kept == IF keep THEN secret ELSE NoSecret IN
    /\ InputAllowed
    /\ waiting /\ ~connecting
    /\ UNCHANGED demoTimers
    /\ \/ /\ BeginAttempt(profile, FALSE, NoSecret)
          /\ OpenBehindProxy(profile, secret, kept)
       \/ /\ BeginAttempt(profile, FALSE, kept)
          /\ connecting' = TRUE /\ loading' = FALSE /\ waiting' = FALSE
          /\ Open("announce", profile, secret)

\* The provider of the proxy's password returns, with an error or with it, and
\* connectToImpl goes on without a look at the attempt: what it writes may be
\* the state of a later one.  Only before the next nested call it stops.
ProxyReturns ==
    /\ stack # <<>> /\ Top.kind = "proxy"
    /\ LET request == [Top.request EXCEPT !.expected = knownHosts[Top.request.host]] IN
       \/ /\ connecting' = FALSE /\ stack' = Pop
          /\ UNCHANGED <<loading, waiting, remember>>
       \/ /\ request.secret = NoSecret /\ Top.ref # NoRef
          /\ loading' = TRUE
          /\ stack' = IF request.attempt = attempt
                      THEN Append(Pop, [kind |-> "load", request |-> request]) ELSE Pop
          /\ UNCHANGED <<connecting, waiting, remember>>
       \/ /\ request.secret = NoSecret /\ Top.ref = NoRef
          /\ connecting' = FALSE /\ waiting' = TRUE /\ stack' = Pop
          /\ UNCHANGED <<loading, remember>>
       \/ /\ request.secret # NoSecret
          /\ remember' = IF Top.kept = NoSecret THEN remember ELSE Top.kept
          /\ stack' = Append(Pop, [kind |-> "announce", request |-> request])
          /\ UNCHANGED <<connecting, loading, waiting>>
    /\ UNCHANGED <<connected, attempt, tgen, demo, profile, pendingKey, demoTimers, stores,
                   wgen, worker, toWorker, toGui>>
    /\ overwritten' = \/ overwritten
                      \/ Top.request.attempt # attempt /\ <<flags, remember>>' # <<flags, remember>>

\* The credential provider returns: to an attempt that is over, with an
\* error, without a password, or with one.
LoadReturns ==
    /\ stack # <<>> /\ Top.kind = "load"
    /\ \/ /\ Top.request.attempt # attempt
          /\ stack' = Pop
          /\ UNCHANGED flags
       \/ /\ Top.request.attempt = attempt
          /\ stack' = Pop
          /\ loading' = FALSE /\ connecting' = FALSE /\ waiting' = TRUE
          /\ UNCHANGED connected
       \/ /\ Top.request.attempt = attempt
          /\ vault[profile.ref] # NoSecret
          /\ stack' = Append(Pop, [kind |-> "announce",
                                   request |-> [Top.request EXCEPT !.secret = vault[profile.ref]]])
          /\ loading' = FALSE
          /\ UNCHANGED <<connected, connecting, waiting>>
    /\ UNCHANGED <<attempt, tgen, demo, profile, remember, pendingKey, overwritten, demoTimers, stores,
                   wgen, worker, toWorker, toGui>>

\* The slots of "connecting to ..." return; the request leaves for the worker
\* unless one of them replaced the attempt.
AnnounceReturns ==
    /\ stack # <<>> /\ Top.kind = "announce"
    /\ stack' = Pop
    /\ IF Top.request.attempt = attempt
       THEN toWorker' = Append(toWorker, [op |-> "connect", gen |-> tgen, request |-> Top.request])
       ELSE UNCHANGED toWorker
    /\ UNCHANGED <<flags, attempt, tgen, demo, profile, remember, pendingKey, overwritten, demoTimers, stores,
                   wgen, worker, toGui>>

\* approveHostKey(approved), called when the message box returns.
AnswerHostKey(approved) ==
    /\ stack # <<>> /\ Top.kind = "dialog"
    /\ stack' = Pop
    /\ knownHosts' = IF approved /\ pendingKey # NoKey
                     THEN [knownHosts EXCEPT ![profile.host] = pendingKey] ELSE knownHosts
    /\ toWorker' = Append(toWorker, [op |-> "approve", approved |-> approved])
    /\ pendingKey' = NoKey
    /\ UNCHANGED <<flags, attempt, tgen, demo, profile, remember, overwritten, demoTimers, row, vault,
                   wgen, worker, toGui>>

\* Faulty: the timer does not check that its attempt is the latest.
DemoTimerFiresLate(a) ==
    /\ a \in demoTimers
    /\ demoTimers' = demoTimers \ {a}
    /\ IF demo THEN connected' = TRUE /\ connecting' = FALSE
       ELSE UNCHANGED <<connected, connecting>>
    /\ UNCHANGED <<loading, waiting, attempt, tgen, demo, profile, remember, pendingKey, stack,
                   overwritten, stores, wgen, worker, toWorker, toGui>>

DemoTimerFires(a) ==
    /\ a \in demoTimers
    /\ demoTimers' = demoTimers \ {a}
    /\ IF demo /\ a = attempt THEN connected' = TRUE /\ connecting' = FALSE
       ELSE UNCHANGED <<connected, connecting>>
    /\ UNCHANGED <<loading, waiting, attempt, tgen, demo, profile, remember, pendingKey, stack,
                   overwritten, stores, wgen, worker, toWorker, toGui>>

\* The server dialog saves another address for the same profile.
EditProfile(h) ==
    /\ InputAllowed /\ h # row.host
    /\ row' = [row EXCEPT !.host = h]
    /\ UNCHANGED <<flags, attempt, tgen, demo, profile, remember, pendingKey, stack, overwritten, demoTimers,
                   vault, knownHosts, wgen, worker, toWorker, toGui>>

-----------------------------------------------------------------------------
(* Events of the worker, delivered on the GUI thread. *)

Deliver(type) == toGui # <<>> /\ Head(toGui).type = type /\ toGui' = Tail(toGui)
Current == Head(toGui).gen = tgen

\* rememberSuccessfulCredential: a new item, then the reference of the saved
\* profile if it still is the one that was connected; both may fail.
RememberSuccessfulCredential ==
    /\ remember' = NoSecret
    /\ \/ UNCHANGED <<row, vault, profile>>
       \/ /\ remember # NoSecret /\ row = profile
          /\ vault' = [vault EXCEPT ![attempt + 1] = remember]
          /\ row' = [row EXCEPT !.ref = attempt + 1]
          /\ profile' = row'

\* Faulty: a success of any generation is believed.
HandleAnyConnected ==
    /\ Deliver("up")
    /\ connected' = TRUE /\ connecting' = FALSE
    /\ RememberSuccessfulCredential
    /\ UNCHANGED <<loading, waiting, attempt, tgen, demo, pendingKey, stack, overwritten, demoTimers,
                   knownHosts, wgen, worker, toWorker>>

HandleConnected ==
    /\ Deliver("up")
    /\ IF Current
       THEN /\ connected' = TRUE /\ connecting' = FALSE
            /\ RememberSuccessfulCredential
       ELSE UNCHANGED <<connected, connecting, remember, row, vault, profile>>
    /\ UNCHANGED <<loading, waiting, attempt, tgen, demo, pendingKey, stack, overwritten, demoTimers,
                   knownHosts, wgen, worker, toWorker>>

HandleProgress ==
    /\ Deliver("progress")
    /\ IF Current THEN connected' = FALSE /\ connecting' = TRUE
       ELSE UNCHANGED <<connected, connecting>>
    /\ UNCHANGED <<loading, waiting, attempt, tgen, demo, profile, remember, pendingKey, stack,
                   overwritten, demoTimers, stores, wgen, worker, toWorker>>

HandleFailed ==
    /\ Deliver("down")
    /\ IF Current THEN connected' = FALSE /\ connecting' = FALSE /\ remember' = NoSecret
       ELSE UNCHANGED <<connected, connecting, remember>>
    /\ UNCHANGED <<loading, waiting, attempt, tgen, demo, profile, pendingKey, stack,
                   overwritten, demoTimers, stores, wgen, worker, toWorker>>

HandlePasswordRejected ==
    /\ Deliver("rejected")
    /\ IF Current /\ ~connected /\ ~connecting /\ ~loading
       THEN waiting' = TRUE /\ remember' = NoSecret
       ELSE UNCHANGED <<waiting, remember>>
    /\ UNCHANGED <<connected, connecting, loading, attempt, tgen, demo, profile, pendingKey, stack,
                   overwritten, demoTimers, stores, wgen, worker, toWorker>>

\* Carries no generation: the key becomes the pending one of any attempt.
HandleHostKey ==
    /\ Deliver("hostKey")
    /\ pendingKey' = Head(toGui).key
    /\ stack' = Append(stack, [kind |-> "dialog"])
    /\ UNCHANGED <<flags, attempt, tgen, demo, profile, remember, overwritten, demoTimers, stores,
                   wgen, worker, toWorker>>

-----------------------------------------------------------------------------
(* The worker thread. *)

gui == <<flags, attempt, tgen, demo, profile, remember, pendingKey, stack, overwritten, demoTimers,
         stores, wgen>>

Canceled == wactive # wgen
Report(type) == Append(toGui, [type |-> type, gen |-> wactive])
Fail == wstate' = "idle" /\ toGui' = Report("down")
Take(op) == wstate \in Resting /\ toWorker # <<>> /\ Head(toWorker).op = op /\ toWorker' = Tail(toWorker)

WorkerConnects ==
    /\ Take("connect")
    /\ wactive' = Head(toWorker).gen
    /\ wjob' = Head(toWorker).request
    /\ IF wactive' # wgen
       THEN wstate' = "idle" /\ UNCHANGED toGui
       ELSE wstate' = "tcp" /\ toGui' = Append(toGui, [type |-> "progress", gen |-> wactive'])
    /\ UNCHANGED gui

WorkerDisconnects ==
    /\ Take("disconnect")
    /\ IF wstate = "idle" THEN UNCHANGED <<wstate, toGui>> ELSE Fail
    /\ UNCHANGED <<gui, wactive, wjob>>

\* Faulty: a refused key closes the transport without a report.
WorkerRefusesSilently ==
    /\ Take("approve")
    /\ IF wstate # "waitKey" THEN UNCHANGED <<wstate, toGui>>
       ELSE IF Head(toWorker).approved THEN wstate' = "auth" /\ toGui' = Report("progress")
       ELSE wstate' = "idle" /\ UNCHANGED toGui
    /\ UNCHANGED <<gui, wactive, wjob>>

WorkerApproves ==
    /\ Take("approve")
    /\ IF wstate # "waitKey" THEN UNCHANGED <<wstate, toGui>>
       ELSE IF Head(toWorker).approved THEN wstate' = "auth" /\ toGui' = Report("progress")
       ELSE Fail
    /\ UNCHANGED <<gui, wactive, wjob>>

\* A stage times out, the network or the server ends it, or it sees that its
\* generation was canceled.
StageFails ==
    /\ wstate \in Busy \ {"rejected"}
    /\ Fail
    /\ UNCHANGED <<gui, wactive, wjob, toWorker>>

TcpDone ==
    /\ wstate = "tcp" /\ ~Canceled
    /\ wstate' = "handshake" /\ toGui' = Report("progress")
    /\ UNCHANGED <<gui, wactive, wjob, toWorker>>

\* An unknown key waits for the user, a changed one blocks the connection.
HandshakeDone ==
    /\ wstate = "handshake" /\ ~Canceled
    /\ \/ /\ wjob.expected = NoKey
          /\ wstate' = "waitKey"
          /\ toGui' = Append(Report("progress"), [type |-> "hostKey", key |-> HostKey[wjob.host]])
       \/ /\ wjob.expected = HostKey[wjob.host]
          /\ wstate' = "auth" /\ toGui' = Report("progress")
       \/ wjob.expected \notin {NoKey, HostKey[wjob.host]} /\ Fail
    /\ UNCHANGED <<gui, wactive, wjob, toWorker>>

AuthDone ==
    /\ wstate = "auth" /\ ~Canceled
    /\ IF wjob.secret = HostSecret[wjob.host]
       THEN wstate' = "shell" /\ UNCHANGED toGui
       ELSE wstate' = "rejected" /\ toGui' = Report("down")
    /\ UNCHANGED <<gui, wactive, wjob, toWorker>>

\* The transport is closed; the prompt is for an attempt still wanted.
ReportRejected ==
    /\ wstate = "rejected"
    /\ wstate' = "idle"
    /\ toGui' = IF Canceled THEN toGui ELSE Report("rejected")
    /\ UNCHANGED <<gui, wactive, wjob, toWorker>>

\* A cancellation seen only after the shell opened closes it silently.
ShellDone ==
    /\ wstate = "shell"
    /\ IF Canceled THEN wstate' = "idle" /\ UNCHANGED toGui
       ELSE wstate' = "connected" /\ toGui' = Report("up")
    /\ UNCHANGED <<gui, wactive, wjob, toWorker>>

TransportLost ==
    /\ wstate = "connected"
    /\ Fail
    /\ UNCHANGED <<gui, wactive, wjob, toWorker>>

-----------------------------------------------------------------------------

UserStep ==
    \/ UserDisconnects
    \/ \E s \in Secrets \cup {NoSecret} : ConnectTo(s)
    \/ ConnectToDemo
    \/ \E s \in Secrets, keep \in BOOLEAN : ConnectWithPassword(s, keep)
    \/ \E h \in Hosts : EditProfile(h)

GuiStep ==
    \/ ProxyReturns \/ LoadReturns \/ AnnounceReturns
    \/ \E a \in demoTimers : DemoTimerFires(a)
    \/ HandleConnected \/ HandleProgress \/ HandleFailed
    \/ HandlePasswordRejected \/ HandleHostKey

AnswerStep == \E approved \in BOOLEAN : AnswerHostKey(approved)

WorkerStep ==
    \/ WorkerConnects \/ WorkerDisconnects \/ WorkerApproves
    \/ StageFails \/ TcpDone \/ HandshakeDone \/ AuthDone \/ ReportRejected \/ ShellDone

Next == UserStep \/ GuiStep \/ AnswerStep \/ WorkerStep \/ IdleTimeout \/ TransportLost

\* Both event loops keep running, every stage of the worker has a timeout, and
\* nested loops return.
Fairness == WF_vars(GuiStep) /\ WF_vars(WorkerStep)

Spec == Init /\ [][Next]_vars
LiveSpec == Spec /\ Fairness

-----------------------------------------------------------------------------
(* What makes the component correct. *)

\* Every variable keeps the shape the declarations of SshSession.h and
\* Libssh2Worker.h give it.
TypeOK ==
    /\ connected \in BOOLEAN /\ connecting \in BOOLEAN
    /\ loading \in BOOLEAN /\ waiting \in BOOLEAN /\ demo \in BOOLEAN /\ overwritten \in BOOLEAN
    /\ attempt \in 0 .. MaxAttempts /\ tgen \in Nat
    /\ profile \in Profiles /\ row \in Profiles
    /\ remember \in Secrets \cup {NoSecret} /\ pendingKey \in Keys \cup {NoKey}
    /\ stack \in Seq(Frames) /\ demoTimers \subseteq Nat
    /\ vault \in [Refs -> Secrets \cup {NoSecret}]
    /\ knownHosts \in [Hosts -> Keys \cup {NoKey}]
    /\ wgen \in Nat /\ wstate \in Resting \cup Busy /\ wactive \in Nat /\ wjob \in Requests
    /\ toWorker \in Seq(WorkerEvents) /\ toGui \in Seq(GuiEvents)

Told(type, g) == \E i \in DOMAIN toGui : toGui[i].type = type /\ toGui[i].gen = g
Asked(op) == \E i \in DOMAIN toWorker : toWorker[i].op = op

\* Connected to a live transport of its own generation, or its end is on the way.
ConnectedIsBacked ==
    connected => \/ demo
                 \/ wstate = "connected" /\ wactive = tgen
                 \/ Told("down", tgen)

\* A frame of the latest attempt, still to come back from a callback.
OpenFrame(kinds) == \E i \in DOMAIN stack : stack[i].kind \in kinds /\ stack[i].request.attempt = attempt

\* A host key that waits for the user can still be answered: a message box is
\* open or about to open, or an answer or a teardown is on its way.
KeyAnswerable ==
    \/ \E i \in DOMAIN stack : stack[i].kind = "dialog"
    \/ \E i \in DOMAIN toGui : toGui[i].type = "hostKey"
    \/ Asked("approve") \/ Asked("disconnect")

\* Connecting: something that ends it will come.
ConnectingIsBacked ==
    connecting => \/ OpenFrame({"proxy", "load", "announce"})
                  \/ demo /\ attempt \in demoTimers
                  \/ \E i \in DOMAIN toWorker : toWorker[i].op = "connect" /\ toWorker[i].gen = tgen
                  \/ wactive = tgen /\ wstate \in Busy \ {"rejected"}
                  \/ wactive = tgen /\ wstate = "waitKey" /\ KeyAnswerable
                  \/ Told("up", tgen) \/ Told("down", tgen)

\* The session asks for a password only when nothing of it is running.
PromptIsExclusive ==
    waiting => /\ ~connected /\ ~connecting /\ ~loading
               /\ ~Told("up", tgen)
               /\ wactive = tgen => wstate \in {"idle", "rejected"}

\* What a pane shows is true or about to be corrected: no interleaving of
\* cancellations, nested calls and late reports of the worker leaves it
\* connected to nothing or connecting for good (handleConnectionChanged), or
\* asking for a password whose answer would replace a connection that is up
\* or under way.  The last does not hold of an attempt that is overwritten: a
\* proxy password read for an earlier one may put its prompt over it.
PaneIsBacked ==
    TypeOK /\ ConnectedIsBacked /\ ConnectingIsBacked /\ (overwritten \/ PromptIsExclusive)

\* m_loadingCredentials, which makes connectTo refuse every call, is only set
\* while the provider of the latest attempt has yet to return; except in an
\* attempt that is overwritten, where a proxy password read for an earlier one
\* sets it for good.
LoadingIsOpen == loading => overwritten \/ OpenFrame({"load"})

\* A transport nobody wants any more is about to be closed: its generation is
\* the session's, or a teardown is queued behind it.
OrphanTransportCloses ==
    wstate \notin {"idle", "rejected"} => wactive = tgen \/ Asked("disconnect")

AuthenticatesKnownKey ==
    wstate \in {"auth", "shell", "connected"} => knownHosts[wjob.host] = HostKey[wjob.host]

\* While the profile keeps its address, credentials are sent only under a host
\* key the user accepted for it (continueAuthentication after approveHostKey,
\* or an expected fingerprint read from known_hosts).
OneAddressIsSafe ==
    \A h \in FirstHosts : [](profile.host = h /\ row.host = h) => []AuthenticatesKnownKey

\* A password is remembered only after the address it is saved for accepted
\* it, however many attempts, edits and late reports lie between; an attempt
\* that is overwritten may remember what was typed for an earlier one.
RemembersAcceptedSecret ==
    [][row'.ref # row.ref => overwritten \/ vault'[row'.ref] = HostSecret[row'.host]]_vars

\* A secret is sent only to a host whose key was accepted for its address,
\* while the pane keeps that address, and kept only for an address that
\* accepted it, unless the attempt is overwritten.
SecretsAreSafe == OneAddressIsSafe /\ RemembersAcceptedSecret

\* The user sees one attempt after the other, each moving only forward until
\* a call left over from an earlier one overwrites it.
view ==
    IF overwritten THEN "overwritten" ELSE IF connected THEN "connected" ELSE IF connecting THEN "connecting"
    ELSE IF waiting THEN "prompt" ELSE IF tgen = 0 THEN "off" ELSE "failed"
Lifecycle == INSTANCE SessionView WITH view <- view
ImplementsSessionView == Lifecycle!Spec

\* An attempt comes to an end by itself, unless it waits for the user's answer
\* to a host key.
AttemptEnds == connecting ~> (~connecting \/ \E i \in DOMAIN stack : stack[i].kind = "dialog")
=============================================================================
