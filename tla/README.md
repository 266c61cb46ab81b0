# Verification of NoxShell

NoxShell is a desktop SSH client (Qt, libssh2, a few Python helpers that run on
servers).  Its source is under `src/`; this directory holds TLA+ models of the
parts of it that are hard to test, TLC configurations that check them on small
instances, and TLAPS proofs of theorems that hold for every value of the
constants.

    tlc -workers 2 -config MCSshConnection.cfg MCSshConnection.tla
    tlapm SshConnection_proofs.tla

and so on for each `MC*.cfg` and each `*_proofs.tla`; `EventQueues` holds what
two of the proof modules say of queues of events, `SubSequences` the one way in
which two models take a part of a sequence, a recursive function the provers can
unfold.

`PROJECT.json` lists the components, the runs, the lines of the source every
definition stands for, a fault of the code that each property is known to
notice, the hazards and the theorems.  A module keeps the faulty operator that
belongs to a property beside the definition it would replace ("the faulty
variant ..."); nothing in the specification uses it.

## 1. The system

A window holds one workspace; its tabs hold terminal panes with a file area.
**Each pane owns one `SshSession`**, which lives in the GUI thread, and each
session owns one `Libssh2Worker` in a thread of its own with one TCP connection
and one libssh2 session.

    TerminalPanel, FilePanel, RemoteFileEditor, ServerToolsDialog, SoftwareInstallDialog, AgentPanel, TransferQueuePanel
         | calls                                     ^ signals (direct)
         v                                           |
    SshSession (GUI thread)  -- queued signals -->  Libssh2Worker (its thread)
                             <-- queued signals --
                             -- three atomics ---->  m_connectionGeneration, m_desiredSizeRequest,
                                                     m_cancelTransferId

Calls and answers are queued events, delivered in order.  What cannot wait for
the worker to return from a blocking libssh2 call goes through an atomic the
worker polls: the generation of the connection, the one management request
that is wanted, and the transfer that is canceled.  Three things make this
program hard.  An event that is still queued speaks of a connection, a request
or a task that an atomic has ended.  The GUI thread is re-entrant: credential
providers, approvals and message boxes run nested event loops, and directly
connected slots call back into whoever emits.  And nothing keeps a second
NoxShell from starting on the same database and vault.

### Inventory

| component | state | operations | hard behaviour | correct means | module |
|---|---|---|---|---|---|
| Connection lifecycle (`SshSession`, `Libssh2Worker`) | flags connected, connecting, loading, prompting; attempt and transport generations; the typed secret; the worker's stage | connect, connect with a typed password, disconnect, approve a host key, idle timeout, demo session, edit the profile; TCP, handshake, authentication, shell | calls nested in the credential provider, also a proxy's, and in `connectionChanged`; reports of replaced transports; a cancellation between two checks | what the pane shows is backed by the worker; an orphan transport is closed; a password is sent only under an accepted key; an attempt ends | `SshConnection`, `SessionView` |
| Management channel (`SshSession`, `Libssh2Worker`) | the one request id of the session, the holders' ids, the atomic, the worker's phase, its pending job, deferred operations | run a tool, an agent's command or a directory scan; cancel; metrics, listings | completion, cancellation, hard limit and teardown race; refresh from inside the answer; one slot for three windows | one job at a time, answered once; the slot is never lost or left with the wrong owner | `ManagementChannel` |
| Transfer queue (`SshSession`, `Libssh2Worker`) | tasks with states, the active id, the cancel atomic, the loop of the worker | enqueue with eviction, start, cancel, retry under the same id, answer, disconnect, reconnect | the atomic is reset by the worker; answers of an earlier run or connection; a request put off behind the channel | session and worker agree on what runs; nothing runs twice; nothing waits for good | `TransferQueue` |
| Remote file commit (`Libssh2Worker`) | names and contents on the server | write, resume, rename with fallbacks, roll back | any call fails or its answer is lost; servers without an atomic rename | the file is a whole version; the old one is never lost before the new one is there | `RemoteCommit` |
| Requests for files (`SshSession`, `Libssh2Worker`) | generation of a request, pending listings, deferred calls | list, read, write, create, rename, remove, permissions | answers of an earlier connection are dropped; a call that meets the opening of a channel is put off | see the two below | `FileRequests` |
| Remote editor (`RemoteFileEditor`) | documents with loading, saving, dirty and revision, autosave timers, the question before a close | load, edit, save, autosave, close, reopen | late loads and saves, a question over a finished save, a reconnect while saving | an edit is lost only to the user's hand or a question whose index has shifted, and none is shown as saved that is not; a document is answered while its connection lasts | `FileEditor` |
| File panel (`FilePanel`) | the directory shown, listings under way, one flag for changes, batches of removals, uploads to be checked | navigate, follow the terminal, create, rename, remove, upload, refresh | nested questions over refreshes; a listing under way is not asked for again | what it shows in the end is what the server has; the flag is reset | `FilePanel` |
| Credential vault (`LocalCredentialVault`, `CredentialStore`) | a key file and a data file, a lock, a keychain of earlier versions | save, remove, load, migrate | a kill or a stop of the machine between system calls; two processes | an atomic, durable map; a removed secret does not come back | `LocalVault`, `SecretStore` |
| Saved credentials (`SavedCredentialManager`, `ServerRepository`, dialogs, sidebar) | servers and accounts in SQLite, references to secrets, copies of rows everywhere | save, replace by compare-and-swap, share, delete, remember a password | each change is three steps; copies are stale | no account refers to a secret that is gone, and no server while one process runs | `SavedCredentials` |
| Command history (`CommandHistoryPanel`, `ServerRepository`) | one table, panels with rows of it | record and prune, star, note, delete, clear, search; migration of the old table | rows grow old under menus and dialogs | favourites stay, with one note per command; an act hits the command it was chosen on | `CommandHistory` |
| Workspace (`TerminalWorkspace`, `MainWindow`, `TcpLatencyProbe`) | tabs, panes, selection, the monitored session, badge and latency label, sockets of probes | open, merge, split, close, edit or delete a host, lose a connection | a question before a close; late signals and sockets | the rail is bound to a live source and true of it; a close takes what was asked about | `Workspace` |
| Agent bridge (`AgentPanel`, `LocalAgentProcess`, `AgentMcpStdio`, `agent_command.py`) | the running launch, client sockets, approvals | launch, ask, approve, run, cancel | the approval is a nested event loop; the host may change | an approved command runs once and on the approved host | `AgentBridge` |
| Software installer (`SoftwareInstallDialog`, `server_packages.py`) | the saved job of a host, shared by the dialogs of all panes, polling; record, supervisor and package process on the server | submit, poll, forget | approval against reconnect; a submitted job whose answer is lost, or which is killed before it is saved; a dialog that is behind another pane's; a dead supervisor | no second installation while one is known | `SoftwareInstall` |
| Server tools (`ServerToolsDialog`, `server_tools.py`) | pages, the request, automatic refresh; processes of the server | list, switch the page, signal | a PID passes to another process | a signal reaches the process of its row or none | `ServerTools` |
| Terminal (`VtTerminalModel`, `TerminalView`) | grid, scrollback, cursor, alternate screen; search, tracked command, pending click | every control; resize with reflow; find; type, recall, paste, click | reflow around wide characters; a shell that lags behind | text survives; recorded commands, clicks and matches are right | `TerminalModel`, `TerminalView` |
| Metrics, proxy tunnel, RDP, settings, theme, logging | - | - | see section 9 | - | not modelled |

## 2. Plan

Done, in order of importance: (1) `SshConnection` with `SessionView`, (2)
`ManagementChannel`, (3) `TransferQueue`, (4) `RemoteCommit`, (5) `LocalVault`
with `SecretStore` and `SavedCredentials`, (6) `FileRequests` with `FileEditor`
and `FilePanel`, (7) `Workspace`, (8) `ToolSlot` with `AgentBridge`,
`SoftwareInstall`, `ServerTools`, composed in `SessionTools`, (9)
`TerminalModel` under `TerminalView`, (10) `CommandHistory`.  All but (9) are
proved about: (1), (2), (5) and `SessionTools` have proof modules of their own,
(3) and (4) share `FileTransfers_proofs`, `FileEditor` and `FilePanel`
`FileRequests_proofs`, `Workspace` and `CommandHistory` `Workspace_proofs`.

How they rest on each other: `ManagementChannel` and `TransferQueue` take of a
connection only what `SshConnection` shows (its end is followed by its teardown,
in order); `TransferQueue` takes of the channel only that it is freed
(`RequestsEnd`); `FileRequests` takes both, and `FileEditor` takes of a write
that it is whole or not there (`RemoteCommit`); `SavedCredentials` uses secrets
as `SecretStore` promises; `SessionTools` takes the slot as `ManagementChannel`
shows it, answered once.

Left, in order: theorems for the terminal (`ScreenIsSound` first), whose reflow
and search would have to become folds; a second writer of the same temporary
name in `RemoteCommit`; downloads.

## 3. SshConnection and SessionView

**State.** The session's flags (`m_connected`, `m_connecting`,
`m_loadingCredentials`, `m_waitingForPassword`), its transport generation, the
pending fingerprint, the secret to be remembered; the profile (an address, a
known key, a stored password behind a reference); the worker's atomic and its
copy of it, the stage `connectTo` has reached and the key it waits for; the two
event queues.  `stack` has the GUI calls that wait in a nested event loop: the
credential provider that has not returned the password of the proxy or of the
server, a `connectionChanged` slot that runs before the request is sent, the
message box about a host key.

**Actions.** User calls (`ConnectTo`, `ConnectToDemo`, `ConnectWithPassword`,
`DisconnectFromHost`, `AnswerHostKey`, `EditProfile`) may happen while calls are
nested; a message box for a host key is modal, so then they may not
(`InputAllowed`).  `LoadReturns` and `AnnounceReturns` return from the innermost
call and test the attempt as the code does.  `ProxyReturns` does not, since the
code does not (`SshSession.cpp:267-302`): what it writes may be the state of a
later attempt, which is then `overwritten`, a flag of the model until the next
attempt.  `Handle...` deliver a queued report.  The worker's stages
`TcpDone`, `HandshakeDone`, `AuthDone`, `ShellDone` each end with
`connectionCanceled()` being read or not, so that a cancellation falls on every
side of every check.

**Properties.** `PaneIsBacked` has three parts beside the shape of the state.
`ConnectedIsBacked` and `ConnectingIsBacked`: a pane that shows a connection or
an attempt has a worker that is up, on its way, or a report of its end in the
queue.  `PromptIsExclusive`: the session asks for a password only when nothing
is connected or connecting.  `LoadingIsOpen`: the flag that refuses connects is
set only while a provider runs.  Of an overwritten attempt the last two are not
true (observation 13); the first two are.  `OrphanTransportCloses`: a transport
nobody wants is already told to close.  `SecretsAreSafe`: no password leaves
under a key the user did not accept, as long as the pane keeps its address (see
observation 1), and what is stored behind the profile is a password the server
accepted for it, unless the attempt was overwritten.  `ImplementsSessionView`:
the module implements the abstract `SessionView` (`Lifecycle == INSTANCE
SessionView WITH view <- view`), a small automaton, off - connecting - connected
or failed or prompt, that never goes up without an attempt; an attempt that is
overwritten may show anything until the next.  `AttemptEnds`: an attempt ends,
unless it waits for the user.

**Bounds.** Two addresses with a key and a password each; four attempts are an
attempt, its replacement from a nested call, the replacement of that one while
both reports are queued, and a last one that must be clean.  The profile starts
with one address (`FirstHosts`), the other is its mirror image.  1,355,522 states.

**Fairness.** `WF(GuiStep)`, `WF(WorkerStep)`: both threads run an event loop
and every blocking stage of the worker has a timeout.  The user's answer to a
host key is not fair.

**Proofs** (`SshConnection_proofs`, all obligations checked).  For any
addresses, keys, passwords and number of attempts, from the assumptions the
module names about its constants: `TypeCorrect`, `LoadingCorrect`,
`OrphansClose`, `PaneCorrect` (`PaneIsBacked`, all its parts), `ViewImplemented`
(the refinement of `SessionView`), `SecretsRemembered` and `SecretsSafe`.  None
of the invariants is inductive alone.  The first is

    IInv == TypeOK /\ LoadingIsOpen /\ CallsAreOfAttempts /\ RequestsAreWanted /\ TransportIsWanted

`LoadingIsOpen` needs `CallsAreOfAttempts`: attempts on the stack grow upwards
and are not newer than the session's own, so that the return of an outer call
cannot be taken for the end of the current loading.  `OrphanTransportCloses`
needs `RequestsAreWanted`: a connect request in the queue is of the session's
transport or is followed by a disconnect; and `TransportIsWanted`, the same of
the generation the worker holds.  `PaneInv` adds what `PaneIsBacked` needs: a
session wants its latest generation or none (`Generations`), the flags exclude
each other (`FlagsExclude`), nothing has left for the worker while a call of the
attempt is open (`CallsComeFirst`), requests wait in the order of generations
(`RequestsInOrder`), and what may be reported of the wanted one, after what and
with the worker in which stage (`ReportsInOrder`, `ReportsFit`,
`ProgressIsBacked`: a report of progress may set "connecting" again where a proxy
load cleared it).  The refinement
follows from `PaneInv`: an event that would move the view in a way `SessionView`
forbids is of a transport the session has replaced, which the filter drops.
`SecretsAreSafe` has two halves.  A password is remembered only if its host
accepted it, because every request, job and report of the attempt carries the
remembered one (`SecretIsCarried`).  And under the property's premise that the
pane keeps its address, which holds at every step of the behaviours it speaks
of, every key and request anywhere is that address's,
and an approval that comes too late finds its transport closed (`OneHostInv`).
Each
action is one step of the proof of `Next`, with one step per conjunct it can
disturb.

## 4. ManagementChannel

**State.** `m_serverToolRequest` and `m_directorySizeRequest` of the session,
what each of the windows (tools, installer, agent bridge) believes to be its
request, the atomic `m_desiredSizeRequest`, the worker's phase, running and
pending jobs, the operations that were put off and their 40 ms timers.

**Actions.** The windows' calls, with the re-entrant refresh: `ToolAnswered` may
call `runServerTool` from inside `serverToolFinished`, also from inside
`disconnectFromHost`, where the session still counts as connected
(`SshSession.cpp:380`).  On the worker each phase of `advanceDirectorySize`
(open, exec, read, close, free) is a step, because each may return EAGAIN.
`Cleanup` answers the running tool and drops the pending one.  `TransportLost`
and `Elapse` (a limit) are the environment's; `GoSilent` is a server that
stops answering.

**Properties.** `SlotIsBacked` joins three: a slot that is taken has a job, a
request or an answer somewhere, or everything later would be refused for good
(`SlotInSight`); the window that waits is the one the slot belongs to
(`HolderOwnsSlot`); a sample or listing is never queued behind a running tool
(`ToolRunsAlone`).  `AnsweredOnce`: a tool that ends is answered in that step
and never again.  `RequestsEnd`: a tool ends even on a silent server, and what
was put off is answered, unless a stuck scan holds a silent server's channel
(observation 2).

**Bounds.** Four requests are a running one, a pending one, one made from inside
an answer and a new one; three generations are two connections with a teardown
between them.  558,105 states.  **Fairness** of both event loops and of time
(`Elapse`): the limits are deadlines that the worker's 40 ms timer looks at.

**Proofs** (`ManagementChannel_proofs`).  For any windows, operations, requests
and connections: `TypeCorrect`, `SlotCorrect` (`SlotIsBacked`) and
`AnsweredCorrect` (`AnsweredOnce`).  The invariant is `IInv == TypeOK /\
Agreement`, and the agreement of session and worker has these parts.
`Numbered`: requests wait in the order of their ids, and the worker has taken
all up to one of them and none after it.  `OwnRequests`: what the worker holds
or will take is what the session waits for, or the end of its connection is
queued behind it.  `LinkKnown` and `UpKnown` say the same of connections:
openings wait in order, and a session that is up hears of the loss of its link.
`AnsweredApart`: what is still to be answered has no answer in the queue.  From
these, `InSight`: a request of the session is on its way, waits, runs or is
answered; this is the part that alone would let the slot be lost.
`AnsweredOnce` is about steps and takes `AnsweredApart` before and after each.
The order of events in both queues is reasoned about in three words, `NoneOf`,
`Ordered` and `Followed` of `EventQueues`; lemmas say how each survives an event
taken out at the front or put in at the end.

## 5. TransferQueue

**State.** Ids grow and tasks are appended, so the queue is a function from ids
to states and its order is that of the ids.  `base` is the last id of earlier
connections, the code's generation in the upper half of an id.  A loop of the
worker has a stage (`begin`, `check`, `io`, `commit`) and blocks left.

**Actions.** Enqueue with eviction, cancel (a queued task at once, a running one
through the atomic), retry under the same id, the zero timer after an answer,
the timers of a simulated session, `Disconnect` and `Connect`.  A lost
connection leaves the queue alone (the session stays with a running task until
it is reconnected; `TransferEnds` therefore speaks of a connection that lasts).
A request may be put off behind the management channel and is dropped with its
connection.

**Properties.** `ActiveIsRunning` relates the rows to the id the session waits
for, through eviction, retry and late answers.  `RunsOnce`: what runs is the
active task, once.  `RunsAreApart`: it runs over its own connection, and a retry
is not hit by the cancellation of the run before.  `TransferEnds`: while the
connection lasts the active task ends and a queue that waits is started, under
fairness of both event loops (every blocking call has a timeout).

**Bounds.** A capacity of one with two tasks makes eviction meet a running task;
two retries within the time of a simulated transfer; four connections.  769,856
states.

The filter of answers by generation turned out to be redundant with in-order
delivery: the answer of an earlier connection can never carry the active id.

**Proofs** (`FileTransfers_proofs`).  `TypeCorrect`, `ActiveCorrect`,
`RunsOnceCorrect` and `RunsApart` hold for any capacity, number of blocks,
tasks, retries and connections, from two assumptions: the capacity and the
blocks are positive, and the bounds are natural numbers.  The invariant is

    IInv == TypeOK /\ MovesTask /\ Agreement
    Agreement == ActiveIsRunning /\ Known /\ Token /\ Session /\ Numbered

`ActiveIsRunning` alone is not inductive: an answer in the queue might name the
active task while another run of it is under way, and a simulated transfer's
timer might end a task of a real connection.  `Token` excludes the first: what
is under way of this connection is one run, and it is in one of four places -
requested, put off, moving, answered - so that the session and the worker pass a
single token round.  `Session` excludes the second: only demo sessions have
timers of this connection.  `Known` orders ids by the time they are given out:
no event, request or row names an id before that, which is what makes everything
left by an earlier connection harmless once `base` has moved up to `lastId`.
`Numbered` keeps 0 free to mean no connection.  `RunsAreApart` rests on a second
invariant, `Runs` (theorem `RunsInvariance`): generations in both queues are in
order, a worker on the current one has nothing of an earlier one left, a session
with a task in progress has the worker on its connection with no other to come,
and a loop that looks at the cancellation sees that of its own run only.  Each
action is one step of the proof: `StartKeeps`, `FinishKeeps` and `EndKeeps` say
what the helpers of the session do to the agreement, `TakeTransferKeeps`,
`RetryKeeps` and `AnswerKeeps` follow the token through the worker.

## 6. RemoteCommit

**State.** The server is one of three kinds (`posix-rename` replaces a file
atomically; a rename with the overwrite flag does; neither does) and a function
from the names that matter to files: the destination, the temporary file of
each kind of operation and its backup.  A file has blocks, each labelled with
the version it belongs to, permissions, and may be a symbolic link.  `pc` is
the libssh2 call that is made next; `offset`, `truncate`, `existed` and `mode`
are the locals of `writeFile` and `uploadFile`.  `before`, `foreign` and `last`
are history variables.

**Actions.** Every libssh2 call is one step (`Call`, `CallEnds`), with three
outcomes where the code may see a failure: the server refuses; it carries the
call out and its answer comes after the timeout, so that the code takes it for
a failure; the link is lost, and with it every later call of the operation.
`PosixRename`, `OverwritingRename`, `LookForDestination`, `ClearBackup`,
`BackUp`, `CommitBehindBackup`, `DropBackup`, `RollBack` are the lines of
`commitRemoteTemporaryFile` in order; `CommitPlainly` is its path for a new
file.  `OthersCreate` is another program that creates the file while it is
absent, `RemovePath` the file panel's delete.

**Properties.** `NeverLost`: whatever calls fail, the latest contents of the
file are in place or in a backup.  `NeverTorn`: the file becomes a complete
version or returns to its latest contents, and nothing else.  One exception is
the code's: an upload goes on after a temporary file by its length alone, so if
the local file has changed since (or the look at the temporary file failed and
another version is there) it mixes two versions; `Mixes` names exactly this.
`SavedMeansSaved`: what is reported as saved is there.  `KeepsExisting`:
creating a file never touches one that exists.  `PermissionsKept`: a save
without a fault keeps the permissions of a plain file; for a link, and after a
refused setstat, the code does not (observation 4).

**Bounds.** Versions of no, one and two blocks: two blocks are the fewest where
a file can be torn, the empty one is committed without a write.  Two faults are
an operation that is cut off between two calls and a second one, or a late
answer followed by the failure of the fallback it leads to.  3,781,690 states.

**Proofs** (`FileTransfers_proofs`; some names begin with `Commit` so that one
module can extend both).  `CommitTypeCorrect`, `NothingLost`, `SavedCorrect`,
`NeverTornCorrect`, `KeepsExistingCorrect` and `PermissionsCorrect` hold for any
versions of any size and any number of faults, from two assumptions: sizes are
natural numbers, and "no such file" is not a file.  The invariant is

    CommitInv == CommitTypeOK /\ WritesToFile /\ LastIsDest /\ NeverLost /\ HeldBack
                   /\ BlocksFit /\ Filling /\ Filled /\ Committed /\ NewFile

`NeverLost` needs `HeldBack`: when the code clears or drops a backup the file is
there, and between the two renames its own backup holds the latest contents.
`SavedMeansSaved` and `NeverTorn` need a chain: `BlocksFit` (a temporary file
never holds a block beyond the size of its version), `Filling` (what has been
sent is in it, and nothing else) and with them, at the end of the loop, `Filled`
(it is complete while the commit runs), then `Committed`. `KeepsExisting` needs
`NewFile`: an operation that creates takes no step of the replacing commit.
`PermissionsKept` has an invariant of its own, `Unfaulted`: as long as nothing
went wrong the link is up and a save carries the permissions of the file it
began with until they are set.  The proof of each part goes by the steps; what
the steps do to the files is stated once, in `CommitEffects`, `TransferEffects`
and `CommitCases`.

## 7. The other modules

**LocalVault, SecretStore.**  `SecretStore` is the promise: a map from
references to secrets; what was acknowledged stays, what failed or was cut off
may have happened or not, a secret of the old keychain is taken over only where
there has never been an entry.  `LocalVault` is the code of macOS builds down to
the system calls of a transaction (lock, link and sync of the key file, rename
and sync of the data file), for several processes; a call may fail, a process
may be killed between two of them, the machine may stop, after which a name that
was not synced has its old or its new file.  `ImplementsSecretStore` is the
refinement (`Store == INSTANCE SecretStore WITH stored <- Visible`);
`LoadsCurrent` says that a load, also one that migrates a keychain secret in
three transactions, returns a value that is or is becoming current.  Two
processes, two references, four calls, two faults: enough for a migration, a
save and a removal of the other process inside it, and a kill in both.
2,010,620 states.

*Proofs* (`LocalVault_proofs`), for any processes, references, secrets, keys and
faults: `StoreImplemented` (the refinement) and `LoadsAreCurrent`.  The refinement
is proved through what the disk may hold: `Fits` (every data file it may hold has
its key, which then is alone there), `Accounted` (each holds what was promised or
is being written), and `Underway` (at each system call of a transaction the key
file is as the next call expects it).  Every step is then one of the store, or
changes nothing that a reader could see.  Assumed of the constants: the markers
for no value, a removed one and no file are none of the values and files, and an
old keychain secret is neither.

**SavedCredentials.**  Rows of servers and shared accounts, the secrets behind
their references, and the copies of rows in the sidebar, the credential panel,
dialogs, panes and logins of each process.  Every change is a store, a
compare-and-swap of the row and a removal of the old secret; each is a step that
may fail or be the last.  `ReferencesAreRight`: an account never refers to a
secret that is gone; a server does not either as long as the processes run one
after the other, and it uses an account in the account's version; a remembered
password enters a row only together with the profile that was accepted, and
never brings a deleted host back.  Two processes, two servers, one account,
three secrets, four acts, one fault: 3,170,435 states.

*Proofs* (`SavedCredentials_proofs`), for any processes, servers, accounts, acts
and faults: `ReferencesCorrect`, the whole of `ReferencesAreRight`.  The invariant
has a part that always holds (`Safe`) and one for processes that run one after
the other (`Orderly`).  In the first, the reference an act has just made is known
to that act alone (`Own`), accounts share no secret (`AccountsOwn`), and what is
about to be dropped is no account's (`Dropped`).  In the second, each row has the
secret of its account or one of its own (`RowsBacked`), the copies in sidebar and
act are as good as the table but for the row in the very step (`SideBacked`,
`ActBacked`), and a secret of its own is never that of two servers (`OneServer`).
Assumed: at least one reference, and "no row" is not a row, an act, a pane or a
login.  The proof found a fault of an earlier form of the model: the guards of
`Accepted` overlapped, and CASE takes any arm whose guard holds.  The arms are
disjoint now, there and elsewhere.

**FileRequests, FileEditor, FilePanel.**  `FileRequests` is the session between
the two panels and the worker: calls in order, those that meet the opening of a
channel put off to a timer, answers of an earlier connection dropped.
`FileEditor` is tabs with documents, autosave and the question before a close,
under which reports and timers go on: `EditsSurvive` (no edit is replaced but by
the user's next one, a document with one goes only when it was stored, at the
answer to the question about it, or to a question whose index has `Shifted`,
observation 5, and a text shown as saved was stored), `StaysOnItsServer` (a late
write changes no other server than the one it was made for),
`RequestsAreAnswered` (a document is answered while the connection it asked on
stands; after a reconnect it waits for good, `Abandoned`, observation 14).  Two
files on two servers, one change of the connection, four acts: 1,259,108 states.

*Proofs* (`FileRequests_proofs`), for any files, servers, acts and generations:
`EditsAreKept` and `WritesStayOnServer`.  The invariant says that the requests
of a generation come behind its opening and before the next (`InTurn`), so that
a generation has one server (`OneServer`); that a number has one request or
answer under way (`Alone`); that the requests and answers with the number of a
document are what it waits for (`Fits`); and that a document shown as saved has
a text that a server stored (`Clean`).  TLC evaluates it in all 1.26 million
states.  `EditsSurvive` is about steps: a read that comes back late finds no
document waiting for it, or an unloaded one. Assumed: finitely many files, at
least one server, and the markers for no document, no question and no link are
not such things.  Request numbers are drawn from those not under way (`NewId`;
they are 64 bits and increase in the code), and `Ids` bounds how many may be
under way.

`FilePanel` nests handlers over its questions as the code does: `ShownIsFresh`
(when everything is answered the list shows what the server has), `ChangesEnd`
(a change or a batch ends and the flag that refuses others is reset).  A root
and a home directory, two names, two acts, two faults: 1,075,448 states; two
acts are a change and what comes in under its question.  Its names that
`FileEditor` has too begin with `Panel`, so that one module can extend both.
Fairness in both: the event loops run, also under a question, and the worker
serves its calls; nobody has to answer a question.

*Proofs* (`FileRequests_proofs`), for any directories, servers, acts, faults and
generations and finitely many names: `ListIsFresh`.  That the list is fresh when
nothing is under way is not inductive: the invariant has to say, of every
moment, what will make it so.  While the connection stands (`Live`), `Good` says
that a listing awaited is under way (`Awaited`), that a directory being opened
has one, or a question over it, or a promise of one (`Expected`), and that the
rows (`RowsTrue`) and the rows a question still holds (`OffersTrue`) are those
of the server unless an error is shown, a newer refresh overtook them, or a
refresh is promised (`Coming`): by a timer, by a batch of removals, by the home
directory, or by an answer under way that the panel will refresh on.
`ListingsTrue` says it of the listings under way: one that the server has
outrun is followed by such an answer.  This is why a listing may be
deduplicated.  `InTurns` is the order of the session: what is asked of a
connection comes behind its opening, and its loss is reported, so that a settled
pane has its link; `Apart`: a directory has one overwrite question, and no
upload waits for it meanwhile.  Each operator on the panel is shown to keep its
shape and these promises once, and an action is a few of them under one
`Commit`.  TLC found the invariant true in all states of the run's instance
before it was proved.  Assumed: at least one name and finitely many, so that
uploads have an order; root and home are directories and the marker for none is
not.

**Workspace.**  An action is a call with every slot it runs, composed on the
record `ws` in the order of the code.  `MonitorIsLive`: the rail is bound to a
session that exists, of the tab in front, and to a connected one if that tab has
one of the same host, unless a remote
desktop is shown, whose deletion is not modelled.
`RailIsTrue`: the badge and the latency say what holds of the bound session and
its host, with exceptions for a remote desktop's badge and the settings tab
(observation 10).  A remote desktop reads its password in a nested loop, opens
or fails with a message box, another one, and then writes its badge whatever the
rail shows by then (`OpenRdp`, `RdpRead`, `RdpDismissed`); a host whose deletion
fails has lost its panes all the same.  `ClosesWhatWasAsked`: with a question, a
close takes the terminals that were meant when it appeared, all of them and no
others. Two interchangeable hosts, three panes of which up to two are restored,
three per tab, one edit of each host, three acts: a merge, a split or close, and
what comes in under its question.  266,949 states.

*Proofs* (`Workspace_proofs`), for any hosts and any numbers of tabs, panes and
acts: `MonitorCorrect`, `RailCorrect` and `ClosesCorrect`.  The model closes,
merges and takes apart by folds over its tabs, so the proof first needs what
those folds compute for any sequence.  The library's induction cannot be used
(its theorems take an operator as a parameter), but what it says can: the
numbers for which a claim fails would have a least one (`LeastOf`, `UpTo`).
`IterExists` and `FoldAlong` make of it a rule for folds, and from it come
`OnlyFacts`, `FlattenFacts`, `AllClosed` and the facts about what is cut out of
a sequence and put in.  The invariant, checked by TLC on the states of the run
before it was proved, is

    IInv == Layout(ws) /\ Rail(ws) /\ Meant(ws, question) /\ ...

`Layout`: no tab, and no pane in the tabs, is there twice, every tab has panes
and one of them is active, and a tab keeps the number of a pane that stands first
in it or in no tab any more; this is what makes the number of a detached or
taken-out pane free for its own tab.  `Rail` has what the two invariants say and
what keeps it true: the rail's session is the pin of its tab, and only the tab
in front is probed, for that session's host (`Timed`) - a late socket of another
host has nobody to report to.  `Meant` ties the question to the panes: the items
it would close have no panes but those it named, and whatever of those is still
there is in one of them.  Merging or taking apart would break it, and needs no
question open (`MayRearrange`); detaching and closing keep it.  Each operator on
`ws` is shown to keep the layout and to mend the rail once, the actions are a
few of them in a row.  Assumed is only that the markers are no hosts and that
the bounds are numbers, with room for the panes that are restored.

**ToolSlot, AgentBridge, SoftwareInstall, ServerTools, SessionTools.**  The three
tools of a pane are operators on one record, `SessionTools` composes them with
the connection, the modal questions and the servers.  `ToolsAreBacked`: each
waits only for the call in the slot, which is still to be answered, and a client
is told once, its own result or an error.  `AgentStaysInBounds`: a command is
submitted only on approval, for the host named in the question and a client that
is still there; a call is given up only by its owner.  The saved job belongs to
the host, and every pane has a dialog of its own: of a second one `other` keeps
what it believes of the job, and it may submit, forget and hear at any time.  A
program may be killed between submitting a job and saving it.
`InstallsOneAtATime`: over losses, restarts and dead supervisors no host has two
installations under way, whichever panes they were approved in, unless one of
them is in `forgotten`, that is, nothing refers to it any more (observation 15).
`SignalsReachTheirProcess`: PIDs pass to other processes at any time, a signal
does not.  Two interchangeable hosts, two sockets, two launches, two jobs, four
acts, restarts not counted: 570,267 states.

All four are proved, for any finite set of hosts, any number of clients,
launches, jobs and acts, with restarts.  `Sound`, the inductive invariant, holds
on all states of the run as well.  Its three parts answer to the properties:

- `SlotInv`.  The properties say that who waits owns the slot; that this lasts
  needs `Owned`, of the three that may wait at most one does, and `Numbered`, a
  number belongs to one call, so that an answer to a call that was given up does
  not pass for the present one.  `SocketsFit` follows a client from its line to
  its question, its command and its reply, and says that nobody else stands for
  it on the way.  `Questioned` is about the modal questions: of each kind one is
  open at most, and a plan's is not open while a plan is asked for.  Up to three
  are therefore open at a time, a command's and a plan's on top of one that the
  user asked for; the bounds of the run show two.
- `InstallInv`.  `InstallsOneAtATime` holds since a job that may still be at work
  is the saved one of its host or was forgotten (`Saved`), and each dialog follows
  its job until it has seen the end (`Followed`), before which it offers no
  other installation; so what a dialog saves over is over, or is not its own and
  forgotten; a status never reports an end that has not come
  (`JobsFit`), even one that was read long before its answer arrived.
- `SignalInv`.  A handle was either taken of the process that was meant, or that
  process was gone by then and the check that follows notices.

A step changes the pane through a handful of operators.  Each has a lemma that
names the fields it changes (`RequestChanges`, `FinishOwns` and so on), so that
an action is a few of them in a row; `StepKeeps` joins the actions and shows at
the same time what `AgentStaysInBounds` says of the step.  Two facts carry the
model itself: `UnusedIsNew`, there is always a number that nothing refers to,
and `SeenIsFinite`, there is always a PID that nobody has seen.  The hosts are
taken to be finite for this: a profile names one at a time.

**TerminalModel, TerminalView.**  The screen is a record of operators that
return the next screen; every control that moves text or the cursor is there. It
is driven by a program, with resizes and a search, or by a shell that edits one
command line behind a delay.  `ScreenIsSound`: every index the code uses
unchecked lies inside what it indexes.  `TextSurvives`: no resize and nothing
drawn in the alternate screen costs a character of what the shell wrote, apart
from the scrollback's limit and the padding before a wide character
(`CursorInPadding`).  `FindShowsQuery`: a match that is brought into sight is
one, unless the search has `missed` a resize or a new limit.  `CommandsAreTrue`:
Enter records the command the shell executes, over typing, recall, clicks and
pastes of several lines.  `ClickArrives`: a click brings the cursor where it
was, and so does not block the next one, unless it was made while keys or echo
were in flight (`hasty`).  Observation 11 has the three exceptions.  Sizes 2x2,
3x2 and 5x3 with a wide and a combining character wrap every row; a scrollback
of two or three lines overflows; three outputs or resizes after two starts that
fill and wrap the screen; four keys, a line of three characters that stays on
the screen (`LineFits`) and no resize while a shell edits.  494,944 states.

**CommandHistory.**  The table with its upsert, limit, migration, and the panels
of two panes in two programs, each with rows that were read earlier, a search
whose timer fires under menus and dialogs, and modal dialogs per program.
`FavoritesAreKept`: a favourite and its note outlive recording, the limit,
clearing and the migration, until the user acts on that command; of several
favourites of one command in an old table the migration keeps one row, with a
later note for an earlier one (`StarredNotes`, observation 12).
`ActsHitTheirRow`: an act on an old row changes the command it shows or nothing.
A limit of one plain row, two rows shown, three commands, three acts (delete,
run again, act on the stale row), two notes and two old tables, in which one
command is starred twice.  794,610 states.  Some names begin with
`History`, so that one module can extend this one and `Workspace`.

*Proofs* (`Workspace_proofs`), for any panes, programs, commands, notes, limits
and old tables: `HistoryTypeCorrect`, `FavoritesCorrect` and `ActsCorrect`.
`HistoryInv` says of the table that no id and no command is in it twice, and of
every row a panel shows and every note dialog, however old, that its id was given
once and is the table's of no other command (`Means`).  That holds on because a
table only ever `Follows` its predecessor: a row of it has an id not given
before, or the id and command of a row that was there.  `OnlySide` and
`OnlyOnly` compare parts of two sequences position by position; they show that
an act on a row leaves the order and the contents of all the others.
`MergedIs` shows that the migration makes a sound table of any old one, and
`MergedNoteIs` that a favourite's note is not lost to a plain row's.

`CHECK_DEADLOCK FALSE` stands wherever the bounds, or the user, may stop the
system; `remote_commit` needs none.

## 8. Observations

Places where the code does something else than its documents say, or where the
model has to make an exception.  None of them is a property of a run.

1. `SshSession.cpp:182`: a reported host key is not bound to an attempt.  One of
   the old address that is delivered after the profile was edited is saved for
   the new address (README.md:158 of the program: bound to `IP/domain:port`).
2. `Libssh2Worker.cpp:884`: the hard limit covers tools only.  A scan whose open,
   exec or close gets no answer holds the channel until the user types or
   disconnects (the comment above it: "never hang").
3. `Libssh2Worker.cpp:1082`: the worker resets the cancel atomic when it starts
   a transfer, so a cancellation given before that is forgotten.
4. `Libssh2Worker.cpp:1342`: `writeFile` reads permissions by lstat; for a link
   they are the link's own 0777, the rename replaces the link, and a refused
   setstat (1379) is ignored (README.md:149).
5. `RemoteFileEditor.cpp:1237` keeps the index of a tab over the question before
   its close.  A save that finishes meanwhile and closes an earlier tab shifts
   the indices, and "discard" removes another document with unsaved edits
   (CHANGELOG.md:544); the document of the question itself may be deleted.
   `EditsSurvive` excepts it as `Shifted`.
6. Connection and tools: `m_agentCommandRequest` stays set at a disconnect, a
   cancellation is guarded twice; at a disconnect a query that waited for a
   canceled one is sent once more; the tools dialog keeps rows of an earlier
   host (that a start time meets again on another host is taken as impossible);
   a poll refused by a busy channel after a reconnect leaves the timer of an
   installation stopped (README.md:124); forgetting a job does not look again
   after its question; a service that keeps the output open keeps a job
   "running"; `agent_command.py` kills the group only while its leader runs.
7. Transfers: persistence is dead code (`TerminalWorkspace.cpp:930`,
   `ServerDialog.cpp:482`; README.md:135); evicted rows keep dead buttons
   (`TransferQueuePanel.cpp:191`); two panes that save one file share the name
   of the temporary file (`Libssh2Worker.cpp:1334`).
8. Files: an overwrite question answered after a newer refresh shows the older
   rows (`raced`); `removeSelected` keeps pointers to rows over its question
   (`FilePanel.cpp:1358`, a crash in the model); a save of the editor resets the
   flag of a batch; a directory tree answer may meet a deleted node (`:981`); an
   explicit disconnect leaves the flag set; a save after a reconnect to an edited
   host writes the old host's text to the new one.
9. Vault and credentials: a first save cut off between key and data file leaves a
   vault that is refused for good; with two processes a stale sidebar can bring
   back a removed reference (`together`); a password remembered in a split pane
   is overwritten by a later move or edit; macOS fsync is taken as durable.
10. Workspace: behind the settings tab the probe of the tab goes on
    (README.md:86); restored tabs are published before the window listens; a
    session that was bound and never connected may be badged "online"; a remote
    desktop keeps the old latency label, and writes its badge after a nested loop
    over that of a terminal bound meanwhile (`MainWindow.cpp:999`, 1002); after a
    deletion that failed (1205) the rail names a host whose panes are closed.
11. Terminal: ESC 8 keeps the pending wrap; the padding of a row wrapped for a
    wide character may be lost or inserted (`CursorInPadding`); half of an
    overwritten wide character dangles; a resize with a background colour fills
    padding with blanks; selections do not follow an eviction; the scroll region
    survives the alternate screen; the CSI buffer has no limit; an Enter while
    output lags may record the earlier screen; a pasted newline while tracking
    is unreliable records the screen's line without the paste, and the lines of
    a bracketed paste are recorded as submitted; an emptied line may record
    stale text; a click after typing in flight may block clicks until a key;
    matches are not rebuilt after a change of the history's limit.
12. Command history: the note dialog opens with the row's note, so a newer note
    of another pane is overwritten; after all stars are taken away more than 500
    plain rows may exist, which the next command prunes; of two starred rows of one
    command the migration drops one note (`ServerRepository.cpp:245`, against the
    comment at 190-192); with a clock set back
    the newest command may be pruned at once; an act on a vanished row does not
    refresh the panel.
13. `SshSession.cpp:281` says that canceling a tab invalidates the provider's
    result.  The load of a proxy's password (267) is not followed by that check:
    if the attempt was replaced meanwhile, 268 clears "connecting" of the later
    one, 277 sets its `m_loadingCredentials`, which 279 leaves set, so that every
    further connect is refused until a disconnect, 295 puts a prompt over it, and
    302 has it remember a password typed before.
14. Editor: a document that loads or saves when the connection is replaced gets no
    answer (`SshSession.cpp:170-181`, 405), nothing resets its `busy`
    (`RemoteFileEditor.cpp:733`, 1227), and it can neither be saved nor closed.
15. `SoftwareInstallDialog.cpp:205-206`: a program killed between submitting a job
    and saving it has lost its number; a dialog of another pane of the host that
    was opened before does not learn of a job, may submit a second one, and saves
    or removes its own number over the first (README.md:124).

## 9. What is only model-checked, and what is not modelled

Proved, for every value of the constants: the theorems of sections 3 to 6, and of
section 7 for the vault, the saved credentials, the editor, the file panel, the
workspace, the tools of a pane and the command history.  They state 30 of the 40
properties of the runs, of which two are refinements.  Where a type
invariant is not a property of its own, a run checks it as a part of another.

TLC only:

- Liveness (`AttemptEnds`, `RequestsEnd`, `TransferEnds`, `RequestsAreAnswered`,
  `ChangesEnd`): outside the prover's reach, as is ENABLED.
- The terminal (`ScreenIsSound`, `CommandsAreTrue`, `ClickArrives`,
  `TextSurvives`, `FindShowsQuery`).  Reflow, search and the
  feeding of output are folds over nested sequences of cells, one inside the
  other; what each computes would have to be shown by a least-element argument
  of its own, as for the folds of `Workspace`, before the first step of the view
  could be reasoned about.

Left out of the modelled parts: private keys and agent authentication (the same
control as passwords), the normalisation of fingerprints, the destructor of a
session; what a tool prints and how lists, traffic and speed are measured; the
rate limit, progress and persistence of transfers; downloads (the same resume
into a local file, committed by Qt), two writers of one temporary name; search,
colours and encodings of the editor, and the close of its window (`closeEvent`,
`maybeFinishWindowClose`, `m_closeAfterAllSaved`), which the program never
reaches with a document open: the editor is a child of its pane's splitter
(`TerminalWorkspace.cpp:979-986`) and the only `close()`
(`RemoteFileEditor.cpp:1258`) follows its last document, while closing the pane
discards drafts (docs/PERFORMANCE_AND_SAFETY.md:62, against CHANGELOG.md:544);
sizes, sorting and nodes of the directory tree in the file panel (a directory's
size is a tool of `ManagementChannel`); encryption and the stores of other
systems behind `CredentialStore`; remote desktops; failures of reading the
database; which packages are chosen and the digest of the plan; selection, the
protocols of mouse and keyboard, the input method and painting of the terminal,
the parser's state between chunks; the question before a paste.

Not modelled at all: metrics (parsing of text, and a back-off whose request side
is in `ManagementChannel`), the proxy tunnel (byte formats in one stage of a
connection), settings, themes, logging and dialogs (key-value storage and
presentation), the RDP launcher (starts another program).
