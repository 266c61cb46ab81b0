------------------------------ MODULE FilePanel ------------------------------
(***************************************************************************)
(* The file panel of a pane (FilePanel): the directory it shows, its       *)
(* refreshes, what the user changes through it, the batch of removals, and *)
(* the check for existing names before an upload.  It lives on the user    *)
(* interface thread; a handler may show a question, whose event loop lets  *)
(* reports and timers in, so handlers nest and use what they read before.  *)
(*                                                                         *)
(* The editor of the same pane extends FileRequests too, and the two are   *)
(* proved about in one module (FileRequests_proofs): names that both would *)
(* use begin with Panel here.                                              *)
(*                                                                         *)
(* An entry is a directory and a name.  The tree of directories beside the *)
(* list is reduced to the listings it asks for, the editor and the         *)
(* transfer queue to the writes that the panel hears of; sizes, sorting    *)
(* and downloads, which change nothing here, are left out.                 *)
(***************************************************************************)
EXTENDS FileRequests, FiniteSets

CONSTANTS
    Dirs, Names,
    Root, Home,  \* two of the directories
    NoDir,
    MaxClicks,   \* bound on what the user does
    MaxFaults    \* bound on failures, losses and delays of the connection

ASSUME DirAssumption ==
    /\ Names # {} /\ IsFiniteSet(Names)
    /\ Root \in Dirs /\ Home \in Dirs /\ NoDir \notin Dirs
ASSUME BoundAssumption == MaxClicks \in Nat /\ MaxFaults \in Nat

Entries == Dirs \X Names
In(d, names) == {d} \X names

VARIABLES
    panelDisk,   \* [Hosts -> the entries on the server]
    panel,       \* the state of the panel and of the session's listings
    dialogs,     \* the questions that are open, the top one first
    died,        \* the program used a deleted object and died
    clicks, faults  \* counters of the bounds

panelVars == <<requestVars, panelDisk, panel, dialogs, died, clicks, faults>>

\* The pane has just connected, and every directory has one file.
\* panel: asked are m_pendingDirectories of the session, mgen is history (the
\* generation of the last change), as is raced (see Continue); out are the
\* requests of the handler that runs.
PanelInit ==
    /\ RequestsInit
    /\ panelDisk = [h \in Hosts |-> Dirs \X {CHOOSE n \in Names : TRUE}]
    /\ panel = [current |-> Root, pending |-> NoDir, rows |-> {}, error |-> FALSE,
                resolved |-> FALSE, asked |-> {}, mutating |-> FALSE, mgen |-> 0,
                queue |-> <<>>, next |-> 0, grace |-> 1,
                uploads |-> {}, raced |-> FALSE, stale |-> FALSE, out |-> <<>>]
    /\ dialogs = <<>> /\ died = FALSE /\ clicks = 0 /\ faults = 0

Act == ~died /\ clicks < MaxClicks /\ clicks' = clicks + 1
Fault == faults < MaxFaults /\ faults' = faults + 1
PanelUser == Act /\ dialogs = <<>>
CanMutate == connected /\ ~panel.mutating

\* The end of a handler: its requests leave in order, and questions that were
\* about rows of the list know whether these are gone.
Commit(p, open) ==
    /\ panel' = [p EXCEPT !.out = <<>>, !.stale = FALSE]
    /\ calls' = calls \o [i \in DOMAIN p.out |-> [call |-> p.out[i], gen |-> gen, host |-> target]]
    /\ dialogs' = [i \in DOMAIN open |->
                     IF open[i].kind = "remove" THEN [open[i] EXCEPT !.stale = @ \/ p.stale] ELSE open[i]]

\* ------------------------------------------------------------------------
\* The parts of the handlers, as functions of the panel's state.

Out(p, call) == [p EXCEPT !.out = Append(@, call)]
Cleared(p) == [p EXCEPT !.rows = {}, !.error = FALSE, !.stale = TRUE]

\* showError: also ends an upload that waits for the listing.
ShowError(p, d) ==
    LET dropped == [p EXCEPT !.uploads = @ \ In(d, Names)]
    IN  IF d # p.pending THEN dropped
        ELSE [Cleared(dropped) EXCEPT !.pending = NoDir, !.error = TRUE]

\* SshSession::listDirectory: a listing that is under way is not repeated.
List(p, d) ==
    IF d \in p.asked THEN p
    ELSE IF connected THEN Out([p EXCEPT !.asked = @ \cup {d}], [op |-> "list", dir |-> d])
    ELSE ShowError(p, d)

NavigateTo(p, d) == List([Cleared(p) EXCEPT !.current = d, !.pending = d], d)

ShowRows(p, d, listed) ==
    IF d # p.pending THEN p
    ELSE [Cleared(p) EXCEPT !.pending = NoDir, !.rows = In(d, listed)]

\* A request of the session that is refused at once when not connected.
OperationFailed(p, op) ==
    IF op = "remove" /\ p.queue # <<>>
    THEN [p EXCEPT !.queue = Tail(@), !.next = @ + 1]
    ELSE LET q == IF op = "upload" THEN p ELSE [p EXCEPT !.mutating = FALSE]
         IN  IF op = "rename" THEN NavigateTo(q, q.current) ELSE q

Operation(p, call) == IF connected THEN Out(p, call) ELSE OperationFailed(p, call.op)

Mutate(p, call) == Operation([p EXCEPT !.mutating = TRUE, !.mgen = gen], call)

\* Any file written resets the flag, also one of the editor.
OperationFinished(p, call) ==
    IF call.op = "remove" /\ p.queue # <<>>
    THEN [p EXCEPT !.queue = Tail(@), !.next = @ + 1]
    ELSE IF call.op = "write"
    THEN LET q == [p EXCEPT !.mutating = FALSE]
         IN  IF call.entry[1] = q.current THEN NavigateTo(q, q.current) ELSE q
    ELSE NavigateTo(IF call.op = "upload" THEN p ELSE [p EXCEPT !.mutating = FALSE], p.current)

\* startNextRemoval and finishRemovalBatch.
StartNextRemoval(p) ==
    IF p.queue = <<>> THEN NavigateTo([p EXCEPT !.mutating = FALSE], p.current)
    ELSE Operation(p, [op |-> "remove", entry |-> Head(p.queue)])

StartBatch(p, entries) ==
    StartNextRemoval([p EXCEPT !.queue = entries, !.mutating = TRUE, !.mgen = gen])

\* ------------------------------------------------------------------------
\* What the user does.

Still == UNCHANGED <<session, worker, reports, panelDisk, died, faults>>
Simply(p) == Commit(p, dialogs) /\ Still

\* A click, a path typed, back, up or refresh.
Navigate(d) == PanelUser /\ connected /\ Simply(NavigateTo(panel, d))

\* The directory of a command in the terminal is followed 180 ms later, and
\* by then a question may be open.
FollowTerminal(d) == Act /\ connected /\ Simply(NavigateTo(panel, d))

\* A node of the tree is expanded.
Expand(d) == PanelUser /\ connected /\ Simply(List(panel, d))

\* Files are dropped on a directory: it is listed first.
DropFiles(names, d) ==
    /\ PanelUser /\ connected
    /\ Simply(List([panel EXCEPT !.uploads = @ \cup In(d, names)], d))

AskName == PanelUser /\ CanMutate /\ Commit(panel, <<[kind |-> "create"]>>) /\ Still

AskRemove(entries) ==
    /\ PanelUser /\ CanMutate /\ entries # {}
    /\ Commit(panel, <<[kind |-> "remove", entries |-> entries, stale |-> FALSE]>>)
    /\ Still

AskPermissions(e) ==
    /\ PanelUser /\ CanMutate
    /\ Commit(panel, <<[kind |-> "permissions", entry |-> e]>>)
    /\ Still

Rename(e, n) ==
    /\ PanelUser /\ CanMutate /\ e[2] # n
    /\ Simply(Mutate(panel, [op |-> "rename", entry |-> e, to |-> <<panel.current, n>>]))

\* The editor of the pane saves a file.
EditorSaves(e) ==
    /\ Act /\ connected
    /\ Simply(Out(panel, [op |-> "write", entry |-> e, fresh |-> FALSE]))

\* ------------------------------------------------------------------------
\* The answers.

Top == Head(dialogs)
OnTop(kind) == ~died /\ dialogs # <<>> /\ Top.kind = kind /\ UNCHANGED clicks

Refuse ==
    /\ \E kind \in {"create", "remove", "permissions"} : OnTop(kind)
    /\ Commit(panel, Tail(dialogs)) /\ Still

\* The name goes to the directory that is shown by now.
Create(n, op) ==
    /\ OnTop("create")
    /\ Commit(Mutate(panel, [op |-> op, entry |-> <<panel.current, n>>, fresh |-> TRUE]), Tail(dialogs))
    /\ Still

SetPermissions ==
    /\ OnTop("permissions")
    /\ Commit(Mutate(panel, [op |-> "chmod", entry |-> Top.entry]), Tail(dialogs))
    /\ Still

Orders(S) == {s \in [1 .. Cardinality(S) -> S] : {s[i] : i \in DOMAIN s} = S}

\* The paths are read from the rows that were selected.  If the list was
\* cleared meanwhile, these are deleted objects: their memory may still hold
\* the paths, hold those of rows shown now, or the program dies.
RemoveSelected ==
    /\ OnTop("remove")
    /\ \/ \E read \in IF Top.stale THEN {Top.entries} \cup (SUBSET panel.rows \ {{}}) ELSE {Top.entries} :
          \E s \in Orders(read) : Commit(StartBatch(panel, s), Tail(dialogs))
          /\ UNCHANGED died
       \/ Top.stale /\ died' = TRUE /\ UNCHANGED <<panel, calls, dialogs>>
    /\ UNCHANGED <<session, worker, reports, panelDisk, faults>>

\* uploadCheckedFiles, from the names that are left: the user is asked about
\* the first that exists, unless the connection is gone; after the last, the
\* handler that began goes on with the entries it has.
Continue(p, d, listed, left, open) ==
    LET clash == left \cap listed
        ask == connected /\ clash # {}
        free == IF connected THEN left \ listed ELSE {}
        sent == [p EXCEPT !.out = @ \o [i \in 1 .. Cardinality(free) |->
                    [op |-> "upload", entry |-> <<d, (CHOOSE s \in Orders(free) : TRUE)[i]>>]]]
    IN  IF ask
        THEN Commit(sent, <<[kind |-> "overwrite", dir |-> d, listed |-> listed,
                             name |-> CHOOSE n \in clash : TRUE, left |-> clash]>> \o open)
        ELSE Commit([ShowRows(sent, d, listed) EXCEPT
                        !.raced = @ \/ (d = p.pending /\ d \in p.asked)], open)

Overwrite(yes) ==
    /\ OnTop("overwrite")
    /\ LET p == IF yes /\ connected
                THEN Out(panel, [op |-> "upload", entry |-> <<Top.dir, Top.name>>]) ELSE panel
       IN  Continue(p, Top.dir, Top.listed, Top.left \ {Top.name}, Tail(dialogs))
    /\ Still

CancelUploads ==
    /\ OnTop("overwrite")
    /\ Continue(panel, Top.dir, Top.listed, {}, Tail(dialogs))
    /\ Still

\* ------------------------------------------------------------------------
\* Reports and timers.

Handles(op) == ~died /\ NextReport(op) /\ UNCHANGED <<session, worker, panelDisk, died, clicks, faults>>
Answer == Head(reports).call

\* directoryListed passes the session once for each request.  The uploads
\* that wait for it come first; a question among them holds up the rest.
Listed ==
    /\ Handles("list")
    /\ LET d == Answer.dir
           p == [panel EXCEPT !.asked = @ \ {d}, !.uploads = @ \ In(d, Names)]
           left == {n \in Names : <<d, n>> \in panel.uploads}
       IN  IF d \notin panel.asked THEN Commit(panel, dialogs)
           ELSE IF ~Answer.ok THEN Commit(ShowError([panel EXCEPT !.asked = @ \ {d}], d), dialogs)
           ELSE IF left = {} THEN Commit(ShowRows(p, d, Answer.listed), dialogs)
           ELSE Continue(p, d, Answer.listed, left, dialogs)

HomeResolved ==
    /\ Handles("home")
    /\ Commit(NavigateTo([panel EXCEPT !.resolved = TRUE], IF Answer.ok THEN Home ELSE Root), dialogs)

\* Faulty: a change that fails leaves the flag.
OperationEndsOnlyIfDone(op) ==
    /\ Handles(op)
    /\ Commit(IF Answer.ok THEN OperationFinished(panel, Answer) ELSE panel, dialogs)

OperationEnds(op) ==
    /\ Handles(op)
    /\ Commit(IF Answer.ok THEN OperationFinished(panel, Answer) ELSE OperationFailed(panel, op), dialogs)

Ops == {"write", "mkdir", "rename", "remove", "chmod", "upload"}

\* The next of a batch, from a timer of 0 ms.
NextRemoval ==
    /\ ~died /\ panel.next > 0
    /\ Commit(StartNextRemoval([panel EXCEPT !.next = @ - 1]), dialogs)
    /\ Still /\ UNCHANGED clicks

PanelGoesUp ==
    /\ ~died /\ NextReport("up")
    /\ connected' = TRUE
    /\ panel' = [panel EXCEPT !.grace = @ + 1]
    /\ UNCHANGED <<target, gen, worker, calls, panelDisk, dialogs, died, clicks, faults>>

\* Waiting uploads are given up.
Lost == [panel EXCEPT !.uploads = {}]

PanelGoesDown ==
    /\ ~died /\ NextReport("down")
    /\ connected' = FALSE /\ panel' = Lost
    /\ UNCHANGED <<target, gen, worker, calls, panelDisk, dialogs, died, clicks, faults>>

\* Some time after the connection is up the panel opens its directory.
OpenInitialDirectory ==
    /\ ~died /\ panel.grace > 0
    /\ LET p == [panel EXCEPT !.grace = @ - 1] IN
       Commit(IF ~connected THEN p
              ELSE IF p.resolved THEN NavigateTo(p, p.current)
              ELSE Out(Cleared(p), [op |-> "home"]), dialogs)
    /\ Still /\ UNCHANGED clicks

PanelDrops ==
    /\ ~died /\ StaleReport
    /\ UNCHANGED <<session, worker, calls, panelDisk, panel, dialogs, died, clicks, faults>>

\* Faulty: listings under way are remembered across connections.
ReconnectRemembering(h) ==
    /\ PanelUser /\ BeginConnect(h)
    /\ panel' = Lost
    /\ UNCHANGED <<worker, reports, panelDisk, dialogs, died, faults>>

\* disconnectFromHost forgets the listings that are under way.
ReconnectPane(h) ==
    /\ PanelUser /\ BeginConnect(h)
    /\ panel' = [Lost EXCEPT !.asked = {}]
    /\ UNCHANGED <<worker, reports, panelDisk, dialogs, died, faults>>

DisconnectPane ==
    /\ PanelUser /\ BeginDisconnect
    /\ panel' = [Lost EXCEPT !.asked = {}]
    /\ UNCHANGED <<worker, reports, panelDisk, dialogs, died, faults>>

\* ------------------------------------------------------------------------
\* The worker.  What fails has no effect.

Effect(call, held) ==
    CASE call.op \in {"mkdir", "upload", "write"} -> held \cup {call.entry}
      [] call.op = "rename" -> (held \ {call.entry}) \cup {call.to}
      [] call.op = "remove" -> held \ {call.entry}
      [] OTHER -> held

Possible(call, held) ==
    CASE call.op = "mkdir" -> call.entry \notin held
      [] call.op = "write" -> call.fresh => call.entry \notin held
      [] call.op = "rename" -> call.entry \in held /\ call.to \notin held
      [] call.op \in {"remove", "chmod"} -> call.entry \in held
      [] OTHER -> TRUE

Result(call, ok, held) ==
    CASE call.op = "list" -> [op |-> "list", ok |-> ok, dir |-> call.dir,
                              listed |-> IF ok THEN {n \in Names : <<call.dir, n>> \in held} ELSE {}]
      [] call.op = "home" -> [op |-> "home", ok |-> ok]
      [] OTHER -> [op |-> call.op, ok |-> ok, entry |-> call.entry]

PanelPerform(c) ==
    /\ ~died /\ Taken(c)
    /\ \/ /\ link # NoLink /\ Possible(c.call, panelDisk[link.host])
          /\ panelDisk' = [panelDisk EXCEPT ![link.host] = Effect(c.call, @)]
          /\ reports' = Append(reports, [call |-> Result(c.call, TRUE, panelDisk[link.host]), gen |-> c.gen])
          /\ UNCHANGED faults
       \/ /\ IF link # NoLink /\ Possible(c.call, panelDisk[link.host]) THEN Fault ELSE UNCHANGED faults
          /\ reports' = Append(reports, [call |-> Result(c.call, FALSE, {}), gen |-> c.gen])
          /\ UNCHANGED panelDisk
    /\ UNCHANGED <<session, link, panel, dialogs, died, clicks>>

PanelKept == UNCHANGED <<session, panelDisk, panel, dialogs, died, clicks>>
Connection == ~died /\ (ServeConnect \/ ServeDisconnect) /\ PanelKept /\ UNCHANGED faults
PanelTransport ==
    /\ ~died /\ PanelKept
    /\ \/ (LoseLink \/ Defer) /\ Fault
       \/ Vanish /\ UNCHANGED faults

Timers == NextRemoval \/ OpenInitialDirectory
Events ==
    \/ Listed \/ HomeResolved \/ (\E op \in Ops : OperationEnds(op))
    \/ PanelGoesUp \/ PanelGoesDown \/ PanelDrops

PanelNext ==
    \/ \E d \in Dirs : Navigate(d) \/ FollowTerminal(d) \/ Expand(d)
    \/ \E d \in Dirs, names \in SUBSET Names \ {{}} : DropFiles(names, d)
    \/ \E entries \in SUBSET panel.rows : AskRemove(entries)
    \/ \E e \in panel.rows : AskPermissions(e) \/ EditorSaves(e)
    \/ \E e \in panel.rows, n \in Names : Rename(e, n)
    \/ AskName \/ Refuse \/ SetPermissions \/ RemoveSelected \/ CancelUploads
    \/ \E n \in Names, op \in {"write", "mkdir"} : Create(n, op)
    \/ \E yes \in BOOLEAN : Overwrite(yes)
    \/ \E h \in Hosts : ReconnectPane(h)
    \/ DisconnectPane \/ Events \/ Timers
    \/ \E c \in Requests : PanelPerform(c)
    \/ Connection \/ PanelTransport

\* Both event loops run, under a question too; nobody has to answer one.
PanelFairness ==
    /\ WF_panelVars(Events) /\ WF_panelVars(Timers)
    /\ WF_panelVars(\E c \in Requests : PanelPerform(c)) /\ WF_panelVars(Connection)

PanelSpec == PanelInit /\ [][PanelNext]_panelVars /\ PanelFairness

\* ------------------------------------------------------------------------
\* Properties.

\* Every variable keeps its shape; a listing is waited for only if it was
\* asked for, and rows are those of the directory whose name is shown.
PanelTypeOK ==
    /\ connected \in BOOLEAN /\ target \in Hosts /\ gen \in Gens
    /\ link \in Links \cup {NoLink}
    /\ panelDisk \in [Hosts -> SUBSET Entries]
    /\ panel.current \in Dirs /\ panel.pending \in {NoDir, panel.current}
    /\ panel.rows \subseteq In(panel.current, Names) /\ panel.uploads \subseteq Entries
    /\ panel.asked \subseteq Dirs /\ panel.mgen \in Gens
    /\ panel.next \in Nat /\ panel.grace \in Nat /\ panel.out = <<>>
    /\ clicks \in 0 .. MaxClicks /\ faults \in 0 .. MaxFaults

\* When everything asked for is answered, the list shows what the server has,
\* whatever was put off, deduplicated, reconnected, or changed meanwhile.  The
\* exception is an overwrite question that was answered after a newer refresh
\* of the same directory was asked for (raced): its old entries win.
PanelSettled ==
    /\ connected /\ link # NoLink /\ calls = <<>> /\ deferred = {} /\ reports = <<>>
    /\ dialogs = <<>> /\ panel.next = 0 /\ panel.grace = 0 /\ ~died
ShownIsFresh ==
    /\ PanelTypeOK
    /\ PanelSettled =>
          /\ panel.pending = NoDir /\ panel.asked = {}
          /\ \/ panel.rows = {e \in panelDisk[target] : e[1] = panel.current}
             \/ panel.error \/ panel.raced

\* While the connection stands, a change or a batch of removals ends, and the
\* actions of the panel can be used again.
Blocked == panel.mutating /\ panel.mgen = gen /\ connected /\ ~died
ChangesEnd == Blocked ~> ~Blocked
=============================================================================
