------------------------------ MODULE FileEditor ------------------------------
(***************************************************************************)
(* The editor of remote files in a pane (RemoteFileEditor): tabs with one  *)
(* document each, read and saved through the session.  All of it runs on   *)
(* the user interface thread, but a question before closing a document     *)
(* runs a nested event loop: reports, timers and the loss of the           *)
(* connection go on under it, while the user can only answer.              *)
(*                                                                         *)
(* A text is a number, new with every edit; on the server a file has the   *)
(* text last written, here without a crash or a half-done save, which are  *)
(* the business of RemoteCommit.  The editor lives in the splitter of its  *)
(* pane and closes only without documents, so that the question of its     *)
(* closeEvent and m_closeAfterAllSaved never come into play.               *)
(***************************************************************************)
EXTENDS FileRequests, SequencesExt

CONSTANTS
    Files,      \* remote paths
    NoDoc,      \* the file has no tab
    NoQuestion,
    MaxActs     \* bound on what the user does

ASSUME ActAssumption == MaxActs \in Nat /\ IsFiniteSet(Files)

Texts == 0 .. MaxActs
NoId == 0
Ids == 1 .. (2 * MaxActs + 2)  \* bound on the requests under way

Doc == [loaded : BOOLEAN, busy : BOOLEAN, dirty : BOOLEAN, enabled : BOOLEAN,
        closing : BOOLEAN, undo : BOOLEAN, timer : BOOLEAN, fresh : BOOLEAN,
        text : Texts, gen : Gens, id : Ids \cup {NoId}]
Questions == [file : Files, index : 1 .. Cardinality(Files), gone : BOOLEAN]

\* No document and no question are not one.
ASSUME NoneAssumption == NoDoc \notin Doc /\ NoQuestion \notin Questions

VARIABLES
    disk,       \* [Hosts -> [Files -> the text on the server]]
    stored,     \* history: [Files -> every text a server had or has]
    tabs,       \* m_documents, in the order of the tabs
    docs,       \* [Files -> the document]
    question,   \* the close question: its document and the index it had
    autoSave,   \* the setting files/autoSave
    crashed,    \* the program used a deleted object and died
    last, acts  \* the newest text; counter of the bound

editor == <<tabs, docs, question>>
server == <<disk, stored>>
rest == <<autoSave, crashed, last, acts>>
vars == <<requestVars, server, editor, rest>>

NewDoc == [loaded |-> FALSE, busy |-> FALSE, dirty |-> FALSE, enabled |-> FALSE,
           closing |-> FALSE, undo |-> FALSE, timer |-> FALSE, fresh |-> TRUE,
           text |-> 0, gen |-> 0, id |-> NoId]

\* Connected, with all the files open and read.
Init ==
    /\ RequestsInit
    /\ disk = [h \in Hosts |-> [f \in Files |-> 0]] /\ stored = [f \in Files |-> {0}]
    /\ tabs \in SetToSeqs(Files)
    /\ docs = [f \in Files |-> [NewDoc EXCEPT !.loaded = TRUE, !.enabled = TRUE, !.fresh = FALSE]]
    /\ question = NoQuestion /\ autoSave \in BOOLEAN /\ crashed = FALSE
    /\ last = 0 /\ acts = 0

Open == {f \in Files : docs[f] # NoDoc}
Runs == ~crashed
User == Runs /\ question = NoQuestion /\ acts < MaxActs /\ acts' = acts + 1
Quiet == UNCHANGED <<autoSave, crashed, last>>

\* setBusy: the editor of a busy document takes no input.
Idle(d) == [d EXCEPT !.busy = FALSE, !.enabled = d.loaded /\ connected]
Busy(d, id) == [d EXCEPT !.busy = TRUE, !.enabled = FALSE, !.gen = gen, !.id = id]

\* Request ids are unique; those of requests that are over are used again.
Pending(id) ==
    \/ \E f \in Open : docs[f].id = id
    \/ InFlight(LAMBDA r : r.call.op \in {"read", "write"} /\ r.call.id = id)
NewId(id) == ~Pending(id) /\ \A n \in Ids : n < id => Pending(n)

\* ------------------------------------------------------------------------
\* Requests of a document.

\* saveDocument, for a document and whatever happens to it before.
CanSave(d) == d.loaded /\ ~d.busy /\ d.dirty /\ connected

Save(f, d) ==
    IF CanSave(d)
    THEN \E id \in Ids :
            /\ NewId(id)
            /\ docs' = [docs EXCEPT ![f] = Busy(d, id)]
            /\ Ask([op |-> "write", file |-> f, id |-> id, text |-> d.text])
    ELSE /\ docs' = [docs EXCEPT ![f] = d]
         /\ UNCHANGED calls

\* Faulty: the timer is not a single shot.
BeginLoadAgain(f) ==
    /\ Runs /\ f \in Open /\ docs[f].fresh /\ connected
    /\ \E id \in Ids :
          /\ NewId(id)
          /\ docs' = [docs EXCEPT ![f] = Busy(docs[f], id)]
          /\ Ask([op |-> "read", file |-> f, id |-> id])
    /\ UNCHANGED <<session, worker, reports, server, tabs, question, acts>> /\ Quiet

\* beginLoad, from the timer that openFile starts.
BeginLoad(f) ==
    /\ Runs /\ f \in Open /\ docs[f].fresh
    /\ LET d == [docs[f] EXCEPT !.fresh = FALSE] IN
       IF connected
       THEN \E id \in Ids :
               /\ NewId(id)
               /\ docs' = [docs EXCEPT ![f] = Busy(d, id)]
               /\ Ask([op |-> "read", file |-> f, id |-> id])
       ELSE docs' = [docs EXCEPT ![f] = Idle(d)] /\ UNCHANGED calls
    /\ UNCHANGED <<session, worker, reports, server, tabs, question, acts>> /\ Quiet

\* ------------------------------------------------------------------------
\* What the user does.

\* A second request to open a file only shows its tab.
OpenFile(f) ==
    /\ User /\ connected /\ f \notin Open
    /\ tabs' = Append(tabs, f)
    /\ docs' = [docs EXCEPT ![f] = NewDoc]
    /\ UNCHANGED <<requestVars, server, question>> /\ Quiet

\* Typing, or undo and redo, whose buttons need not have an enabled editor.
Edit(f) ==
    /\ User /\ f \in Open
    /\ docs[f].enabled \/ (docs[f].undo /\ docs[f].loaded /\ ~docs[f].busy /\ connected)
    /\ last' = last + 1
    /\ docs' = [docs EXCEPT ![f] =
                   IF @.busy THEN [@ EXCEPT !.text = last', !.undo = TRUE]
                   ELSE [@ EXCEPT !.text = last', !.undo = TRUE, !.dirty = TRUE, !.timer = autoSave]]
    /\ UNCHANGED <<requestVars, server, tabs, question, autoSave, crashed>>

SaveFile(f) ==
    /\ User /\ f \in Open /\ CanSave(docs[f])
    /\ Save(f, docs[f])
    /\ UNCHANGED <<session, worker, reports, server, tabs, question>> /\ Quiet

\* Three seconds after the last edit, also under a question.
AutoSave(f) ==
    /\ Runs /\ f \in Open /\ docs[f].timer
    /\ Save(f, [docs[f] EXCEPT !.timer = FALSE])
    /\ UNCHANGED <<session, worker, reports, server, tabs, question, acts>> /\ Quiet

MoveTab(i, j) ==
    /\ User /\ i # j
    /\ tabs' = InsertAt(RemoveAt(tabs, i), j, tabs[i])
    /\ UNCHANGED <<requestVars, server, docs, question>> /\ Quiet

\* removeDocument, which does nothing for an index that is too large.
Removed(i) ==
    IF i \in DOMAIN tabs
    THEN /\ tabs' = RemoveAt(tabs, i)
         /\ docs' = [docs EXCEPT ![tabs[i]] = NoDoc]
    ELSE UNCHANGED <<tabs, docs>>

\* requestCloseDocument: nothing while busy, a question about unsaved edits.
CloseTab(i) ==
    LET f == tabs[i] IN
    /\ User /\ ~docs[f].busy
    /\ IF docs[f].dirty
       THEN question' = [file |-> f, index |-> i, gone |-> FALSE] /\ UNCHANGED <<tabs, docs>>
       ELSE Removed(i) /\ UNCHANGED question
    /\ UNCHANGED <<requestVars, server>> /\ Quiet

\* The answers.  The index is the one of the time of the question.
Cancel ==
    /\ Runs /\ question # NoQuestion
    /\ question' = NoQuestion
    /\ UNCHANGED <<requestVars, server, tabs, docs, acts>> /\ Quiet

Discard ==
    /\ Runs /\ question # NoQuestion
    /\ Removed(question.index)
    /\ question' = NoQuestion
    /\ UNCHANGED <<requestVars, server, acts>> /\ Quiet

\* If the document is gone by now the flag is written into freed memory.
SaveAndClose ==
    /\ Runs /\ question # NoQuestion
    /\ question' = NoQuestion
    /\ IF question.gone
       THEN /\ crashed' \in BOOLEAN
            /\ UNCHANGED <<calls, docs>>
       ELSE /\ Save(question.file, [docs[question.file] EXCEPT !.closing = TRUE])
            /\ UNCHANGED crashed
    /\ UNCHANGED <<session, worker, reports, server, tabs, autoSave, last, acts>>

\* ------------------------------------------------------------------------
\* What the session reports.

Disabled == [f \in Files |-> IF f \in Open THEN [docs[f] EXCEPT !.enabled = FALSE] ELSE NoDoc]

Reconnect(h) ==
    /\ User /\ BeginConnect(h)
    /\ docs' = Disabled
    /\ UNCHANGED <<worker, reports, server, tabs, question>> /\ Quiet

Disconnect ==
    /\ User /\ BeginDisconnect
    /\ docs' = Disabled
    /\ UNCHANGED <<worker, reports, server, tabs, question>> /\ Quiet

GoesUp ==
    /\ Runs /\ NextReport("up")
    /\ connected' = TRUE
    /\ UNCHANGED <<target, gen, worker, calls, server, editor, acts>> /\ Quiet

GoesDown ==
    /\ Runs /\ NextReport("down")
    /\ connected' = FALSE /\ docs' = Disabled
    /\ UNCHANGED <<target, gen, worker, calls, server, tabs, question, acts>> /\ Quiet

Dropped ==
    /\ Runs /\ StaleReport
    /\ UNCHANGED <<session, worker, calls, server, editor, acts>> /\ Quiet

\* The document that waits for the request of a report, if there is one.
Answered == {f \in Open : f = Head(reports).call.file /\ docs[f].id = Head(reports).call.id}

\* A binary file is refused like one that cannot be read.
ReadDone ==
    /\ Runs /\ NextReport("read")
    /\ LET r == Head(reports).call
           Read(d) == [d EXCEPT !.text = r.text, !.loaded = TRUE, !.dirty = FALSE, !.undo = FALSE]
       IN  docs' = [f \in Files |-> IF f \in Answered
                                    THEN Idle(IF r.ok THEN Read(docs[f]) ELSE docs[f]) ELSE docs[f]]
    /\ UNCHANGED <<session, worker, calls, server, tabs, question, acts>> /\ Quiet

\* Faulty: a failed save leaves the document busy.
WriteFailedSilently ==
    /\ Runs /\ NextReport("write") /\ ~Head(reports).call.ok
    /\ UNCHANGED <<session, worker, calls, server, editor, acts>> /\ Quiet

WriteFailed ==
    /\ Runs /\ NextReport("write") /\ ~Head(reports).call.ok
    /\ docs' = [f \in Files |-> IF f \in Answered
                                THEN Idle([docs[f] EXCEPT !.closing = FALSE]) ELSE docs[f]]
    /\ UNCHANGED <<session, worker, calls, server, tabs, question, acts>> /\ Quiet

\* A document that was to close when saved goes now, also under a question:
\* if it was the last, the editor goes, and the box with the question with it.
WriteDone ==
    /\ Runs /\ NextReport("write") /\ Head(reports).call.ok
    /\ \/ Answered = {} /\ UNCHANGED <<tabs, docs, question, crashed>>
       \/ \E f \in Answered :
            IF ~docs[f].closing
            THEN /\ docs' = [docs EXCEPT ![f] = Idle([@ EXCEPT !.dirty = FALSE])]
                 /\ UNCHANGED <<tabs, question, crashed>>
            ELSE /\ Removed(CHOOSE i \in DOMAIN tabs : tabs[i] = f)
                 /\ question' = IF question # NoQuestion /\ question.file = f
                                THEN [question EXCEPT !.gone = TRUE] ELSE question
                 /\ crashed' \in {FALSE, question # NoQuestion /\ tabs' = <<>>}
    /\ UNCHANGED <<session, worker, calls, server, autoSave, last, acts>>

\* ------------------------------------------------------------------------
\* The worker.

Perform(c) ==
    /\ Runs /\ Taken(c)
    /\ \/ /\ link # NoLink /\ c.call.op = "read"
          /\ reports' = Append(reports,
                [call |-> [op |-> "read", file |-> c.call.file, id |-> c.call.id, ok |-> TRUE,
                           text |-> disk[link.host][c.call.file]], gen |-> c.gen])
          /\ UNCHANGED server
       \/ /\ link # NoLink /\ c.call.op = "write"
          /\ disk' = [disk EXCEPT ![link.host][c.call.file] = c.call.text]
          /\ stored' = [stored EXCEPT ![c.call.file] = @ \cup {c.call.text}]
          /\ \E ok \in BOOLEAN : reports' = Append(reports,
                [call |-> [op |-> "write", file |-> c.call.file, id |-> c.call.id, ok |-> ok], gen |-> c.gen])
       \/ /\ reports' = Append(reports,
                [call |-> [op |-> c.call.op, file |-> c.call.file, id |-> c.call.id, ok |-> FALSE, text |-> 0],
                 gen |-> c.gen])
          /\ UNCHANGED server
    /\ UNCHANGED <<session, link, editor, acts>> /\ Quiet

Transport ==
    /\ Runs
    /\ ServeConnect \/ ServeDisconnect \/ LoseLink \/ Defer \/ Vanish
    /\ UNCHANGED <<session, server, editor, acts>> /\ Quiet

Next ==
    \/ \E f \in Files : OpenFile(f) \/ Edit(f) \/ SaveFile(f) \/ AutoSave(f) \/ BeginLoad(f)
    \/ \E i, j \in DOMAIN tabs : MoveTab(i, j)
    \/ \E i \in DOMAIN tabs : CloseTab(i)
    \/ Cancel \/ Discard \/ SaveAndClose
    \/ \E h \in Hosts : Reconnect(h)
    \/ Disconnect \/ GoesUp \/ GoesDown \/ Dropped \/ ReadDone \/ WriteFailed \/ WriteDone
    \/ \E c \in Requests : Perform(c)
    \/ Transport

\* Both event loops run; the opening of a size channel ends, so that a call
\* is not put off for ever.
Fairness ==
    /\ WF_vars(GoesUp \/ GoesDown \/ Dropped \/ ReadDone \/ WriteFailed \/ WriteDone)
    /\ WF_vars(\E c \in Requests : Perform(c))
    /\ WF_vars(Runs /\ (ServeConnect \/ ServeDisconnect)
                 /\ UNCHANGED <<session, server, editor, acts>> /\ Quiet)

Spec == Init /\ [][Next]_vars /\ Fairness

\* ------------------------------------------------------------------------
\* Properties.

\* Every variable keeps its shape, and a file has a document while it has a tab.
TypeOK ==
    /\ connected \in BOOLEAN /\ target \in Hosts /\ gen \in Gens
    /\ link \in Links \cup {NoLink}
    /\ disk \in [Hosts -> [Files -> Texts]] /\ stored \in [Files -> SUBSET Texts]
    /\ IsInjective(tabs) /\ Range(tabs) = Open
    /\ docs \in [Files -> Doc \cup {NoDoc}]
    /\ question \in Questions \cup {NoQuestion}
    /\ last \in Texts /\ acts \in 0 .. MaxActs
    /\ autoSave \in BOOLEAN /\ crashed \in BOOLEAN

\* A document that shows no unsaved edits has a text that a server has or had.
CleanWasStored ==
    \A f \in Open : docs[f].loaded /\ ~docs[f].dirty => docs[f].text \in stored[f]

\* The user answers the question about f.
AnsweredAbout(f) == question # NoQuestion /\ question' = NoQuestion /\ question.file = f

\* Exception: while the question stood another document was saved and closed,
\* and the index the question kept now is that of a document nobody asked about;
\* "discard" removes that one.
Shifted ==
    /\ question # NoQuestion
    /\ question.index \in DOMAIN tabs
    /\ tabs[question.index] # question.file

\* Unsaved edits are lost only by the user's hand or to a question that has
\* Shifted, whatever reports, autosaves and reconnections come in between: a
\* text that is shown as saved was stored; one that is not saved is replaced only
\* by the user's next one, and its document goes only when a server has the text
\* (it was to close when saved) or with the answer to the question about it.
\* Edits that go with the whole pane are not considered.
EditsSurvive ==
    /\ [](TypeOK /\ CleanWasStored)
    /\ [][\A f \in Open : docs[f].dirty /\ docs'[f] = NoDoc
          => docs[f].text \in stored[f] \/ AnsweredAbout(f) \/ Shifted]_vars
    /\ [][\A f \in Open : docs[f].dirty /\ docs'[f] # NoDoc /\ docs'[f].text # docs[f].text
          => last' = last + 1 /\ docs'[f].text = last']_vars

\* A write that was put off or late changes no other server than the one the
\* pane was connected to when it was made.
StaysOnItsServer ==
    [][\A h \in Hosts : disk'[h] # disk[h] =>
          \E c \in Requests : c.call.op = "write" /\ c.host = h]_vars

\* The session has begun another connection, or ended the last, since f asked:
\* it drops the answer, nothing resets m_busy, and f waits for good.
Abandoned(f) == docs[f] # NoDoc /\ docs[f].gen # gen

\* A document that waits for an answer gets it, unless the connection it asked on
\* ends or is replaced first (Abandoned), in which case nothing is promised.
Waiting(f) == docs[f] # NoDoc /\ docs[f].busy
RequestsAreAnswered ==
    \A f \in Files : Waiting(f) ~> (~Waiting(f) \/ Abandoned(f) \/ ~connected \/ crashed)
=============================================================================
