---------------------------- MODULE CommandHistory ----------------------------
(***************************************************************************)
(* The commands of this device: one table (ServerRepository) that the      *)
(* terminals of all hosts write, and the panels of the panes               *)
(* (CommandHistoryPanel) that show a part of it and act on the rows they   *)
(* show.  A panel reads the table again only after its own acts, so its    *)
(* rows grow old when another pane, or another NoxShell, acts.             *)
(*                                                                         *)
(* Rows are ordered by the time of execution; the clock is taken to go     *)
(* forward.  A pane keeps its host and its connection.  The host a command *)
(* was last run on, completions and the input line are left out, and the   *)
(* database does not fail.                                                 *)
(***************************************************************************)
EXTENDS SubSequences, FiniteSets

CONSTANTS
    Panes,
    Program,     \* [Panes -> the program whose window has the pane]; its dialogs are modal
    Commands,    \* commands, trimmed and cut to 4096 characters
    Notes,       \* notes of commands
    NoNote,
    Anything,    \* an empty search
    Searches,    \* the other searches: commands and notes
    OldTables,   \* tables of earlier versions, with a row for a command on each host
    Limit,       \* commands kept that are not favourites, 500
    Shown,       \* rows of a panel, 300
    MaxGiven     \* bound on commands and acts of users

ASSUME HistoryAssumption ==
    /\ NoNote \in Notes /\ Commands \cap Notes = {} /\ Anything \notin Commands \cup Notes
    /\ Searches \subseteq Commands \cup (Notes \ {NoNote})
    /\ Limit \in Nat \ {0} /\ Shown \in Nat \ {0} /\ MaxGiven \in Nat
    /\ OldTables \subseteq Seq([command : Commands, note : Notes, favorite : BOOLEAN])

VARIABLES
    old,         \* the table of an earlier version, until it is migrated; oldest execution first
    history,     \* table command_history, oldest execution first
    made,        \* ids given so far (AUTOINCREMENT)
    panel,       \* [Panes -> the panel]
    dialog,      \* [Panes -> its open dialog]
    given        \* commands and acts of users so far, a bound

historyVars == <<old, history, made, panel, dialog, given>>

Entry(id, command, note, favorite) == [id |-> id, command |-> command, note |-> note, favorite |-> favorite]
NoDialog == [kind |-> "none", id |-> 0, command |-> Anything, starred |-> FALSE]
NewPanel == [visible |-> FALSE, starred |-> FALSE, search |-> Anything, due |-> FALSE, rows |-> <<>>, current |-> 0]

HistoryInit ==
    /\ old \in OldTables \cup {<<>>} /\ history = <<>> /\ made = 0
    /\ panel = [p \in Panes |-> NewPanel] /\ dialog = [p \in Panes |-> NoDialog] /\ given = 0

-----------------------------------------------------------------------------
(* The table. *)

Of(table, command) == {i \in DOMAIN table : table[i].command = command}
Newest(indices) == CHOOSE i \in indices : \A j \in indices : j <= i

\* The note that a favourite had last, or else the last note.
MergedNote(table, command) ==
    LET noted == {i \in Of(table, command) : table[i].note # NoNote}
        starred == {i \in noted : table[i].favorite}
    IN  IF noted = {} THEN NoNote ELSE table[Newest(IF starred = {} THEN noted ELSE starred)].note

\* One row for each command, in the order of its last execution.
Merged(table) ==
    LET last == Only([i \in DOMAIN table |-> i], {i \in DOMAIN table : i = Newest(Of(table, table[i].command))})
    IN  [k \in DOMAIN last |->
            LET command == table[last[k]].command
            IN  Entry(k, command, MergedNote(table, command), \E i \in Of(table, command) : table[i].favorite)]

\* The faulty variant gives the id of a deleted last row again, as a plain primary key does.
ReusedId(table) == LET ids == {table[i].id : i \in DOMAIN table} IN (IF ids = {} THEN 0 ELSE Newest(ids)) + 1
FreshId(table) == made + 1

\* The rows of the other commands.
OthersOf(table, command) == Only(table, {e \in ToSet(table) : e.command # command})

\* A command that is known keeps its id, note and star and becomes the newest.
Upserted(table, command) ==
    LET known == Of(table, command)
    IN  Append(OthersOf(table, command),
               IF known = {} THEN Entry(FreshId(table), command, NoNote, FALSE) ELSE table[Newest(known)])

\* The faulty variant counts and removes favourites as well.
PrunedToLimit(table) == SubSeq(table, IF Len(table) > Limit THEN Len(table) - Limit + 1 ELSE 1, Len(table))
Pruned(table) ==
    LET plain(i) == Cardinality({j \in i .. Len(table) : ~table[j].favorite})
    IN  Only(table, {table[i] : i \in {j \in DOMAIN table : table[j].favorite \/ plain(j) <= Limit}})

HasId(table, id) == \E i \in DOMAIN table : table[i].id = id
WithFavorite(table, id, favorite) ==
    [i \in DOMAIN table |-> IF table[i].id = id THEN [table[i] EXCEPT !.favorite = favorite] ELSE table[i]]
WithNote(table, id, note) == [i \in DOMAIN table |-> IF table[i].id = id THEN [table[i] EXCEPT !.note = note] ELSE table[i]]
WithoutId(table, id) == Only(table, {e \in ToSet(table) : e.id # id})

Matches(e, search) == search = Anything \/ search = e.command \/ search = e.note
LoadCommandHistory(table, starred, search) ==
    LET found == Reverse(Only(table, {e \in ToSet(table) : (starred => e.favorite) /\ Matches(e, search)}))
    IN  SubSeq(found, 1, IF Len(found) < Shown THEN Len(found) ELSE Shown)

-----------------------------------------------------------------------------
(* The panels. *)

Refreshed(x, table) ==
    [x EXCEPT !.due = FALSE, !.current = 0, !.rows = LoadCommandHistory(table, x.starred, x.search)]
Refresh(p, table) == panel' = [panel EXCEPT ![p] = Refreshed(@, table)]

Free(p) == old = <<>> /\ \A q \in Panes : Program[q] = Program[p] => dialog[q] = NoDialog
Given == given < MaxGiven /\ given' = given + 1

\* The first start of this version, in one transaction.
Migrate ==
    /\ old # <<>> /\ old' = <<>>
    /\ history' = Merged(old) /\ made' = Len(history')
    /\ UNCHANGED <<panel, dialog, given>>

\* A command is submitted in the terminal or the input line of a pane.
RecordCommand(p, command) ==
    /\ made' = IF Of(history, command) = {} THEN FreshId(history) ELSE made
    /\ history' = Pruned(Upserted(history, command))
    /\ IF panel[p].visible THEN Refresh(p, history') ELSE UNCHANGED panel
    /\ UNCHANGED <<old, dialog>>
Submit(p, command) == Free(p) /\ Given /\ RecordCommand(p, command)

Looks(p) == Free(p) /\ UNCHANGED <<old, history, made, dialog, given>>
Show(p) ==
    /\ Looks(p) /\ ~panel[p].visible
    /\ panel' = [panel EXCEPT ![p] = [Refreshed(@, history) EXCEPT !.visible = TRUE]]
\* By its button, Escape, or a double click that takes a command into the input line.
Hide(p) == Looks(p) /\ panel[p].visible /\ panel' = [panel EXCEPT ![p].visible = FALSE]
SwitchTab(p) ==
    /\ Looks(p) /\ panel[p].visible
    /\ panel' = [panel EXCEPT ![p] = Refreshed([@ EXCEPT !.starred = ~panel[p].starred], history)]
TypeSearch(p, search) ==
    /\ Looks(p) /\ panel[p].visible /\ search # panel[p].search
    /\ panel' = [panel EXCEPT ![p] = IF search = Anything THEN Refreshed([@ EXCEPT !.search = search], history)
                                     ELSE [@ EXCEPT !.search = search, !.due = TRUE]]
\* The timer of the search does not wait for a menu or a dialog to be closed.
Search(p) == panel[p].due /\ Refresh(p, history) /\ UNCHANGED <<old, history, made, dialog, given>>
OpenMenu(p, row) ==
    /\ Looks(p) /\ panel[p].visible /\ row \in DOMAIN panel[p].rows
    /\ panel' = [panel EXCEPT ![p].current = row]

\* The row a menu was opened on, if the panel has not been read again since.
Row(p) == panel[p].rows[panel[p].current]
Acts(p) == Free(p) /\ panel[p].visible /\ panel[p].current > 0

Execute(p) == Acts(p) /\ Given /\ RecordCommand(p, Row(p).command)

\* A change that finds its row shows the table anew; one that finds none leaves the panel as it is.
Changes(p, id, table) ==
    /\ history' = table /\ UNCHANGED <<old, made>>
    /\ IF HasId(history, id) THEN Refresh(p, table) ELSE UNCHANGED panel
ToggleFavorite(p) ==
    /\ Acts(p) /\ Given /\ UNCHANGED dialog
    /\ Changes(p, Row(p).id, WithFavorite(history, Row(p).id, ~Row(p).favorite))
DeleteRow(p) ==
    /\ Acts(p) /\ Given /\ UNCHANGED dialog
    /\ Changes(p, Row(p).id, WithoutId(history, Row(p).id))

Asks(p, question) ==
    /\ Given /\ dialog' = [dialog EXCEPT ![p] = question]
    /\ UNCHANGED <<old, history, made, panel>>
EditNote(p) == Acts(p) /\ Asks(p, [kind |-> "note", id |-> Row(p).id, command |-> Row(p).command, starred |-> FALSE])
ClearView(p) ==
    /\ Free(p) /\ panel[p].visible /\ panel[p].rows # <<>>
    /\ Asks(p, [kind |-> "clear", id |-> 0, command |-> Anything, starred |-> panel[p].starred])

Answered(p, kind) == dialog[p].kind = kind /\ dialog' = [dialog EXCEPT ![p] = NoDialog] /\ UNCHANGED given
SetNote(p, note) == Answered(p, "note") /\ Changes(p, dialog[p].id, WithNote(history, dialog[p].id, note))
ClearFavorites(p) ==
    /\ Answered(p, "clear") /\ dialog[p].starred /\ UNCHANGED <<old, made>>
    /\ history' = [i \in DOMAIN history |-> [history[i] EXCEPT !.favorite = FALSE]]
    /\ Refresh(p, history')
ClearHistory(p) ==
    /\ Answered(p, "clear") /\ ~dialog[p].starred /\ UNCHANGED <<old, made>>
    /\ history' = Only(history, {e \in ToSet(history) : e.favorite})
    /\ Refresh(p, history')
Cancel(p) == dialog[p] # NoDialog /\ Answered(p, dialog[p].kind) /\ UNCHANGED <<old, history, made, panel>>

HistoryNext ==
    \/ Migrate
    \/ \E p \in Panes :
        \/ \E command \in Commands : Submit(p, command)
        \/ Show(p) \/ Hide(p) \/ SwitchTab(p) \/ Search(p)
        \/ \E search \in Searches \cup {Anything} : TypeSearch(p, search)
        \/ \E row \in 1 .. Shown : OpenMenu(p, row)
        \/ Execute(p) \/ ToggleFavorite(p) \/ DeleteRow(p) \/ EditNote(p) \/ ClearView(p)
        \/ \E note \in Notes : SetNote(p, note)
        \/ ClearFavorites(p) \/ ClearHistory(p) \/ Cancel(p)

HistorySpec == HistoryInit /\ [][HistoryNext]_historyVars

-----------------------------------------------------------------------------
(* Properties. *)

Entries == [id : 1 .. made, command : Commands, note : Notes, favorite : BOOLEAN]
HistoryTypeOK ==
    /\ history \in Seq(Entries) /\ \A i, j \in DOMAIN history : history[i].id = history[j].id => i = j
    /\ \A p \in Panes : panel[p].rows \in Seq(Entries) /\ panel[p].current \in 0 .. Len(panel[p].rows)

\* The user's own act on a command: the one of the row, or of the dialog that was opened on it.
ActsOn(p, command) ==
    \/ Acts(p) /\ Row(p).command = command /\ (ToggleFavorite(p) \/ DeleteRow(p))
    \/ dialog[p].command = command /\ \E note \in Notes : SetNote(p, note)
InTable(table, e) == \E i \in DOMAIN table : table[i] = e

\* A favourite and its note outlive what is run later, the limit of the table and the clearing of the
\* history ("收藏记录是独立资产；清空普通历史时必须保留收藏及其备注"), until the user acts on that command
\* or takes all stars away.  They outlive the migration of an old table, too, with one exception: when
\* two favourites of one command have notes, on two hosts, only the later note is kept
\* (ServerRepository.cpp:245-247).
StarredNotes(table, command) == {i \in Of(table, command) : table[i].favorite /\ table[i].note # NoNote}
FavoritesAreKept ==
    /\ []HistoryTypeOK
    /\ [][\A i \in DOMAIN history : history[i].favorite =>
            \/ InTable(history', history[i])
            \/ \E p \in Panes : ActsOn(p, history[i].command) \/ ClearFavorites(p)]_historyVars
    /\ [][\A i \in DOMAIN old : Migrate /\ old[i].favorite =>
            \E e \in {history'[k] : k \in DOMAIN history'} :
                /\ e.command = old[i].command /\ e.favorite
                /\ old[i].note # NoNote => \E j \in StarredNotes(old, e.command) : i <= j /\ e.note = old[j].note]_historyVars

\* An act on a row that has grown old changes the command that the row shows, or nothing: the
\* command may have been deleted, pruned and run again meanwhile, also while its dialog was open.
ActsHitTheirRow ==
    [][\A p \in Panes, note \in Notes :
        LET command == IF dialog[p].kind = "note" THEN dialog[p].command ELSE Row(p).command
        IN  (ToggleFavorite(p) \/ DeleteRow(p) \/ SetNote(p, note)) =>
            OthersOf(history, command) = OthersOf(history', command)]_historyVars
=============================================================================
