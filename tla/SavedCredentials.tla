--------------------------- MODULE SavedCredentials ---------------------------
(***************************************************************************)
(* Who refers to which secret: the servers and the shared accounts of the  *)
(* database (ServerRepository), the secrets behind their references        *)
(* (CredentialStore, which LocalVault models), and the copies of rows that *)
(* sidebar, panes, dialogs and logins under way go on using.               *)
(*                                                                         *)
(* A secret is never overwritten.  A change stores a new one under a fresh *)
(* reference, then changes the row, then removes what is no longer used;   *)
(* each of these is a step in which a call may fail, the process may be    *)
(* killed, or another NoxShell on the same files may act.  Dialogs are     *)
(* modal; only a login may succeed while one is open.  Hosts log in with a *)
(* password; reading the database does not fail.                           *)
(***************************************************************************)
EXTENDS Naturals

CONSTANTS
    Procs,       \* processes of the program
    Servers, Accounts,
    Users,       \* user names, standing for all that an edit may change
    NoRow,       \* no such server, account, pane or login
    MaxRefs,     \* bound on the secrets stored
    MaxActs,     \* bound on what users begin
    MaxFaults    \* bound on failed calls and kills

ASSUME SizeAssumption == MaxRefs \in Nat \ {0} /\ MaxActs \in Nat /\ MaxFaults \in Nat

Refs == 1 .. MaxRefs
NoRef == 0
Rows == [user : Users, ref : Refs \cup {NoRef}]
Kinds == {"server", "deleteServer", "account", "deleteAccount"}
Steps == {"idle", "open", "look", "store", "saveRow", "commit", "deleteRow", "deleteAccount", "drop"}
Acts == [kind : Kinds, id : Servers \cup Accounts, old : Rows \cup {NoRow}, new : Rows]
Panes == [server : Servers, row : Rows, edited : BOOLEAN, bound : BOOLEAN]
Logins == [server : Servers, row : Rows, ref : Refs \cup {NoRef}]
\* No row is not one.
ASSUME RowAssumption == NoRow \notin Rows \cup Acts \cup Panes \cup Logins

VARIABLES
    rows,        \* table servers
    accounts,    \* table saved_credentials
    store,       \* references with a secret
    made,        \* references made so far
    managed,     \* those of them that belong to accounts
    running,     \* processes that run
    together,    \* history: two of them have run at the same time
    side,        \* [Procs -> the servers of its sidebar]
    list,        \* [Procs -> the accounts of its credential panel]
    pane,        \* [Procs -> a pane: its server and next profile, edited since it connected?]
    login,       \* [Procs -> a login with a typed password: its profile and new reference]
    pc, act,     \* [Procs -> the next step and the data of a user's action]
    acts, faults \* counters of the bounds

disk == <<rows, accounts, store, made, managed>>
copies == <<side, list, pane, login>>
control == <<pc, act>>
vars == <<disk, running, together, copies, control, acts, faults>>

NoServers == [s \in Servers |-> NoRow]
NoAccounts == [a \in Accounts |-> NoRow]

\* One server that uses the only account, from an earlier run.
Init ==
    /\ \E s \in Servers, a \in Accounts, u \in Users :
        /\ rows = [NoServers EXCEPT ![s] = [user |-> u, ref |-> 1]]
        /\ accounts = [NoAccounts EXCEPT ![a] = [user |-> u, ref |-> 1]]
    /\ store = {1} /\ made = 1 /\ managed = {1}
    /\ running = {} /\ together = FALSE
    /\ side = [p \in Procs |-> NoServers] /\ list = [p \in Procs |-> NoAccounts]
    /\ pane = [p \in Procs |-> NoRow] /\ login = [p \in Procs |-> NoRow]
    /\ pc = [p \in Procs |-> "idle"] /\ act = [p \in Procs |-> NoRow]
    /\ acts = 0 /\ faults = 0

Go(p, step) == pc' = [pc EXCEPT ![p] = step]
Done(p) == Go(p, "idle") /\ act' = [act EXCEPT ![p] = NoRow]
Act == acts < MaxActs /\ acts' = acts + 1
Fault == faults < MaxFaults /\ faults' = faults + 1
Owned(ref) == ref # NoRef /\ ref \notin managed

\* The program waits for input; a login whose secret is stored is not done yet.
Waits(p, step) ==
    /\ p \in running /\ pc[p] = step
    /\ login[p] # NoRow => login[p].ref = NoRef

\* Removing a secret may fail, which is reported and leaves it behind.
Forget(ref) ==
    \/ store' = store \ {ref} /\ UNCHANGED faults
    \/ Fault /\ UNCHANGED store

\* The servers that use a reference.
Using(ref) == {s \in Servers : IF rows[s] = NoRow THEN FALSE ELSE rows[s].ref = ref}

\* A fresh reference; the secret is written before anything refers to it.
NewSecret(isManaged) ==
    /\ made < MaxRefs
    /\ made' = made + 1
    /\ store' = store \cup {made'}
    /\ managed' = IF isManaged THEN managed \cup {made'} ELSE managed

\* TerminalWorkspace::updateServer: what the next connection of a pane uses.
Repaned(p, s, row) ==
    IF pane[p] # NoRow /\ pane[p].server = s
    THEN [pane EXCEPT ![p] = [server |-> s, row |-> row, edited |-> TRUE, bound |-> @.bound]]
    ELSE pane

\* ------------------------------------------------------------------------
\* Start and end of a process.

Launch(p) ==
    /\ p \notin running
    /\ running' = running \cup {p}
    /\ together' = (together \/ running # {})
    /\ side' = [side EXCEPT ![p] = rows]
    /\ list' = [list EXCEPT ![p] = accounts]
    /\ UNCHANGED <<disk, pane, login, control, faults, acts>>

Kill(p) ==
    /\ p \in running /\ Fault
    /\ running' = running \ {p}
    /\ side' = [side EXCEPT ![p] = NoServers] /\ list' = [list EXCEPT ![p] = NoAccounts]
    /\ pane' = [pane EXCEPT ![p] = NoRow] /\ login' = [login EXCEPT ![p] = NoRow]
    /\ Done(p)
    /\ UNCHANGED <<disk, together, acts>>

\* ------------------------------------------------------------------------
\* What the user begins: a dialog keeps the copy it was opened with.

Begin(p, step, data) ==
    /\ Waits(p, "idle") /\ Act
    /\ Go(p, step)
    /\ act' = [act EXCEPT ![p] = data]
    /\ UNCHANGED <<disk, running, together, copies, faults>>

Saved == {accounts[a] : a \in Accounts} \ {NoRow}

\* What a server dialog will return: an account of those saved when it was
\* opened, the password the server has, or a typed one (NoRef).
Input(old) ==
    [user : Users,
     ref : {NoRef} \cup {entry.ref : entry \in Saved}
               \cup (IF old # NoRow /\ Owned(old.ref) THEN {old.ref} ELSE {})]

EditServer(p) ==
    \E s \in Servers : \E row \in Input(side[p][s]) :
        /\ side[p][s] # NoRow
        /\ Begin(p, "open", [kind |-> "server", id |-> s, old |-> side[p][s], new |-> row])

\* Ids are random: nobody has used this one.
Unused(s) ==
    /\ rows[s] = NoRow
    /\ \A q \in Procs : side[q][s] = NoRow /\ (act[q] # NoRow => act[q].id # s)

AddServer(p) ==
    \E s \in Servers : \E row \in Input(NoRow) :
        /\ Unused(s)
        /\ Begin(p, "open", [kind |-> "server", id |-> s, old |-> NoRow, new |-> row])

\* A shared account is kept by the copy, a secret of its own is loaded and
\* stored again (persistProfile, as after a dialog).
DuplicateServer(p) ==
    \E s, t \in Servers :
        /\ side[p][s] # NoRow /\ Unused(t)
        /\ LET shared == side[p][s].ref \in managed
               row == [side[p][s] EXCEPT !.ref = IF shared THEN @ ELSE NoRef]
           IN  Begin(p, IF shared THEN "look" ELSE "store",
                     [kind |-> "server", id |-> t, old |-> NoRow, new |-> row])

DeleteServer(p) ==
    \E s \in Servers :
        /\ side[p][s] # NoRow
        /\ Begin(p, "open", [kind |-> "deleteServer", id |-> s, old |-> side[p][s], new |-> side[p][s]])

\* Dragging a server to another group saves the sidebar's copy of it.
MoveServer(p) ==
    \E s \in Servers :
        /\ side[p][s] # NoRow
        /\ Begin(p, "saveRow", [kind |-> "server", id |-> s, old |-> side[p][s], new |-> side[p][s]])

\* Renaming or deleting a group hands the sidebar's copies to the panes.
ChangeGroup(p) ==
    /\ Waits(p, "idle") /\ Act /\ pane[p] # NoRow
    /\ side[p][pane[p].server] # NoRow
    /\ pane' = Repaned(p, pane[p].server, side[p][pane[p].server])
    /\ UNCHANGED <<disk, running, together, side, list, login, control, faults>>

\* An account keeps its secret (old.ref) or gets a typed one (NoRef).
EditAccount(p) ==
    \E a \in Accounts, u \in Users, keep \in BOOLEAN :
        /\ list[p][a] # NoRow
        /\ Begin(p, "open", [kind |-> "account", id |-> a, old |-> list[p][a],
                             new |-> [user |-> u, ref |-> IF keep THEN list[p][a].ref ELSE NoRef]])

AddAccount(p) ==
    \E a \in Accounts, u \in Users :
        /\ accounts[a] = NoRow
        /\ \A q \in Procs : list[q][a] = NoRow /\ (act[q] # NoRow => act[q].id # a)
        /\ Begin(p, "open", [kind |-> "account", id |-> a, old |-> NoRow,
                             new |-> [user |-> u, ref |-> NoRef]])

DeleteAccount(p) ==
    \E a \in Accounts :
        /\ list[p][a] # NoRow
        /\ Begin(p, "open", [kind |-> "deleteAccount", id |-> a, old |-> list[p][a], new |-> list[p][a]])

\* The user confirms or cancels.
Accepted(a) ==
    CASE a.kind = "deleteServer" -> "deleteRow"
      [] a.kind = "deleteAccount" -> "deleteAccount"
      [] a.kind = "account" -> IF a.new.ref = NoRef THEN "store" ELSE "commit"
      [] a.kind = "server" -> IF a.new.ref = NoRef THEN "store"
                              ELSE IF a.new.ref \in managed THEN "look" ELSE "saveRow"

Answer(p) ==
    /\ Waits(p, "open")
    /\ \/ Done(p) /\ UNCHANGED <<pane, login>>
       \/ /\ Go(p, Accepted(act[p])) /\ UNCHANGED act
          /\ IF act[p].kind = "deleteServer" /\ pane[p] # NoRow /\ pane[p].server = act[p].id
             THEN pane' = [pane EXCEPT ![p] = NoRow] /\ login' = [login EXCEPT ![p] = NoRow]
             ELSE UNCHANGED <<pane, login>>
    /\ UNCHANGED <<disk, running, together, side, list, faults, acts>>

\* ------------------------------------------------------------------------
\* The steps of what was confirmed.

\* A failure is shown; the dialog of an account stays open for another try.
Refused(p) == IF act[p].kind = "account" THEN Go(p, "open") /\ UNCHANGED act ELSE Done(p)

\* The new secret of a server or of an account.
Store(p) ==
    /\ pc[p] = "store"
    /\ \/ /\ NewSecret(act[p].kind = "account")
          /\ act' = [act EXCEPT ![p].new.ref = made']
          /\ Go(p, IF act[p].kind = "account" THEN "commit" ELSE "saveRow")
          /\ UNCHANGED faults
       \/ Fault /\ Refused(p) /\ UNCHANGED <<store, made, managed>>
    /\ UNCHANGED <<rows, accounts, running, together, copies, acts>>

\* persistProfile looks whether the chosen account is still there.
Look(p) ==
    /\ pc[p] = "look"
    /\ \/ \E entry \in Saved :
            /\ entry.ref = act[p].new.ref
            /\ act' = [act EXCEPT ![p].new = entry]
            /\ Go(p, "saveRow")
       \/ /\ \A entry \in Saved : entry.ref # act[p].new.ref
          /\ Refused(p)
    /\ UNCHANGED <<disk, running, together, copies, faults, acts>>

\* saveServer inserts or replaces the row; sidebar and panes follow.
SaveRow(p) ==
    /\ pc[p] = "saveRow"
    /\ \/ /\ rows' = [rows EXCEPT ![act[p].id] = act[p].new]
          /\ side' = [side EXCEPT ![p][act[p].id] = act[p].new]
          /\ pane' = Repaned(p, act[p].id, act[p].new)
          /\ UNCHANGED faults
       \/ Fault /\ UNCHANGED <<rows, side, pane>>
    /\ Done(p)
    /\ UNCHANGED <<accounts, store, made, managed, running, together, list, login, acts>>

\* The row is deleted, then the secret the sidebar knows of.
DeleteRow(p) ==
    /\ pc[p] = "deleteRow"
    /\ \/ /\ rows[act[p].id] # NoRow
          /\ rows' = [rows EXCEPT ![act[p].id] = NoRow]
          /\ Go(p, "drop")
          /\ UNCHANGED <<act, faults>>
       \/ rows[act[p].id] = NoRow /\ Done(p) /\ UNCHANGED <<rows, faults>>
       \/ Fault /\ Done(p) /\ UNCHANGED rows
    /\ UNCHANGED <<accounts, store, made, managed, running, together, copies, acts>>

\* Faulty: the accounts are changed whatever they are by now.
CommitBlindly(p) ==
    /\ pc[p] = "commit"
    /\ accounts' = [accounts EXCEPT ![act[p].id] = act[p].new]
    /\ Go(p, "drop")
    /\ UNCHANGED <<rows, store, made, managed, running, together, copies, act, faults, acts>>

\* saveSavedCredential: one transaction for the account, if it is what the
\* dialog was opened with, and for every server that uses it.  If it fails the
\* new secret is removed.
Commit(p) ==
    LET a == act[p]
        users == IF a.old = NoRow THEN {} ELSE Using(a.old.ref)
        changed == /\ accounts[a.id] = a.old
                   /\ accounts' = [accounts EXCEPT ![a.id] = a.new]
                   /\ rows' = [s \in Servers |-> IF s \in users THEN a.new ELSE rows[s]]
                   /\ Go(p, "drop")
                   /\ UNCHANGED <<store, faults, act>>
        failed == /\ IF a.old # NoRow /\ a.new.ref = a.old.ref
                     THEN UNCHANGED <<store, act>>
                     ELSE /\ store' \in {store, store \ {a.new.ref}}
                          /\ act' = [act EXCEPT ![p].new.ref = NoRef]
                  /\ Go(p, "open")
                  /\ UNCHANGED <<rows, accounts>>
    IN  /\ pc[p] = "commit"
        /\ \/ changed
           \/ accounts[a.id] # a.old /\ failed /\ UNCHANGED faults
           \/ Fault /\ failed
        /\ UNCHANGED <<made, managed, running, together, copies, acts>>

\* deleteSavedCredential refuses in SQL what a server uses or what has changed.
DeleteAccountRow(p) ==
    LET a == act[p]
        deletable == accounts[a.id] = a.old /\ Using(a.old.ref) = {}
    IN  /\ pc[p] = "deleteAccount"
        /\ \/ /\ deletable
              /\ accounts' = [accounts EXCEPT ![a.id] = NoRow]
              /\ Go(p, "drop")
              /\ UNCHANGED <<act, faults>>
           \/ ~deletable /\ Done(p) /\ UNCHANGED <<accounts, faults>>
           \/ Fault /\ Done(p) /\ UNCHANGED accounts
        /\ UNCHANGED <<rows, store, made, managed, running, together, copies, acts>>

\* savedCredentialsChanged: if the user or the reference of a server that the
\* sidebar shows has changed, the sidebar reads all of them and panes follow.
Refreshed(p) ==
    LET shown == {s \in Servers : rows[s] # NoRow /\ side[p][s] # NoRow}
        stale == {s \in shown : side[p][s] # rows[s]}
    IN  /\ list' = [list EXCEPT ![p] = accounts]
        /\ side' = IF stale = {} THEN side ELSE [side EXCEPT ![p] = rows]
        /\ pane' = IF pane[p] # NoRow /\ pane[p].server \in stale
                   THEN Repaned(p, pane[p].server, rows[pane[p].server]) ELSE pane

\* The last step removes the secret that nothing refers to any more.
Drop(p) ==
    LET a == act[p]
        dropped == CASE a.kind = "deleteServer" -> IF Owned(a.old.ref) THEN a.old.ref ELSE NoRef
                     [] a.kind = "deleteAccount" -> a.old.ref
                     [] OTHER -> IF a.old # NoRow /\ a.old.ref # a.new.ref THEN a.old.ref ELSE NoRef
    IN  /\ pc[p] = "drop"
        /\ Forget(dropped)
        /\ Done(p)
        /\ IF a.kind = "deleteServer"
           THEN side' = [side EXCEPT ![p][a.id] = NoRow] /\ UNCHANGED <<list, pane>>
           ELSE Refreshed(p)
        /\ UNCHANGED <<rows, accounts, made, managed, running, together, login, acts>>

\* ------------------------------------------------------------------------
\* Panes and logins.

\* The window is bound to the session of a pane only once the pane was the
\* monitor source of its tab, which the panes of a split are not.
OpenPane(p) ==
    \E s \in Servers, bound \in BOOLEAN :
        /\ Waits(p, "idle") /\ Act /\ pane[p] = NoRow /\ side[p][s] # NoRow
        /\ pane' = [pane EXCEPT ![p] = [server |-> s, row |-> side[p][s], edited |-> FALSE, bound |-> bound]]
        /\ UNCHANGED <<disk, running, together, side, list, login, control, faults>>

\* The user types a password; the attempt keeps the profile it began with.
TypePassword(p) ==
    /\ Waits(p, "idle") /\ Act /\ pane[p] # NoRow
    /\ login' = [login EXCEPT ![p] = [server |-> pane[p].server, row |-> pane[p].row, ref |-> NoRef]]
    /\ pane' = [pane EXCEPT ![p].edited = FALSE]
    /\ UNCHANGED <<disk, running, together, side, list, control, faults>>

\* The server accepts it, whatever dialog is open by now: if the row is still
\* that of the attempt, the password is stored.
Remember(p) ==
    /\ Waits(p, "idle") \/ Waits(p, "open")
    /\ login[p] # NoRow
    /\ \/ /\ rows[login[p].server] = login[p].row
          /\ NewSecret(FALSE)
          /\ login' = [login EXCEPT ![p].ref = made']
          /\ UNCHANGED faults
       \/ /\ (rows[login[p].server] # login[p].row /\ UNCHANGED faults) \/ Fault
          /\ login' = [login EXCEPT ![p] = NoRow]
          /\ UNCHANGED <<store, made, managed>>
    /\ UNCHANGED <<rows, accounts, running, together, side, list, pane, control, acts>>

\* replaceCredentialReference: the reference is replaced only in the row the
\* attempt knows; otherwise the new secret is removed again.
Swap(p) ==
    LET s == login[p].server
        saved == [login[p].row EXCEPT !.ref = login[p].ref]
    IN  /\ login[p] # NoRow /\ login[p].ref # NoRef
        /\ \/ /\ rows[s] = login[p].row
              /\ rows' = [rows EXCEPT ![s] = saved]
              /\ pane' = [pane EXCEPT ![p].row = IF pane[p].edited THEN @ ELSE saved]
              /\ side' = IF pane[p].bound /\ side[p][s] # NoRow
                         THEN [side EXCEPT ![p][s] = saved] ELSE side
              /\ UNCHANGED <<store, faults>>
           \/ /\ (rows[s] # login[p].row /\ UNCHANGED faults) \/ Fault
              /\ store' \in {store, store \ {login[p].ref}}
              /\ UNCHANGED <<rows, side, pane>>
        /\ login' = [login EXCEPT ![p] = NoRow]
        /\ UNCHANGED <<accounts, made, managed, running, together, list, control, acts>>

Next ==
    \E p \in Procs :
        \/ Launch(p) \/ Kill(p)
        \/ EditServer(p) \/ AddServer(p) \/ DuplicateServer(p) \/ DeleteServer(p) \/ MoveServer(p)
        \/ ChangeGroup(p) \/ EditAccount(p) \/ AddAccount(p) \/ DeleteAccount(p) \/ Answer(p)
        \/ Store(p) \/ Look(p) \/ SaveRow(p) \/ DeleteRow(p) \/ Commit(p) \/ DeleteAccountRow(p) \/ Drop(p)
        \/ OpenPane(p) \/ TypePassword(p) \/ Remember(p) \/ Swap(p)

Spec == Init /\ [][Next]_vars

\* ------------------------------------------------------------------------
\* Properties.

\* Every variable keeps the shape of its declaration and table.
TypeOK ==
    /\ rows \in [Servers -> Rows \cup {NoRow}] /\ accounts \in [Accounts -> Rows \cup {NoRow}]
    /\ made \in 0 .. MaxRefs /\ store \subseteq 1 .. made /\ managed \subseteq 1 .. made
    /\ running \subseteq Procs /\ together \in BOOLEAN
    /\ side \in [Procs -> [Servers -> Rows \cup {NoRow}]]
    /\ list \in [Procs -> [Accounts -> Rows \cup {NoRow}]]
    /\ pane \in [Procs -> Panes \cup {NoRow}]
    /\ login \in [Procs -> Logins \cup {NoRow}]
    /\ pc \in [Procs -> Steps] /\ act \in [Procs -> Acts \cup {NoRow}]
    /\ \A p \in Procs : pc[p] = "idle" <=> act[p] = NoRow
    /\ acts \in 0 .. MaxActs /\ faults \in 0 .. MaxFaults

\* An account never refers to a secret that is not there.
AccountsAreStored == \A a \in Accounts : accounts[a] # NoRow => accounts[a].ref \in store

\* Nor does a server, and it uses an account in the account's own version, as
\* long as the processes run one after the other.
ServersAreStored ==
    ~together => \A s \in Servers : rows[s] # NoRow =>
        /\ rows[s].ref \in store
        /\ rows[s].ref \in managed => \E a \in Accounts : accounts[a] = rows[s]

\* A server that was deleted does not come back (replaceCredentialReference
\* must "never resurrect a deleted host"), and a remembered password is in
\* the row only together with the profile that was accepted.
RememberedFits ==
    [][\A p \in Procs, s \in Servers :
        login[p] # NoRow /\ login[p].ref # NoRef /\ rows'[s] # rows[s]
            /\ rows'[s] # NoRow /\ rows'[s].ref = login[p].ref
          => rows[s] # NoRow /\ rows'[s].user = rows[s].user]_vars

\* However many processes edit and delete accounts and servers from stale
\* copies of sidebars, dialogs, panes and logins, and wherever one of them is
\* killed or a call fails, no account refers to a secret that is gone or that
\* was not meant for it (SavedCredentialManager::save and remove), and a
\* remembered password brings no server back.  Of the servers that is said as
\* long as no two processes run at once: of two, one whose sidebar is old may
\* write back a reference that the other has removed.
ReferencesAreRight == [](TypeOK /\ AccountsAreStored /\ ServersAreStored) /\ RememberedFits
=============================================================================
