------------------------- MODULE SavedCredentials_proofs -------------------------
(* Proofs about SavedCredentials, for any processes, servers, accounts, users   *)
(* and bounds: which references the rows, the copies of them and the steps      *)
(* under way may hold, and from it ReferencesAreRight.                          *)
EXTENDS SavedCredentials, TLAPS

----
(* The inductive invariant. *)

\* A row that is there has this reference.
Has(row, r) == row # NoRow /\ row.ref = r

\* Where a reference may be found: in a table or in a copy that a process made
\* of a row; as the new one of an act; as that of a password being remembered.
Cited(r) ==
    \/ \E s \in Servers : Has(rows[s], r) \/ \E p \in Procs : Has(side[p][s], r)
    \/ \E a \in Accounts : Has(accounts[a], r) \/ \E p \in Procs : Has(list[p][a], r)
    \/ \E p \in Procs : \/ pane[p] # NoRow /\ pane[p].row.ref = r
                        \/ login[p] # NoRow /\ login[p].row.ref = r
                        \/ act[p] # NoRow /\ Has(act[p].old, r)
Planned(p, r) == act[p] # NoRow /\ act[p].new.ref = r
Remembers(p, r) == login[p] # NoRow /\ login[p].ref = r

\* A fresh reference that an account is about to get, and one it has lost.
Commits(p, r) == pc[p] = "commit" /\ act[p].new.ref = r /\ ~Has(act[p].old, r)
Drops(p, r) ==
    /\ pc[p] = "drop" /\ act[p].kind # "deleteServer" /\ Has(act[p].old, r)
    /\ act[p].kind = "account" => act[p].new.ref # r

\* What an act is at each of its steps.
FormedAct(a, step) ==
    /\ a.kind \in {"server", "deleteServer"} => a.id \in Servers
    /\ a.kind \in {"account", "deleteAccount"} => a.id \in Accounts /\ (a.old # NoRow => a.old.ref \in managed)
    /\ a.kind \in {"deleteServer", "deleteAccount"} => a.old # NoRow /\ a.new = a.old
    /\ a.kind = "server" => step \in {"open", "look", "store", "saveRow"}
    /\ a.kind = "deleteServer" => step \in {"open", "deleteRow", "drop"}
    /\ a.kind = "account" => step \in {"open", "store", "commit", "drop"}
    /\ a.kind = "deleteAccount" => step \in {"open", "deleteAccount", "drop"}
    /\ step = "store" => a.new.ref = NoRef
    /\ a.kind = "account" /\ step = "open" /\ a.new.ref # NoRef => Has(a.old, a.new.ref)
    /\ step = "commit" => a.new.ref \in managed
Formed == \A p \in Procs : act[p] # NoRow => FormedAct(act[p], pc[p])

\* A process that does not run has copied nothing; a list has accounts only.
Away ==
    \A p \in Procs :
        /\ p \notin running => /\ pc[p] = "idle" /\ side[p] = NoServers /\ list[p] = NoAccounts
                               /\ pane[p] = NoRow /\ login[p] = NoRow
        /\ \A a \in Accounts : list[p][a] # NoRow => list[p][a].ref \in managed

\* No reference is used before it is made.
Bounded ==
    \A r \in Refs : /\ Cited(r) => r <= made
                    /\ \A p \in Procs : Planned(p, r) => r <= made

\* A fresh reference has a secret, and nothing but its own step knows of it.
Own ==
    \A p \in Procs, r \in Refs :
        Remembers(p, r) \/ Commits(p, r) =>
            /\ r \in store /\ ~Cited(r)
            /\ \A q \in Procs : q # p => ~Planned(q, r) /\ ~Remembers(q, r)
            /\ Remembers(p, r) => ~Planned(p, r) /\ r \notin managed

\* Each account has a secret, which no other account has.
AccountsOwn ==
    /\ \A a \in Accounts : accounts[a] # NoRow => accounts[a].ref \in store \cap managed
    /\ \A a, b \in Accounts :
          accounts[a] # NoRow /\ accounts[b] # NoRow /\ accounts[a].ref = accounts[b].ref => a = b

\* What is about to be dropped is in no account.
Dropped == \A p \in Procs, r \in Refs, a \in Accounts : Drops(p, r) => ~Has(accounts[a], r)

\* This much holds for any number of processes at a time.
Safe == TypeOK /\ Formed /\ Away /\ Bounded /\ Own /\ AccountsOwn /\ Dropped

----
(* The inductive invariant for processes that run one after the other. *)

\* A row has a secret, and if it has that of an account it is like the account.
Backed(row) == row.ref \in store /\ (row.ref \in managed => \E a \in Accounts : accounts[a] = row)

\* p has deleted the row of s, and its sidebar shows it still.
Leaving(p, s) == pc[p] = "drop" /\ act[p].kind = "deleteServer" /\ act[p].id = s

\* A reference that s has, had or will have.
Mentions(s, r) ==
    \/ Has(rows[s], r)
    \/ \E p \in Procs :
        \/ Has(side[p][s], r)
        \/ /\ act[p] # NoRow /\ act[p].id = s /\ act[p].kind \in {"server", "deleteServer"}
           /\ Planned(p, r) \/ Has(act[p].old, r)

Alone == \A p, q \in running : p = q
RowsBacked == \A s \in Servers : rows[s] # NoRow => Backed(rows[s])

\* So are the rows of a sidebar, but for those that the step under way is to
\* change, and there are as many as in the table.
SideBacked ==
    \A p \in Procs, s \in Servers :
        /\ side[p][s] # NoRow /\ (pc[p] = "drop" => act[p].kind = "deleteServer" /\ ~Leaving(p, s))
              => Backed(side[p][s])
        /\ p \in running /\ ~Leaving(p, s) => (side[p][s] = NoRow <=> rows[s] = NoRow)
        /\ Leaving(p, s) => rows[s] = NoRow

\* And the row that is about to be saved.
ActBacked ==
    \A p \in Procs : act[p] # NoRow /\ act[p].kind = "server" =>
        /\ pc[p] = "saveRow" => Backed(act[p].new)
        /\ pc[p] = "open" /\ act[p].new.ref \notin managed \cup {NoRef} => act[p].new.ref \in store

DroppedRows == \A p \in Procs, r \in Refs, s \in Servers : Drops(p, r) => ~Has(rows[s], r)

\* A secret that is not an account's is that of one server.
OneServer == \A s, t \in Servers, r \in Refs : Mentions(s, r) /\ Mentions(t, r) => s = t \/ r \in managed

Orderly == ~together => Alone /\ RowsBacked /\ SideBacked /\ ActBacked /\ DroppedRows /\ OneServer

IInv == Safe /\ Orderly

----
(* Types. *)

Maybe(S) == S \cup {NoRow}

\* The variables, one by one.
LEMMA Typed ==
    ASSUME TypeOK
    PROVE  /\ rows \in [Servers -> Maybe(Rows)] /\ accounts \in [Accounts -> Maybe(Rows)]
           /\ made \in Nat /\ made <= MaxRefs /\ store \subseteq 1 .. made /\ managed \subseteq 1 .. made
           /\ running \subseteq Procs /\ together \in BOOLEAN
           /\ side \in [Procs -> [Servers -> Maybe(Rows)]] /\ list \in [Procs -> [Accounts -> Maybe(Rows)]]
           /\ pane \in [Procs -> Maybe(Panes)] /\ login \in [Procs -> Maybe(Logins)]
           /\ pc \in [Procs -> Steps] /\ act \in [Procs -> Maybe(Acts)]
           /\ \A p \in Procs : pc[p] = "idle" <=> act[p] = NoRow
           /\ acts \in 0 .. MaxActs /\ faults \in 0 .. MaxFaults BY SizeAssumption DEF TypeOK, Maybe

\* And back, after a step.
LEMMA TypedThen ==
    ASSUME rows' \in [Servers -> Maybe(Rows)], accounts' \in [Accounts -> Maybe(Rows)],
           made' \in Nat, made' <= MaxRefs, store' \subseteq 1 .. made', managed' \subseteq 1 .. made',
           running' \subseteq Procs, together' \in BOOLEAN,
           side' \in [Procs -> [Servers -> Maybe(Rows)]], list' \in [Procs -> [Accounts -> Maybe(Rows)]],
           pane' \in [Procs -> Maybe(Panes)], login' \in [Procs -> Maybe(Logins)],
           pc' \in [Procs -> Steps], act' \in [Procs -> Maybe(Acts)],
           \A p \in Procs : pc'[p] = "idle" <=> act'[p] = NoRow,
           acts' \in 0 .. MaxActs, faults' \in 0 .. MaxFaults
    PROVE  TypeOK' BY SizeAssumption DEF TypeOK, Maybe

\* A row, an act, a pane and a login are told from none, and have their parts.
LEMMA Parts ==
    /\ \A row \in Rows : row # NoRow /\ row.user \in Users /\ row.ref \in Refs \cup {NoRef}
    /\ \A a \in Acts : /\ a # NoRow /\ a.kind \in Kinds /\ a.id \in Servers \cup Accounts
                       /\ a.old \in Rows \cup {NoRow} /\ a.new \in Rows
    /\ \A v \in Panes : v # NoRow /\ v.server \in Servers /\ v.row \in Rows /\ v.edited \in BOOLEAN /\ v.bound \in BOOLEAN
    /\ \A l \in Logins : l # NoRow /\ l.server \in Servers /\ l.row \in Rows /\ l.ref \in Refs \cup {NoRef}
  BY RowAssumption DEF Rows, Acts, Panes, Logins

\* A row with another reference.
LEMMA RowWith ==
    ASSUME NEW row \in Rows, NEW r \in Refs \cup {NoRef}
    PROVE  /\ [row EXCEPT !.ref = r] \in Rows /\ [row EXCEPT !.ref = r] # NoRow
           /\ [row EXCEPT !.ref = r].ref = r /\ [row EXCEPT !.ref = r].user = row.user
BY Parts DEF Rows

\* What a process under way has, and one that waits for input has not.
LEMMA Busy ==
    ASSUME TypeOK, NEW p \in Procs
    PROVE  /\ pc[p] # "idle" => act[p] \in Acts /\ act[p] # NoRow
           /\ act[p] # NoRow => act[p] \in Acts /\ pc[p] # "idle"
           /\ pane[p] # NoRow => pane[p] \in Panes
           /\ login[p] # NoRow => login[p] \in Logins
           /\ \A s \in Servers : side[p][s] # NoRow => side[p][s] \in Rows
           /\ \A a \in Accounts : list[p][a] # NoRow => list[p][a] \in Rows BY Typed DEF Maybe

\* Who does what comes next.
LEMMA GoTyped ==
    ASSUME TypeOK, NEW p \in Procs
    PROVE  /\ \A s \in Steps \ {"idle"} : \A a \in Acts :
                 Go(p, s) /\ act' = [act EXCEPT ![p] = a] =>
                    /\ pc' \in [Procs -> Steps] /\ act' \in [Procs -> Maybe(Acts)]
                    /\ \A q \in Procs : pc'[q] = "idle" <=> act'[q] = NoRow
           /\ \A s \in Steps \ {"idle"} :
                 pc[p] # "idle" /\ Go(p, s) /\ UNCHANGED act =>
                    /\ pc' \in [Procs -> Steps] /\ act' \in [Procs -> Maybe(Acts)]
                    /\ \A q \in Procs : pc'[q] = "idle" <=> act'[q] = NoRow
           /\ Done(p) => /\ pc' \in [Procs -> Steps] /\ act' \in [Procs -> Maybe(Acts)]
                         /\ \A q \in Procs : pc'[q] = "idle" <=> act'[q] = NoRow
<1>1. /\ pc \in [Procs -> Steps] /\ act \in [Procs -> Maybe(Acts)]
      /\ \A q \in Procs : pc[q] = "idle" <=> act[q] = NoRow BY Typed
<1>2. \A a \in Acts : a # NoRow BY Parts
<1>3. "idle" \in Steps BY DEF Steps
<1> QED BY <1>1, <1>2, <1>3 DEF Go, Done, Maybe

\* A pane that is told of another row.
LEMMA RepanedTyped ==
    ASSUME TypeOK, NEW p \in Procs, NEW s, NEW row \in Rows
    PROVE  /\ Repaned(p, s, row) \in [Procs -> Maybe(Panes)]
           /\ \A q \in Procs : Repaned(p, s, row)[q] # NoRow =>
                 /\ pane[q] # NoRow /\ Repaned(p, s, row)[q].server = pane[q].server
                 /\ Repaned(p, s, row)[q].row \in {pane[q].row, row}
                 /\ q # p => Repaned(p, s, row)[q] = pane[q]
           /\ \A q \in Procs : pane[q] = NoRow => Repaned(p, s, row)[q] = NoRow
<1>1. pane \in [Procs -> Maybe(Panes)] BY Typed
<1>2. CASE pane[p] # NoRow /\ pane[p].server = s
  <2> DEFINE v == [server |-> pane[p].server, row |-> row, edited |-> TRUE, bound |-> pane[p].bound]
  <2>1. pane[p] \in Panes BY <1>2, Busy
  <2>2. v \in Panes BY <2>1 DEF Panes
  <2>3. Repaned(p, s, row) = [pane EXCEPT ![p] = v] BY <1>2 DEF Repaned
  <2>4. v.server = pane[p].server /\ v.row = row OBVIOUS
  <2> HIDE DEF v
  <2>5. v # NoRow BY <2>2, Parts
  <2> QED BY <1>1, <1>2, <2>2, <2>3, <2>4, <2>5 DEF Maybe
<1>3. CASE ~(pane[p] # NoRow /\ pane[p].server = s) BY <1>1, <1>3 DEF Repaned
<1> QED BY <1>2, <1>3

\* An act with another new row.
LEMMA ActWith ==
    ASSUME TypeOK, NEW p \in Procs, act[p] \in Acts, NEW row \in Rows
    PROVE  \E a \in Acts : /\ [act EXCEPT ![p].new = row] = [act EXCEPT ![p] = a]
                           /\ a.kind = act[p].kind /\ a.id = act[p].id /\ a.old = act[p].old /\ a.new = row
<1> DEFINE a == [kind |-> act[p].kind, id |-> act[p].id, old |-> act[p].old, new |-> row]
<1>1. a \in Acts BY DEF Acts
<1>2. \A x \in Acts : [x EXCEPT !.new = row] = [kind |-> x.kind, id |-> x.id, old |-> x.old, new |-> row] BY DEF Acts
<1>3. [act EXCEPT ![p].new = row] = [act EXCEPT ![p] = [act[p] EXCEPT !.new = row]] OBVIOUS
<1>4. [act EXCEPT ![p].new = row] = [act EXCEPT ![p] = a] BY <1>2, <1>3
<1> QED BY <1>1, <1>4

\* ... or with another reference in it.
LEMMA ActWithRef ==
    ASSUME TypeOK, NEW p \in Procs, act[p] \in Acts, NEW r \in Refs \cup {NoRef}
    PROVE  \E a \in Acts : /\ [act EXCEPT ![p].new.ref = r] = [act EXCEPT ![p] = a]
                           /\ a.kind = act[p].kind /\ a.id = act[p].id /\ a.old = act[p].old /\ a.new.ref = r
<1> DEFINE row == [act[p].new EXCEPT !.ref = r]
<1>1. act[p].new \in Rows BY Parts
<1>2. row \in Rows /\ row.ref = r BY <1>1, RowWith
<1>3. [act EXCEPT ![p].new.ref = r] = [act EXCEPT ![p].new = row] OBVIOUS
<1> HIDE DEF row
<1>4. \E a \in Acts : /\ [act EXCEPT ![p].new = row] = [act EXCEPT ![p] = a]
                      /\ a.kind = act[p].kind /\ a.id = act[p].id /\ a.old = act[p].old /\ a.new = row
  BY <1>2, ActWith
<1> QED BY <1>2, <1>3, <1>4

\* A login with its new reference.
LEMMA LoginWith ==
    ASSUME NEW p \in Procs, login[p] \in Logins, NEW r \in Refs \cup {NoRef},
           login' = [login EXCEPT ![p].ref = r]
    PROVE  \E l \in Logins : /\ login' = [login EXCEPT ![p] = l]
                             /\ l.server = login[p].server /\ l.row = login[p].row /\ l.ref = r
<1> DEFINE l == [server |-> login[p].server, row |-> login[p].row, ref |-> r]
<1>1. l \in Logins BY DEF Logins
<1>2. \A x \in Logins : [x EXCEPT !.ref = r] = [server |-> x.server, row |-> x.row, ref |-> r] BY DEF Logins
<1>3. [login EXCEPT ![p].ref = r] = [login EXCEPT ![p] = [login[p] EXCEPT !.ref = r]] OBVIOUS
<1>4. [login EXCEPT ![p].ref = r] = [login EXCEPT ![p] = l] BY <1>2, <1>3
<1> QED BY <1>1, <1>4

\* A pane with another row, and one that was not edited.
LEMMA PaneWith ==
    ASSUME TypeOK, NEW p \in Procs, pane[p] \in Panes, NEW row \in Rows, NEW b \in BOOLEAN
    PROVE  /\ \E v \in Panes : /\ [pane EXCEPT ![p].row = row] = [pane EXCEPT ![p] = v]
                               /\ v.server = pane[p].server /\ v.row = row
           /\ \E v \in Panes : /\ [pane EXCEPT ![p].edited = b] = [pane EXCEPT ![p] = v]
                               /\ v.server = pane[p].server /\ v.row = pane[p].row
<1> DEFINE v == [server |-> pane[p].server, row |-> row, edited |-> pane[p].edited, bound |-> pane[p].bound]
           w == [server |-> pane[p].server, row |-> pane[p].row, edited |-> b, bound |-> pane[p].bound]
<1>1. v \in Panes /\ w \in Panes BY DEF Panes
<1>2. \A x \in Panes : [x EXCEPT !.row = row] = [server |-> x.server, row |-> row, edited |-> x.edited, bound |-> x.bound]
  BY DEF Panes
<1>3. \A x \in Panes : [x EXCEPT !.edited = b] = [server |-> x.server, row |-> x.row, edited |-> b, bound |-> x.bound]
  BY DEF Panes
<1>4. [pane EXCEPT ![p].row = row] = [pane EXCEPT ![p] = [pane[p] EXCEPT !.row = row]] OBVIOUS
<1>5. [pane EXCEPT ![p].edited = b] = [pane EXCEPT ![p] = [pane[p] EXCEPT !.edited = b]] OBVIOUS
<1>6. [pane EXCEPT ![p].row = row] = [pane EXCEPT ![p] = v] BY <1>2, <1>4
<1>7. [pane EXCEPT ![p].edited = b] = [pane EXCEPT ![p] = w] BY <1>3, <1>5
<1> QED BY <1>1, <1>6, <1>7

----
(* What a step leaves of the parts of the invariant. *)

\* The invariant at the start.
LEMMA InvInit == Init => IInv
<1> SUFFICES ASSUME Init PROVE IInv OBVIOUS
<1>1. 1 \in Refs /\ 1 \in Nat /\ 1 <= MaxRefs BY SizeAssumption DEF Refs
<1>2. PICK s0 \in Servers, a0 \in Accounts, u \in Users :
        /\ rows = [NoServers EXCEPT ![s0] = [user |-> u, ref |-> 1]]
        /\ accounts = [NoAccounts EXCEPT ![a0] = [user |-> u, ref |-> 1]] BY DEF Init
<1> DEFINE row == [user |-> u, ref |-> 1]
<1>3. row \in Rows /\ row.ref = 1 BY <1>1 DEF Rows
<1> HIDE DEF row
<1>4. row # NoRow BY <1>3, Parts
<1>5. /\ rows \in [Servers -> Rows \cup {NoRow}] /\ accounts \in [Accounts -> Rows \cup {NoRow}]
      /\ \A s \in Servers : rows[s] = IF s = s0 THEN row ELSE NoRow
      /\ \A a \in Accounts : accounts[a] = IF a = a0 THEN row ELSE NoRow
  BY <1>2, <1>3 DEF NoServers, NoAccounts, row
<1>6. TypeOK
  <2>1. made = 1 /\ store = {1} /\ managed = {1} /\ made \in 0 .. MaxRefs /\ store \subseteq 1 .. made
        /\ managed \subseteq 1 .. made BY <1>1, SizeAssumption DEF Init
  <2>2. acts \in 0 .. MaxActs /\ faults \in 0 .. MaxFaults BY SizeAssumption DEF Init
  <2> QED BY <1>5, <2>1, <2>2 DEF Init, TypeOK, Steps, NoServers, NoAccounts
<1>7. Formed /\ Away /\ Dropped BY DEF Init, Formed, Away, Dropped, Drops, NoAccounts
<1>8. Bounded
  <2>1. \A r \in Refs : Cited(r) => r = 1 BY <1>3, <1>5 DEF Init, Cited, Has, NoServers, NoAccounts
  <2> QED BY <2>1, <1>1 DEF Init, Bounded, Planned
<1>9. Own BY DEF Init, Own, Remembers, Commits
<1>10. AccountsOwn BY <1>3, <1>5 DEF AccountsOwn, Init
<1>11. Orderly
  <2>1. Alone BY DEF Alone, Init
  <2>2. RowsBacked BY <1>3, <1>5 DEF RowsBacked, Backed, Init
  <2>3. SideBacked BY DEF SideBacked, Init, NoServers, Leaving
  <2>4. ActBacked BY DEF ActBacked, Init
  <2>5. DroppedRows BY DEF DroppedRows, Drops, Init
  <2>6. OneServer BY <1>5 DEF Init, Mentions, Has, NoServers, NoAccounts, OneServer
  <2> QED BY <2>1, <2>2, <2>3, <2>4, <2>5, <2>6 DEF Orderly
<1> QED BY <1>6, <1>7, <1>8, <1>9, <1>10, <1>11 DEF IInv, Safe

\* Fresh references stay known to their own step alone, where others are cited
\* that were cited, or that were the new one of a step that ends.
LEMMA OwnKept ==
    ASSUME Safe, managed' = managed, made' = made,
           \A r \in Refs : Cited(r)' =>
               \/ Cited(r)
               \/ \E p \in Procs : \/ Planned(p, r) /\ ~Commits(p, r)'
                                   \/ Remembers(p, r) /\ ~Remembers(p, r)',
           \A p \in Procs, r \in Refs : Planned(p, r)' => Planned(p, r) \/ Cited(r),
           \A p \in Procs, r \in Refs : Remembers(p, r)' => Remembers(p, r) /\ r \in store',
           \A p \in Procs, r \in Refs : Commits(p, r)' => Commits(p, r) /\ r \in store'
    PROVE  Own' /\ Bounded'
<1>1. Own /\ Bounded BY DEF Safe
<1>2. \A p \in Procs, r \in Refs : Remembers(p, r) \/ Commits(p, r) => r <= made BY <1>1, Typed DEF Own, Safe
<1>3. Own'
  <2> SUFFICES ASSUME NEW p \in Procs, NEW r \in Refs, Remembers(p, r)' \/ Commits(p, r)'
               PROVE  /\ r \in store' /\ ~Cited(r)'
                      /\ \A q \in Procs : q # p => ~Planned(q, r)' /\ ~Remembers(q, r)'
                      /\ Remembers(p, r)' => ~Planned(p, r)' /\ r \notin managed' BY DEF Own
  <2>1. /\ r \in store' /\ (Remembers(p, r) \/ Commits(p, r)) /\ ~Cited(r)
        /\ \A q \in Procs : q # p => ~Planned(q, r) /\ ~Remembers(q, r)
        /\ Remembers(p, r) => ~Planned(p, r) /\ r \notin managed BY <1>1 DEF Own
  <2>2. ~Cited(r)' BY <2>1 DEF Commits, Planned, Safe, TypeOK
  <2>3. \A q \in Procs : q # p => ~Planned(q, r)' /\ ~Remembers(q, r)' BY <2>1
  <2>4. Remembers(p, r)' => ~Planned(p, r)' /\ r \notin managed' BY <2>1
  <2> QED BY <2>1, <2>2, <2>3, <2>4
<1>4. Bounded'
  <2> SUFFICES ASSUME NEW r \in Refs PROVE (Cited(r)' => r <= made) /\ \A p \in Procs : Planned(p, r)' => r <= made
    BY DEF Bounded
  <2>1. /\ Cited(r) => r <= made
        /\ \A p \in Procs : (Planned(p, r) => r <= made) /\ (Remembers(p, r) => r <= made)
    BY <1>1, <1>2 DEF Bounded
  <2> QED BY <2>1
<1> QED BY <1>3, <1>4

\* A fresh reference that is made in this step.
LEMMA Made ==
    ASSUME Safe, made' = made + 1, made < MaxRefs
    PROVE  /\ made' \in Refs /\ made' \in Nat /\ made' <= MaxRefs /\ made' \notin store /\ made' \notin managed /\ ~Cited(made')
           /\ \A p \in Procs : ~Planned(p, made') /\ ~Remembers(p, made') /\ ~Commits(p, made')
BY Typed, SizeAssumption DEF Safe, Refs, Bounded, Own

----
(* What users begin. *)

\* What an act is when it begins: it knows what its process shows.
Fitting(p, step, a) ==
    /\ a \in Acts /\ step \in Steps \ {"idle", "commit", "drop"}
    /\ FormedAct(a, step)
    /\ a.kind \in {"server", "deleteServer"} /\ a.old # NoRow => a.old = side[p][a.id]
    /\ a.kind \in {"account", "deleteAccount"} /\ a.old # NoRow => a.old = list[p][a.id]
    /\ a.new.ref # NoRef => Cited(a.new.ref)
    /\ a.new.ref \in managed \cup {NoRef} \/ Has(a.old, a.new.ref)
    /\ step = "saveRow" => a.new = a.old

\* Types of what begins.
LEMMA BeginTyped ==
    ASSUME TypeOK, NEW p \in Procs, NEW step, NEW a, Begin(p, step, a), Fitting(p, step, a)
    PROVE  TypeOK'
<1>1. /\ p \in running /\ Go(p, step) /\ act' = [act EXCEPT ![p] = a] /\ acts < MaxActs /\ acts' = acts + 1
      /\ UNCHANGED <<rows, accounts, store, made, managed, running, together, side, list, pane, login, faults>>
  BY DEF Begin, Waits, Act, disk, copies
<1>2. pc' \in [Procs -> Steps] /\ act' \in [Procs -> Maybe(Acts)] /\ \A q \in Procs : pc'[q] = "idle" <=> act'[q] = NoRow
  BY <1>1, GoTyped DEF Fitting
<1>3. acts' \in 0 .. MaxActs BY <1>1, Typed, SizeAssumption
<1> QED BY <1>1, <1>2, <1>3, Typed, TypedThen

\* What begins keeps the invariant.
LEMMA BeginKeeps ==
    ASSUME IInv, NEW p \in Procs, NEW step, NEW a, Begin(p, step, a), Fitting(p, step, a)
    PROVE  IInv'
<1>0. Safe /\ TypeOK BY DEF IInv, Safe
<1>1. /\ p \in running /\ pc[p] = "idle" /\ Go(p, step) /\ act' = [act EXCEPT ![p] = a]
      /\ UNCHANGED <<rows, accounts, store, made, managed, running, together, side, list, pane, login>>
  BY DEF Begin, Waits, disk, copies
<1>2. TypeOK' BY <1>0, BeginTyped
<1>3. /\ pc'[p] = step /\ act'[p] = a /\ a # NoRow /\ act[p] = NoRow
      /\ \A q \in Procs : q # p => pc'[q] = pc[q] /\ act'[q] = act[q]
  BY <1>0, <1>1, Typed, Parts DEF Go, Fitting
<1>4. Formed' BY <1>1, <1>0, <1>3 DEF Fitting, FormedAct, Has, Safe, Formed
<1>5. Away' BY <1>0, <1>1, <1>3 DEF Safe, Away
<1>6. \A r \in Refs : Has(a.old, r) => Cited(r)
  <2> SUFFICES ASSUME NEW r \in Refs, Has(a.old, r) PROVE Cited(r) OBVIOUS
  <2>1. CASE a.kind \in {"server", "deleteServer"} BY <2>1 DEF Has, Fitting, FormedAct, Cited
  <2>2. CASE a.kind \in {"account", "deleteAccount"} BY <2>2 DEF Has, Fitting, FormedAct, Cited
  <2> QED BY <2>1, <2>2, Parts DEF Fitting, Kinds
<1>7. \A r \in Refs : Cited(r)' => Cited(r) BY <1>1, <1>3, <1>6 DEF Cited, Has
<1>8. Own' /\ Bounded'
  <2>1. \A q \in Procs, r \in Refs : Planned(q, r)' => Planned(q, r) \/ Cited(r)
    BY <1>3 DEF Fitting, Refs, NoRef, Planned
  <2>2. \A q \in Procs, r \in Refs : Remembers(q, r)' => Remembers(q, r) /\ r \in store'
    BY <1>0, <1>1 DEF Remembers, Safe, Own
  <2>3. \A q \in Procs, r \in Refs : Commits(q, r)' => Commits(q, r) /\ r \in store'
    BY <1>3, <1>0, <1>1 DEF Commits, Has, Fitting, Safe, Own
  <2> QED BY <1>0, <1>1, <1>7, <2>1, <2>2, <2>3, OwnKept
<1>9. AccountsOwn' BY <1>0, <1>1 DEF Safe, AccountsOwn
<1>10. \A q \in Procs, r \in Refs : Drops(q, r)' => Drops(q, r) BY <1>3 DEF Drops, Fitting
<1>11. Dropped' BY <1>0, <1>1, <1>10 DEF Safe, Dropped, Has
<1>12. ASSUME ~together
       PROVE  Alone' /\ RowsBacked' /\ SideBacked' /\ ActBacked' /\ DroppedRows' /\ OneServer'
  <2>1. Alone /\ RowsBacked /\ SideBacked /\ ActBacked /\ DroppedRows /\ OneServer BY <1>12 DEF IInv, Orderly
  <2>2. Alone' BY <1>1, <2>1 DEF Alone
  <2>3. \A row : Backed(row)' = Backed(row) BY <1>1 DEF Backed
  <2>4. RowsBacked' BY <1>1, <2>1, <2>3 DEF RowsBacked
  <2>5. \A q \in Procs, s \in Servers : Leaving(q, s)' = Leaving(q, s) BY <1>1, <1>3 DEF Leaving, Fitting
  <2>6. \A q \in Procs, s \in Servers : side[q][s] # NoRow /\ (q = p \/ pc[q] = "idle") => Backed(side[q][s])
    BY <1>1, <2>1 DEF SideBacked
  <2>7. SideBacked' BY <1>1, <1>3, <2>1, <2>5, <2>6 DEF SideBacked, Backed
  <2>8. ActBacked'
    <3>1. ASSUME a.kind = "server", step = "saveRow" PROVE Backed(a.new)
      BY <3>1, <2>6, <1>3, Parts DEF Fitting, FormedAct
    <3>2. ASSUME a.kind = "server", a.new.ref \notin managed \cup {NoRef} PROVE a.new.ref \in store
      BY <3>2, <2>6 DEF Fitting, FormedAct, Has, Backed
    <3>3. \A q \in Procs : q # p /\ act'[q] # NoRow /\ act'[q].kind = "server" =>
            /\ pc'[q] = "saveRow" => Backed(act[q].new)'
            /\ pc'[q] = "open" /\ act'[q].new.ref \notin managed' \cup {NoRef} => act'[q].new.ref \in store'
      BY <1>1, <1>3, <2>1 DEF ActBacked, Backed
    <3> QED BY <1>1, <1>3, <3>1, <3>2, <3>3 DEF ActBacked, Backed
  <2>9. DroppedRows' BY <1>1, <1>10, <2>1 DEF DroppedRows, Has
  <2>10. OneServer'
    <3>1. \A s \in Servers, r \in Refs : Mentions(s, r)' => Mentions(s, r) \/ r \in managed
      BY <1>1, <1>3 DEF Fitting, Has, Refs, NoRef, Mentions, Planned
    <3> QED BY <1>1, <2>1, <3>1 DEF OneServer
  <2> QED BY <2>2, <2>4, <2>7, <2>8, <2>9, <2>10
<1>13. Orderly' BY <1>1, <1>12 DEF Orderly
<1> QED BY <1>2, <1>4, <1>5, <1>8, <1>9, <1>11, <1>13 DEF IInv, Safe

\* The accounts there are.
LEMMA SavedKnown ==
    ASSUME Safe, NEW entry \in Saved
    PROVE  /\ entry \in Rows /\ entry # NoRow /\ entry.ref \in managed /\ entry.ref \in store /\ entry.ref \in Refs
           /\ Cited(entry.ref) /\ \E a \in Accounts : accounts[a] = entry
<1>1. PICK a \in Accounts : accounts[a] = entry /\ entry # NoRow BY DEF Saved
<1>2. entry \in Rows BY <1>1, Typed DEF Safe, Maybe
<1>3. entry.ref \in managed /\ entry.ref \in store BY <1>1 DEF Safe, AccountsOwn
<1>4. store \subseteq 1 .. made /\ made \in Nat /\ made <= MaxRefs BY Typed DEF Safe
<1>5. entry.ref \in 1 .. made BY <1>3, <1>4
<1>6. entry.ref \in Refs BY <1>4, <1>5, SizeAssumption DEF Refs
<1>7. Cited(entry.ref) BY <1>1 DEF Cited, Has
<1> QED BY <1>1, <1>2, <1>3, <1>6, <1>7

\* What a server dialog may return.
LEMMA InputKnown ==
    ASSUME Safe, NEW old \in Maybe(Rows), NEW row \in Input(old),
           old # NoRow => Cited(old.ref)
    PROVE  /\ row \in Rows /\ (row.ref # NoRef => Cited(row.ref))
           /\ row.ref \in managed \cup {NoRef} \/ Has(old, row.ref)
<1>1. row = [user |-> row.user, ref |-> row.ref] /\ row.user \in Users BY DEF Input
<1>2. \/ row.ref = NoRef
      \/ \E entry \in Saved : row.ref = entry.ref
      \/ old # NoRow /\ row.ref = old.ref BY DEF Input
<1>3. CASE row.ref = NoRef BY <1>1, <1>3 DEF Rows
<1>4. CASE \E entry \in Saved : row.ref = entry.ref
  <2>1. PICK entry \in Saved : row.ref = entry.ref BY <1>4
  <2>2. entry.ref \in Refs /\ entry.ref \in managed /\ Cited(entry.ref) BY SavedKnown
  <2> QED BY <1>1, <2>1, <2>2 DEF Rows
<1>5. CASE old # NoRow /\ row.ref = old.ref BY <1>5, <1>1, Parts DEF Maybe, Rows, Has
<1> QED BY <1>2, <1>3, <1>4, <1>5

\* An act that begins, put together.
LEMMA FittingAct ==
    ASSUME NEW p \in Procs, NEW step \in {"open", "look", "store", "saveRow"}, NEW a,
           NEW kind \in Kinds, NEW id \in Servers \cup Accounts, NEW old \in Maybe(Rows), NEW new \in Rows,
           a = [kind |-> kind, id |-> id, old |-> old, new |-> new],
           kind \in {"server", "deleteServer"} => id \in Servers /\ (old # NoRow => old = side[p][id]),
           kind \in {"account", "deleteAccount"} =>
              id \in Accounts /\ (old # NoRow => old = list[p][id] /\ old.ref \in managed),
           kind \in {"deleteServer", "deleteAccount"} => old # NoRow /\ new = old,
           kind # "server" => step = "open",
           step = "store" => new.ref = NoRef,
           kind = "account" /\ new.ref # NoRef => Has(old, new.ref),
           new.ref # NoRef => Cited(new.ref),
           new.ref \in managed \cup {NoRef} \/ Has(old, new.ref),
           step = "saveRow" => new = old
    PROVE  Fitting(p, step, a)
BY DEF Acts, Maybe, FormedAct, Fitting, Steps

\* All that users begin with a dialog, or without, fits.
LEMMA Beginnings ==
    ASSUME IInv, NEW p \in Procs,
           \/ EditServer(p) \/ AddServer(p) \/ DuplicateServer(p) \/ DeleteServer(p) \/ MoveServer(p)
           \/ EditAccount(p) \/ AddAccount(p) \/ DeleteAccount(p)
    PROVE  \E step, a : Begin(p, step, a) /\ Fitting(p, step, a)
<1>0. Safe /\ TypeOK BY DEF IInv, Safe
<1>1. \A s \in Servers : side[p][s] \in Maybe(Rows) /\ (side[p][s] # NoRow => side[p][s] \in Rows /\ Cited(side[p][s].ref))
  BY <1>0, Typed DEF Cited, Has, Maybe
<1>2. \A a \in Accounts : /\ list[p][a] \in Maybe(Rows)
                          /\ list[p][a] # NoRow => /\ list[p][a] \in Rows /\ Cited(list[p][a].ref)
                                                   /\ list[p][a].ref \in managed
  BY <1>0, Typed DEF Cited, Has, Maybe, Safe, Away
<1>3. NoRow \in Maybe(Rows) /\ {"server", "deleteServer", "account", "deleteAccount"} \subseteq Kinds BY DEF Maybe, Kinds
<1>4. CASE EditServer(p)
  <2>1. PICK s \in Servers : \E row \in Input(side[p][s]) :
           /\ side[p][s] # NoRow
           /\ Begin(p, "open", [kind |-> "server", id |-> s, old |-> side[p][s], new |-> row])
    BY <1>4 DEF EditServer
  <2>2. PICK row \in Input(side[p][s]) :
           /\ side[p][s] # NoRow
           /\ Begin(p, "open", [kind |-> "server", id |-> s, old |-> side[p][s], new |-> row]) BY <2>1
  <2>3. /\ row \in Rows /\ (row.ref # NoRef => Cited(row.ref))
        /\ row.ref \in managed \cup {NoRef} \/ Has(side[p][s], row.ref) BY <1>0, <1>1, InputKnown
  <2>4. Fitting(p, "open", [kind |-> "server", id |-> s, old |-> side[p][s], new |-> row])
    BY <1>1, <1>3, <2>2, <2>3, FittingAct
  <2> QED BY <2>2, <2>4
<1>5. CASE AddServer(p)
  <2>1. PICK s \in Servers, row \in Input(NoRow) :
           Begin(p, "open", [kind |-> "server", id |-> s, old |-> NoRow, new |-> row]) BY <1>5 DEF AddServer
  <2>2. row \in Rows /\ (row.ref # NoRef => Cited(row.ref)) /\ (row.ref \in managed \cup {NoRef} \/ Has(NoRow, row.ref))
    BY <1>0, <1>3, InputKnown
  <2>3. Fitting(p, "open", [kind |-> "server", id |-> s, old |-> NoRow, new |-> row]) BY <1>3, <2>2, FittingAct
  <2> QED BY <2>1, <2>3
<1>6. CASE DuplicateServer(p)
  <2>1. PICK s \in Servers, t \in Servers :
           /\ side[p][s] # NoRow
           /\ LET shared == side[p][s].ref \in managed
                  row == [side[p][s] EXCEPT !.ref = IF shared THEN @ ELSE NoRef]
              IN  Begin(p, IF shared THEN "look" ELSE "store",
                        [kind |-> "server", id |-> t, old |-> NoRow, new |-> row]) BY <1>6 DEF DuplicateServer
  <2> DEFINE ref == IF side[p][s].ref \in managed THEN side[p][s].ref ELSE NoRef
             row == [side[p][s] EXCEPT !.ref = ref]
             step == IF side[p][s].ref \in managed THEN "look" ELSE "store"
             a == [kind |-> "server", id |-> t, old |-> NoRow, new |-> row]
  <2>2. Begin(p, step, a) BY <2>1
  <2>3. side[p][s] \in Rows /\ Cited(side[p][s].ref) BY <1>1, <2>1
  <2>4. row \in Rows /\ row.ref = ref BY <2>3, RowWith, Parts
  <2>5. (row.ref # NoRef => Cited(row.ref)) /\ row.ref \in managed \cup {NoRef} BY <2>3, <2>4
  <2>6. step = "store" => row.ref = NoRef BY <2>4
  <2>7. step \in {"look", "store"} OBVIOUS
  <2> HIDE DEF row, ref, step
  <2>8. Fitting(p, step, a) BY <1>3, <2>4, <2>5, <2>6, <2>7, FittingAct
  <2> QED BY <2>2, <2>8
<1>7. CASE DeleteServer(p)
  <2>1. PICK s \in Servers :
           /\ side[p][s] # NoRow
           /\ Begin(p, "open", [kind |-> "deleteServer", id |-> s, old |-> side[p][s], new |-> side[p][s]])
    BY <1>7 DEF DeleteServer
  <2>2. Fitting(p, "open", [kind |-> "deleteServer", id |-> s, old |-> side[p][s], new |-> side[p][s]])
    BY <1>1, <1>3, <2>1, FittingAct DEF Has
  <2> QED BY <2>1, <2>2
<1>8. CASE MoveServer(p)
  <2>1. PICK s \in Servers :
           /\ side[p][s] # NoRow
           /\ Begin(p, "saveRow", [kind |-> "server", id |-> s, old |-> side[p][s], new |-> side[p][s]])
    BY <1>8 DEF MoveServer
  <2>2. Fitting(p, "saveRow", [kind |-> "server", id |-> s, old |-> side[p][s], new |-> side[p][s]])
    BY <1>1, <1>3, <2>1, FittingAct DEF Has
  <2> QED BY <2>1, <2>2
<1>9. CASE EditAccount(p)
  <2>1. PICK a \in Accounts, u \in Users, keep \in BOOLEAN :
           /\ list[p][a] # NoRow
           /\ Begin(p, "open", [kind |-> "account", id |-> a, old |-> list[p][a],
                                new |-> [user |-> u, ref |-> IF keep THEN list[p][a].ref ELSE NoRef]])
    BY <1>9 DEF EditAccount
  <2> DEFINE new == [user |-> u, ref |-> IF keep THEN list[p][a].ref ELSE NoRef]
  <2>2. list[p][a].ref \in Refs \cup {NoRef} BY <1>2, <2>1, Parts
  <2>3. new \in Rows /\ (new.ref # NoRef => Has(list[p][a], new.ref) /\ Cited(new.ref))
        /\ new.ref \in managed \cup {NoRef} BY <1>2, <2>1, <2>2 DEF Rows, Has
  <2> HIDE DEF new
  <2>4. Fitting(p, "open", [kind |-> "account", id |-> a, old |-> list[p][a], new |-> new])
    BY <1>2, <1>3, <2>1, <2>3, FittingAct
  <2> QED BY <2>1, <2>4 DEF new
<1>10. CASE AddAccount(p)
  <2>1. PICK a \in Accounts, u \in Users :
           Begin(p, "open", [kind |-> "account", id |-> a, old |-> NoRow, new |-> [user |-> u, ref |-> NoRef]])
    BY <1>10 DEF AddAccount
  <2> DEFINE new == [user |-> u, ref |-> NoRef]
  <2>2. new \in Rows /\ new.ref = NoRef BY DEF Rows
  <2> HIDE DEF new
  <2>3. Fitting(p, "open", [kind |-> "account", id |-> a, old |-> NoRow, new |-> new]) BY <1>3, <2>2, FittingAct
  <2> QED BY <2>1, <2>3 DEF new
<1>11. CASE DeleteAccount(p)
  <2>1. PICK a \in Accounts :
           /\ list[p][a] # NoRow
           /\ Begin(p, "open", [kind |-> "deleteAccount", id |-> a, old |-> list[p][a], new |-> list[p][a]])
    BY <1>11 DEF DeleteAccount
  <2>2. Fitting(p, "open", [kind |-> "deleteAccount", id |-> a, old |-> list[p][a], new |-> list[p][a]])
    BY <1>2, <1>3, <2>1, FittingAct DEF Has
  <2> QED BY <2>1, <2>2
<1> QED BY <1>4, <1>5, <1>6, <1>7, <1>8, <1>9, <1>10, <1>11

----
(* Panes, logins and what was begun. *)

\* Tables, sidebars and acts are what they were: so are the rules for them.
LEMMA SameOrder ==
    ASSUME Orderly, UNCHANGED <<rows, accounts, store, managed, running, together, side, pc, act>>
    PROVE  Orderly'
<1> SUFFICES ASSUME ~together
             PROVE  Alone' /\ RowsBacked' /\ SideBacked' /\ ActBacked' /\ DroppedRows' /\ OneServer'
  BY DEF Orderly
<1>1. Alone /\ RowsBacked /\ SideBacked /\ ActBacked /\ DroppedRows /\ OneServer BY DEF Orderly
<1>2. Alone' /\ RowsBacked' BY <1>1 DEF Alone, RowsBacked, Backed
<1>3. SideBacked' BY <1>1 DEF SideBacked, Backed, Leaving
<1>4. ActBacked' BY <1>1 DEF ActBacked, Backed
<1>5. DroppedRows' BY <1>1 DEF DroppedRows, Drops, Has
<1>6. OneServer' BY <1>1 DEF OneServer, Mentions, Planned, Has
<1> QED BY <1>2, <1>3, <1>4, <1>5, <1>6

\* A process copies rows it knows to its pane and its login.
LEMMA PaneKeeps ==
    ASSUME IInv, TypeOK', NEW p \in running,
           UNCHANGED <<rows, accounts, store, made, managed, running, together, side, list, pc, act>>,
           \A q \in Procs : q # p => pane'[q] = pane[q] /\ login'[q] = login[q],
           \A r \in Refs : pane'[p] # NoRow /\ pane'[p].row.ref = r => Cited(r),
           \A r \in Refs : login'[p] # NoRow /\ login'[p].row.ref = r => Cited(r),
           \A r \in Refs : Remembers(p, r)' => Remembers(p, r)
    PROVE  IInv'
<1>0. Safe /\ TypeOK BY DEF IInv, Safe
<1>1. Formed' BY <1>0 DEF Safe, Formed, FormedAct
<1>2. Away' BY <1>0 DEF Safe, Away
<1>3. \A r \in Refs : Cited(r)' => Cited(r) BY DEF Cited, Has
<1>4. \A q \in Procs, r \in Refs : Planned(q, r)' => Planned(q, r) BY DEF Planned
<1>5. \A q \in Procs, r \in Refs : Remembers(q, r)' => Remembers(q, r) /\ r \in store' BY <1>0 DEF Remembers, Safe, Own
<1>6. \A q \in Procs, r \in Refs : Commits(q, r)' => Commits(q, r) /\ r \in store'
  BY <1>0 DEF Safe, Own, Commits
<1>7. Own' /\ Bounded' BY <1>0, <1>3, <1>4, <1>5, <1>6, OwnKept
<1>8. AccountsOwn' BY <1>0 DEF Safe, AccountsOwn
<1>9. Dropped' BY <1>0 DEF Safe, Dropped, Drops, Has
<1>10. Orderly' BY SameOrder DEF IInv
<1> QED BY <1>1, <1>2, <1>7, <1>8, <1>9, <1>10 DEF IInv, Safe

\* A change of a group hands rows to the pane.
LEMMA ChangeGroupKeeps ==
    ASSUME IInv, NEW p \in Procs, ChangeGroup(p)
    PROVE  IInv'
<1>0. Safe /\ TypeOK BY DEF IInv, Safe
<1>1. /\ p \in running /\ pane[p] # NoRow /\ side[p][pane[p].server] # NoRow
      /\ pane' = Repaned(p, pane[p].server, side[p][pane[p].server])
      /\ acts < MaxActs /\ acts' = acts + 1
      /\ UNCHANGED <<rows, accounts, store, made, managed, running, together, side, list, login, pc, act, faults>>
  BY DEF ChangeGroup, Waits, Act, disk, control
<1>2. pane[p] \in Panes /\ pane[p].server \in Servers BY <1>0, <1>1, Busy, Parts
<1>3. side[p][pane[p].server] \in Rows BY <1>0, <1>1, <1>2, Busy
<1>4. /\ pane' \in [Procs -> Maybe(Panes)] /\ \A q \in Procs : q # p => pane'[q] = pane[q]
      /\ pane'[p] # NoRow => pane'[p].row \in {pane[p].row, side[p][pane[p].server]}
  BY <1>0, <1>1, <1>3, RepanedTyped, Typed DEF Repaned
<1>5. acts' \in 0 .. MaxActs BY <1>0, <1>1, Typed, SizeAssumption
<1>6. TypeOK' BY <1>0, <1>1, <1>4, <1>5, Typed, TypedThen
<1>7. \A r \in Refs : pane'[p] # NoRow /\ pane'[p].row.ref = r => Cited(r) BY <1>1, <1>2, <1>4 DEF Cited, Has
<1>8. \A r \in Refs : login'[p] # NoRow /\ login'[p].row.ref = r => Cited(r) BY <1>1 DEF Cited
<1>9. \A r \in Refs : Remembers(p, r)' => Remembers(p, r) BY <1>1 DEF Remembers
<1> QED BY <1>1, <1>4, <1>6, <1>7, <1>8, <1>9, PaneKeeps

\* A pane opens.
LEMMA OpenPaneKeeps ==
    ASSUME IInv, NEW p \in Procs, OpenPane(p)
    PROVE  IInv'
<1>0. Safe /\ TypeOK BY DEF IInv, Safe
<1>1. PICK s \in Servers, bound \in BOOLEAN :
      /\ p \in running /\ side[p][s] # NoRow
      /\ pane' = [pane EXCEPT ![p] = [server |-> s, row |-> side[p][s], edited |-> FALSE, bound |-> bound]]
      /\ acts < MaxActs /\ acts' = acts + 1
      /\ UNCHANGED <<rows, accounts, store, made, managed, running, together, side, list, login, pc, act, faults>>
  BY DEF OpenPane, Waits, Act, disk, control
<1> DEFINE v == [server |-> s, row |-> side[p][s], edited |-> FALSE, bound |-> bound]
<1>2. side[p][s] \in Rows BY <1>0, <1>1, Busy
<1>3. v \in Panes /\ v.row = side[p][s] BY <1>2 DEF Panes
<1> HIDE DEF v
<1>4. pane' = [pane EXCEPT ![p] = v] BY <1>1 DEF v
<1>5. pane \in [Procs -> Maybe(Panes)] BY <1>0, Typed
<1>6. pane' \in [Procs -> Maybe(Panes)] /\ pane'[p] = v /\ \A q \in Procs : q # p => pane'[q] = pane[q]
  BY <1>3, <1>4, <1>5 DEF Maybe
<1>7. acts' \in 0 .. MaxActs BY <1>0, <1>1, Typed, SizeAssumption
<1>8. TypeOK' BY <1>0, <1>1, <1>6, <1>7, Typed, TypedThen
<1>9. \A r \in Refs : pane'[p] # NoRow /\ pane'[p].row.ref = r => Cited(r) BY <1>1, <1>3, <1>6 DEF Cited, Has
<1>10. \A r \in Refs : login'[p] # NoRow /\ login'[p].row.ref = r => Cited(r) BY <1>1 DEF Cited
<1>11. \A r \in Refs : Remembers(p, r)' => Remembers(p, r) BY <1>1 DEF Remembers
<1> QED BY <1>1, <1>6, <1>8, <1>9, <1>10, <1>11, PaneKeeps

\* A password is typed.
LEMMA TypePasswordKeeps ==
    ASSUME IInv, NEW p \in Procs, TypePassword(p)
    PROVE  IInv'
<1>0. Safe /\ TypeOK BY DEF IInv, Safe
<1>1. /\ p \in running /\ pane[p] # NoRow
      /\ login' = [login EXCEPT ![p] = [server |-> pane[p].server, row |-> pane[p].row, ref |-> NoRef]]
      /\ pane' = [pane EXCEPT ![p].edited = FALSE]
      /\ acts < MaxActs /\ acts' = acts + 1
      /\ UNCHANGED <<rows, accounts, store, made, managed, running, together, side, list, pc, act, faults>>
  BY DEF TypePassword, Waits, Act, disk, control
<1>2. pane[p] \in Panes BY <1>0, <1>1, Busy
<1> DEFINE l == [server |-> pane[p].server, row |-> pane[p].row, ref |-> NoRef]
<1>3. l \in Logins /\ l.row = pane[p].row /\ l.ref = NoRef BY <1>2, Parts DEF Logins
<1> HIDE DEF l
<1>4. login' = [login EXCEPT ![p] = l] BY <1>1 DEF l
<1>5. pane \in [Procs -> Maybe(Panes)] /\ login \in [Procs -> Maybe(Logins)] BY <1>0, Typed
<1>6. login' \in [Procs -> Maybe(Logins)] /\ login'[p] = l /\ \A q \in Procs : q # p => login'[q] = login[q]
  BY <1>3, <1>4, <1>5 DEF Maybe
<1>7. PICK v \in Panes : pane' = [pane EXCEPT ![p] = v] /\ v.row = pane[p].row BY <1>2, <1>0, <1>1, Parts, PaneWith
<1>8. pane' \in [Procs -> Maybe(Panes)] /\ pane'[p] = v /\ \A q \in Procs : q # p => pane'[q] = pane[q]
  BY <1>5, <1>7 DEF Maybe
<1>9. acts' \in 0 .. MaxActs BY <1>0, <1>1, Typed, SizeAssumption
<1>10. TypeOK' BY <1>0, <1>1, <1>6, <1>8, <1>9, Typed, TypedThen
<1>11. \A r \in Refs : pane'[p] # NoRow /\ pane'[p].row.ref = r => Cited(r) BY <1>1, <1>7, <1>8 DEF Cited
<1>12. \A r \in Refs : login'[p] # NoRow /\ login'[p].row.ref = r => Cited(r) BY <1>1, <1>3, <1>6 DEF Cited
<1>13. \A r \in Refs : Remembers(p, r)' => Remembers(p, r) BY <1>3, <1>6 DEF Remembers, Refs, NoRef
<1> QED BY <1>1, <1>6, <1>8, <1>10, <1>11, <1>12, <1>13, PaneKeeps

\* A process starts and reads the tables.
LEMMA LaunchKeeps ==
    ASSUME IInv, NEW p \in Procs, Launch(p)
    PROVE  IInv'
<1>0. Safe /\ TypeOK BY DEF IInv, Safe
<1>1. /\ p \notin running /\ running' = running \cup {p} /\ together' = (together \/ running # {})
      /\ side' = [side EXCEPT ![p] = rows] /\ list' = [list EXCEPT ![p] = accounts]
      /\ UNCHANGED <<rows, accounts, store, made, managed, pane, login, pc, act, acts, faults>>
  BY DEF Launch, disk, control
<1>2. /\ rows \in [Servers -> Maybe(Rows)] /\ accounts \in [Accounts -> Maybe(Rows)]
      /\ side \in [Procs -> [Servers -> Maybe(Rows)]] /\ list \in [Procs -> [Accounts -> Maybe(Rows)]]
  BY <1>0, Typed
<1>3. /\ side' \in [Procs -> [Servers -> Maybe(Rows)]] /\ list' \in [Procs -> [Accounts -> Maybe(Rows)]]
      /\ side'[p] = rows /\ list'[p] = accounts
      /\ \A q \in Procs : q # p => side'[q] = side[q] /\ list'[q] = list[q] BY <1>1, <1>2
<1>4. pc[p] = "idle" /\ act[p] = NoRow BY <1>0, <1>1, Typed DEF Safe, Away
<1>5. TypeOK' BY <1>0, <1>1, <1>3, Typed, TypedThen
<1>6. Formed' BY <1>0, <1>1 DEF Safe, Formed, FormedAct
<1>7. Away' BY <1>0, <1>1, <1>3 DEF Safe, AccountsOwn, Away
<1>8. \A r \in Refs : Cited(r)' => Cited(r) BY <1>1, <1>3 DEF Cited, Has
<1>9. Own' /\ Bounded' BY <1>1, <1>0, <1>8, OwnKept DEF Planned, Safe, Own, Remembers, Commits
<1>10. AccountsOwn' BY <1>0, <1>1 DEF Safe, AccountsOwn
<1>11. Dropped' BY <1>0, <1>1 DEF Safe, Dropped, Drops, Has
<1>12. ASSUME ~together'
       PROVE  Alone' /\ RowsBacked' /\ SideBacked' /\ ActBacked' /\ DroppedRows' /\ OneServer'
  <2>1. running = {} /\ ~together BY <1>1, <1>12
  <2>2. Alone /\ RowsBacked /\ SideBacked /\ ActBacked /\ DroppedRows /\ OneServer BY <2>1 DEF IInv, Orderly
  <2>3. \A q \in Procs : pc[q] = "idle" /\ side[q] = NoServers BY <1>0, <2>1 DEF Safe, Away
  <2>4. Alone' BY <1>1, <2>1 DEF Alone
  <2>5. RowsBacked' BY <1>1, <2>2 DEF RowsBacked, Backed
  <2>6. SideBacked' BY <1>3, <2>3, <1>1, <2>2, <2>1 DEF NoServers, RowsBacked, Backed, Leaving, SideBacked
  <2>7. ActBacked' BY <1>1, <2>2 DEF ActBacked, Backed
  <2>8. DroppedRows' BY <1>1, <2>2 DEF DroppedRows, Drops, Has
  <2>9. OneServer' BY <1>1, <1>3, <2>2 DEF Mentions, Planned, Has, OneServer
  <2> QED BY <2>4, <2>5, <2>6, <2>7, <2>8, <2>9
<1>13. Orderly' BY <1>12 DEF Orderly
<1> QED BY <1>5, <1>6, <1>7, <1>9, <1>10, <1>11, <1>13 DEF IInv, Safe

\* A process is killed.
LEMMA KillKeeps ==
    ASSUME IInv, NEW p \in Procs, Kill(p)
    PROVE  IInv'
<1>0. Safe /\ TypeOK BY DEF IInv, Safe
<1>1. /\ running' = running \ {p} /\ faults < MaxFaults /\ faults' = faults + 1
      /\ side' = [side EXCEPT ![p] = NoServers] /\ list' = [list EXCEPT ![p] = NoAccounts]
      /\ pane' = [pane EXCEPT ![p] = NoRow] /\ login' = [login EXCEPT ![p] = NoRow] /\ Done(p)
      /\ UNCHANGED <<rows, accounts, store, made, managed, together, acts>> BY DEF Kill, disk, Fault
<1>2. /\ side \in [Procs -> [Servers -> Maybe(Rows)]] /\ list \in [Procs -> [Accounts -> Maybe(Rows)]]
      /\ pane \in [Procs -> Maybe(Panes)] /\ login \in [Procs -> Maybe(Logins)]
      /\ pc \in [Procs -> Steps] /\ act \in [Procs -> Maybe(Acts)] BY <1>0, Typed
<1>3. /\ side' \in [Procs -> [Servers -> Maybe(Rows)]] /\ list' \in [Procs -> [Accounts -> Maybe(Rows)]]
      /\ pane' \in [Procs -> Maybe(Panes)] /\ login' \in [Procs -> Maybe(Logins)]
      /\ side'[p] = NoServers /\ list'[p] = NoAccounts /\ pane'[p] = NoRow /\ login'[p] = NoRow
      /\ \A q \in Procs : q # p => /\ side'[q] = side[q] /\ list'[q] = list[q] /\ pane'[q] = pane[q] /\ login'[q] = login[q]
  BY <1>1, <1>2 DEF Maybe, NoServers, NoAccounts
<1>4. pc'[p] = "idle" /\ act'[p] = NoRow /\ \A q \in Procs : q # p => pc'[q] = pc[q] /\ act'[q] = act[q]
  BY <1>1, <1>2 DEF Done, Go
<1>5. TypeOK' BY <1>0, <1>1, <1>3, Typed, SizeAssumption, GoTyped, TypedThen
<1>6. Formed' BY <1>0, <1>1, <1>4 DEF Safe, Formed, FormedAct
<1>7. Away' BY <1>0, <1>1, <1>3, <1>4 DEF Safe, Away, NoAccounts
<1>8. \A r \in Refs : Cited(r)' => Cited(r) BY <1>1, <1>3, <1>4 DEF Cited, Has, NoServers, NoAccounts
<1>9. Own' /\ Bounded' BY <1>4, <1>0, <1>1, <1>3, <1>8, OwnKept DEF Planned, Safe, Own, Remembers, Commits
<1>10. AccountsOwn' BY <1>0, <1>1 DEF Safe, AccountsOwn
<1>11. \A q \in Procs, r \in Refs : Drops(q, r)' => Drops(q, r) BY <1>4 DEF Drops
<1>12. Dropped' BY <1>0, <1>1, <1>11 DEF Safe, Dropped, Has
<1>13. ASSUME ~together
       PROVE  Alone' /\ RowsBacked' /\ SideBacked' /\ ActBacked' /\ DroppedRows' /\ OneServer'
  <2>2. Alone /\ RowsBacked /\ SideBacked /\ ActBacked /\ DroppedRows /\ OneServer BY <1>13 DEF IInv, Orderly
  <2>3. Alone' BY <1>1, <2>2 DEF Alone
  <2>4. RowsBacked' BY <1>1, <2>2 DEF RowsBacked, Backed
  <2>5. SideBacked' BY <1>4, <1>3, <1>1, <2>2 DEF Leaving, NoServers, SideBacked, Backed
  <2>6. ActBacked' BY <1>1, <1>4, <2>2 DEF ActBacked, Backed
  <2>7. DroppedRows' BY <1>1, <1>11, <2>2 DEF DroppedRows, Has
  <2>8. OneServer' BY <1>1, <1>3, <1>4, <2>2 DEF Mentions, Planned, Has, NoServers, OneServer
  <2> QED BY <2>3, <2>4, <2>5, <2>6, <2>7, <2>8
<1>14. Orderly' BY <1>1, <1>13 DEF Orderly
<1> QED BY <1>5, <1>6, <1>7, <1>9, <1>10, <1>12, <1>14 DEF IInv, Safe

\* A user's act goes on, or ends, and nothing was written.
LEMMA ActKeeps ==
    ASSUME IInv, TypeOK', NEW p \in running, pc[p] # "drop", pc'[p] # "drop",
           UNCHANGED <<rows, accounts, store, made, managed, running, together, side, list>>,
           \A q \in Procs : (pane'[q] = pane[q] \/ pane'[q] = NoRow) /\ (login'[q] = login[q] \/ login'[q] = NoRow),
           \A q \in Procs : q # p => pc'[q] = pc[q] /\ act'[q] = act[q],
           act'[p] # NoRow => /\ act[p] # NoRow /\ FormedAct(act[p], pc[p])'
                              /\ act'[p].kind = act[p].kind /\ act'[p].id = act[p].id /\ act'[p].old = act[p].old,
           \A r \in Refs : Planned(p, r)' => Planned(p, r) \/ (Cited(r) /\ r \in managed),
           \A r \in Refs : ~Commits(p, r)',
           act'[p] # NoRow /\ act'[p].kind = "server" =>
              pc'[p] # "open" /\ (pc'[p] = "saveRow" /\ ~together => Backed(act[p].new)')
    PROVE  IInv'
<1>0. Safe /\ TypeOK BY DEF IInv, Safe
<1>1. Formed' BY <1>0 DEF Safe, Formed, FormedAct
<1>2. Away' BY <1>0 DEF Safe, Away
<1>3. \A r \in Refs : Cited(r)' => Cited(r) BY DEF Cited, Has
<1>4. Own' /\ Bounded' BY <1>0, <1>3, OwnKept DEF Planned, Safe, Own, Remembers, Commits
<1>5. AccountsOwn' BY <1>0 DEF Safe, AccountsOwn
<1>6. \A q \in Procs, r \in Refs : Drops(q, r)' => Drops(q, r) BY DEF Drops
<1>7. Dropped' BY <1>0, <1>6 DEF Safe, Dropped, Has
<1>8. ASSUME ~together
      PROVE  Alone' /\ RowsBacked' /\ SideBacked' /\ ActBacked' /\ DroppedRows' /\ OneServer'
  <2>1. Alone /\ RowsBacked /\ SideBacked /\ ActBacked /\ DroppedRows /\ OneServer BY <1>8 DEF IInv, Orderly
  <2>2. Alone' BY <2>1 DEF Alone
  <2>3. RowsBacked' BY <2>1 DEF RowsBacked, Backed
  <2>4. SideBacked' BY <2>1 DEF Leaving, SideBacked, Backed
  <2>5. ActBacked' BY <1>8, <2>1 DEF ActBacked, Backed
  <2>6. DroppedRows' BY <1>6, <2>1 DEF DroppedRows, Has
  <2>7. OneServer' BY <2>1 DEF Planned, Mentions, Has, OneServer
  <2> QED BY <2>2, <2>3, <2>4, <2>5, <2>6, <2>7
<1>9. Orderly' BY <1>8 DEF Orderly
<1> QED BY <1>1, <1>2, <1>4, <1>5, <1>7, <1>9 DEF IInv, Safe

\* It ends.
LEMMA DoneKeeps ==
    ASSUME IInv, NEW p \in Procs, pc[p] \notin {"idle", "drop"}, Done(p),
           UNCHANGED <<rows, accounts, store, made, managed, running, together, side, list, pane, login, acts>>,
           Fault \/ UNCHANGED faults
    PROVE  IInv'
<1>0. Safe /\ TypeOK BY DEF IInv, Safe
<1>1. p \in running BY <1>0 DEF Safe, Away
<1>2. pc'[p] = "idle" /\ act'[p] = NoRow /\ \A q \in Procs : q # p => pc'[q] = pc[q] /\ act'[q] = act[q]
  BY <1>0, Typed DEF Done, Go
<1>3. faults' \in 0 .. MaxFaults BY <1>0, Typed, SizeAssumption DEF Fault
<1>4. pc' \in [Procs -> Steps] /\ act' \in [Procs -> Maybe(Acts)] /\ \A q \in Procs : pc'[q] = "idle" <=> act'[q] = NoRow
  BY <1>0, GoTyped
<1>5. TypeOK' BY <1>0, <1>3, <1>4, Typed, TypedThen
<1>6. \A r \in Refs : ~Planned(p, r)' /\ ~Commits(p, r)' BY <1>2 DEF Planned, Commits
<1> QED BY <1>1, <1>2, <1>5, <1>6, ActKeeps

\* A failure that leaves the dialog of an account open.
LEMMA RefusedKeeps ==
    ASSUME IInv, NEW p \in Procs, pc[p] \in {"look", "store"}, Refused(p),
           UNCHANGED <<rows, accounts, store, made, managed, running, together, side, list, pane, login, acts>>,
           Fault \/ UNCHANGED faults
    PROVE  IInv'
<1>0. Safe /\ TypeOK BY DEF IInv, Safe
<1>1. CASE Done(p) BY <1>1, DoneKeeps
<1>2. CASE act[p].kind = "account" /\ Go(p, "open") /\ UNCHANGED act
  <2>1. p \in running /\ act[p] \in Acts /\ act[p] # NoRow BY <1>0, Busy DEF Safe, Away
  <2>2. pc'[p] = "open" /\ act'[p] = act[p] /\ \A q \in Procs : q # p => pc'[q] = pc[q] /\ act'[q] = act[q]
    BY <1>0, <1>2, Typed DEF Go
  <2>3. FormedAct(act[p], pc[p]) BY <1>0, <2>1 DEF Safe, Formed
  <2>4. act[p].new.ref = NoRef BY <1>2, <2>3 DEF FormedAct
  <2>5. FormedAct(act[p], pc[p])' BY <1>2, <2>2, <2>3, <2>4 DEF FormedAct
  <2>6. TypeOK' BY <1>0, <1>2, Typed, SizeAssumption, GoTyped, TypedThen DEF Fault, Steps
  <2>7. \A r \in Refs : (Planned(p, r)' => Planned(p, r)) /\ ~Commits(p, r)' BY <2>2 DEF Planned, Commits
  <2>8. act'[p].kind # "server" BY <1>2, <2>2
  <2> QED BY <2>1, <2>2, <2>5, <2>6, <2>7, <2>8, ActKeeps
<1> QED BY <1>1, <1>2 DEF Refused

----
(* The steps of what was confirmed. *)

\* Where an act goes that the user accepts.
LEMMA AcceptedSteps ==
    ASSUME NEW a \in Acts, FormedAct(a, "open")
    PROVE  /\ Accepted(a) \in {"look", "store", "saveRow", "commit", "deleteRow", "deleteAccount"}
           /\ FormedAct(a, Accepted(a))
           /\ Accepted(a) = "commit" => a.kind = "account" /\ a.new.ref # NoRef
           /\ Accepted(a) = "saveRow" => a.new.ref \notin managed \cup {NoRef}
BY Parts DEF Accepted, FormedAct, Has, Kinds

\* The user confirms or cancels.
LEMMA AnswerKeeps ==
    ASSUME IInv, NEW p \in Procs, Answer(p)
    PROVE  IInv'
<1>0. Safe /\ TypeOK BY DEF IInv, Safe
<1>1. /\ p \in running /\ pc[p] = "open"
      /\ UNCHANGED <<rows, accounts, store, made, managed, running, together, side, list, faults, acts>>
  BY DEF Answer, Waits, disk
<1>2. CASE Done(p) /\ UNCHANGED <<pane, login>> BY <1>1, <1>2, DoneKeeps
<1>3. CASE /\ Go(p, Accepted(act[p])) /\ UNCHANGED act
           /\ IF act[p].kind = "deleteServer" /\ pane[p] # NoRow /\ pane[p].server = act[p].id
              THEN pane' = [pane EXCEPT ![p] = NoRow] /\ login' = [login EXCEPT ![p] = NoRow]
              ELSE UNCHANGED <<pane, login>>
  <2>1. act[p] \in Acts /\ act[p] # NoRow /\ FormedAct(act[p], "open") BY <1>0, <1>1, Busy DEF Safe, Formed
  <2>2. /\ Accepted(act[p]) \in {"look", "store", "saveRow", "commit", "deleteRow", "deleteAccount"}
        /\ FormedAct(act[p], Accepted(act[p]))
        /\ Accepted(act[p]) = "commit" => act[p].kind = "account" /\ act[p].new.ref # NoRef
        /\ Accepted(act[p]) = "saveRow" => act[p].new.ref \notin managed \cup {NoRef} BY <2>1, AcceptedSteps
  <2>3. PICK step \in {"look", "store", "saveRow", "commit", "deleteRow", "deleteAccount"} : step = Accepted(act[p])
    BY <2>2
  <2>4. pc'[p] = step /\ \A q \in Procs : q # p => pc'[q] = pc[q] BY <1>0, <1>3, <2>3, Typed DEF Go
  <2>5. \A q \in Procs : (pane'[q] = pane[q] \/ pane'[q] = NoRow) /\ (login'[q] = login[q] \/ login'[q] = NoRow)
    BY <1>0, <1>3, Typed
  <2>6. TypeOK' BY <1>0, <1>3, <2>3, <1>1, Typed, GoTyped, TypedThen DEF Maybe, Steps
  <2>7. FormedAct(act[p], pc[p])' BY <1>1, <1>3, <2>2, <2>3, <2>4 DEF FormedAct
  <2>8. \A r \in Refs : Planned(p, r)' => Planned(p, r) BY <1>3 DEF Planned
  <2>9. \A r \in Refs : ~Commits(p, r)'
    <3> SUFFICES ASSUME NEW r \in Refs, pc'[p] = "commit", act[p].new.ref = r PROVE Has(act[p].old, r)
      BY <1>3 DEF Commits
    <3> QED BY <2>1, <2>2, <2>3, <2>4 DEF FormedAct
  <2>10. act[p].kind = "server" /\ pc'[p] = "saveRow" /\ ~together => Backed(act[p].new)'
    <3> SUFFICES ASSUME act[p].kind = "server", pc'[p] = "saveRow", ~together PROVE Backed(act[p].new)' OBVIOUS
    <3>1. act[p].new.ref \notin managed \cup {NoRef} BY <2>2, <2>3, <2>4
    <3>2. ActBacked BY DEF IInv, Orderly
    <3>3. act[p].new.ref \in store BY <1>1, <2>1, <3>1, <3>2 DEF ActBacked
    <3> QED BY <1>1, <1>3, <3>1, <3>3 DEF Backed
  <2> QED BY <1>0, <1>1, <1>3, <2>1, <2>4, <2>5, <2>6, <2>7, <2>8, <2>9, <2>10, ActKeeps
<1> QED BY <1>2, <1>3 DEF Answer

\* The chosen account is looked for.
LEMMA LookKeeps ==
    ASSUME IInv, NEW p \in Procs, Look(p)
    PROVE  IInv'
<1>0. Safe /\ TypeOK BY DEF IInv, Safe
<1>1. /\ pc[p] = "look"
      /\ UNCHANGED <<rows, accounts, store, made, managed, running, together, side, list, pane, login, faults, acts>>
  BY DEF Look, disk, copies
<1>2. CASE Refused(p) BY <1>1, <1>2, RefusedKeeps
<1>3. CASE \E entry \in Saved :
              /\ entry.ref = act[p].new.ref
              /\ act' = [act EXCEPT ![p].new = entry]
              /\ Go(p, "saveRow")
  <2>1. p \in running /\ act[p] \in Acts /\ act[p] # NoRow /\ FormedAct(act[p], "look")
    BY <1>0, <1>1, Busy DEF Safe, Formed, Away
  <2>2. PICK entry \in Saved : act' = [act EXCEPT ![p].new = entry] /\ Go(p, "saveRow") BY <1>3
  <2>3. /\ entry \in Rows /\ entry.ref \in managed /\ entry.ref \in store /\ Cited(entry.ref)
        /\ \E a \in Accounts : accounts[a] = entry BY <1>0, SavedKnown
  <2>4. PICK a \in Acts : /\ act' = [act EXCEPT ![p] = a]
                          /\ a.kind = act[p].kind /\ a.id = act[p].id /\ a.old = act[p].old /\ a.new = entry
    BY <1>0, <2>1, <2>2, <2>3, ActWith
  <2>5. /\ pc'[p] = "saveRow" /\ act'[p] = a
        /\ \A q \in Procs : q # p => pc'[q] = pc[q] /\ act'[q] = act[q] BY <1>0, <2>2, <2>4, Typed DEF Go
  <2>6. TypeOK' BY <1>0, <2>2, <2>4, <1>1, GoTyped, Typed, TypedThen DEF Steps
  <2>7. act[p].kind = "server" BY <2>1, Parts DEF FormedAct, Kinds
  <2>8. FormedAct(act[p], pc[p])' BY <1>1, <2>1, <2>4, <2>5, <2>7 DEF FormedAct
  <2>9. \A r \in Refs : Planned(p, r)' => Cited(r) /\ r \in managed BY <2>3, <2>4, <2>5 DEF Planned
  <2>10. \A r \in Refs : ~Commits(p, r)' BY <2>5 DEF Commits
  <2>11. Backed(act[p].new)' BY <2>4, <2>5, <1>1, <2>3 DEF Backed
  <2> QED BY <1>1, <2>1, <2>4, <2>5, <2>6, <2>8, <2>9, <2>10, <2>11, ActKeeps
<1> QED BY <1>2, <1>3 DEF Look

\* A new secret, for a server, an account or a login: what was known of the
\* other references stays true.
LEMMA SecretMade ==
    ASSUME IInv, NEW isManaged \in BOOLEAN, NewSecret(isManaged),
           UNCHANGED <<rows, accounts, running, together, side, list, pane>>
    PROVE  /\ made' \in Nat /\ made' <= MaxRefs /\ store' \subseteq 1 .. made' /\ managed' \subseteq 1 .. made'
           /\ made' \in Refs /\ made' \in store' /\ made' \notin managed /\ (made' \in managed' <=> isManaged)
           /\ ~Cited(made') /\ \A p \in Procs : ~Planned(p, made') /\ ~Remembers(p, made') /\ ~Commits(p, made')
           /\ \A r \in Refs : r # made' => (r \in store' <=> r \in store) /\ (r \in managed' <=> r \in managed)
           /\ \A r \in Refs : r <= made => r <= made'
           /\ store \subseteq store' /\ managed \subseteq managed'
           /\ AccountsOwn'
           /\ \A row : Backed(row) /\ row.ref # made' => Backed(row)'
           /\ ~together => /\ Alone' /\ RowsBacked'
                           /\ \A p \in Procs, s \in Servers : side[p][s] # NoRow /\ Backed(side[p][s]) => Backed(side[p][s])'
<1>0. Safe BY DEF IInv
<1>1. /\ made < MaxRefs /\ made' = made + 1 /\ store' = store \cup {made'}
      /\ managed' = IF isManaged THEN managed \cup {made'} ELSE managed BY DEF NewSecret
<1>2. made \in Nat /\ store \subseteq 1 .. made /\ managed \subseteq 1 .. made BY <1>0, Typed DEF Safe
<1>3. /\ made' \in Refs /\ made' \in Nat /\ made' <= MaxRefs /\ made' \notin store /\ made' \notin managed /\ ~Cited(made')
      /\ \A p \in Procs : ~Planned(p, made') /\ ~Remembers(p, made') /\ ~Commits(p, made') BY <1>0, <1>1, Made
<1>4. store' \subseteq 1 .. made' /\ managed' \subseteq 1 .. made' BY <1>1, <1>2
<1>5. \A r \in Refs : r <= made => r <= made' BY <1>1, <1>2, SizeAssumption DEF Refs
<1>6. store \subseteq store' /\ managed \subseteq managed' BY <1>1
<1>7. AccountsOwn' BY <1>0, <1>6 DEF Safe, AccountsOwn
<1>8. \A row : Backed(row) /\ row.ref # made' => Backed(row)' BY <1>1 DEF Backed
<1>9. ASSUME ~together
      PROVE  /\ Alone' /\ RowsBacked'
             /\ \A p \in Procs, s \in Servers : side[p][s] # NoRow /\ Backed(side[p][s]) => Backed(side[p][s])'
  <2>1. Alone /\ RowsBacked BY <1>9 DEF IInv, Orderly
  <2>2. \A s \in Servers : /\ rows[s] # NoRow => rows[s].ref # made'
                           /\ \A p \in Procs : side[p][s] # NoRow => side[p][s].ref # made'
    BY <1>3 DEF Cited, Has
  <2>3. Alone' BY <2>1 DEF Alone
  <2>4. RowsBacked' BY <1>1, <2>1, <2>2 DEF RowsBacked, Backed
  <2>5. \A p \in Procs, s \in Servers : side[p][s] # NoRow /\ Backed(side[p][s]) => Backed(side[p][s])'
    BY <1>1, <2>2 DEF Backed
  <2> QED BY <2>3, <2>4, <2>5
<1> QED BY <1>1, <1>3, <1>4, <1>5, <1>6, <1>7, <1>8, <1>9

\* The new secret of an account or of a server is stored, or could not be.
LEMMA StoreKeeps ==
    ASSUME IInv, NEW p \in Procs, Store(p)
    PROVE  IInv'
<1>0. Safe /\ TypeOK BY DEF IInv, Safe
<1>1. /\ pc[p] = "store"
      /\ UNCHANGED <<rows, accounts, running, together, side, list, pane, login, acts>> BY DEF Store, copies
<1>2. CASE Fault /\ Refused(p) /\ UNCHANGED <<store, made, managed>> BY <1>1, <1>2, RefusedKeeps
<1>3. CASE /\ NewSecret(act[p].kind = "account")
           /\ act' = [act EXCEPT ![p].new.ref = made']
           /\ Go(p, IF act[p].kind = "account" THEN "commit" ELSE "saveRow")
           /\ UNCHANGED faults
  <2> DEFINE step == IF act[p].kind = "account" THEN "commit" ELSE "saveRow"
  <2>1. act[p] \in Acts /\ act[p] # NoRow /\ FormedAct(act[p], "store") BY <1>0, <1>1, Busy DEF Safe, Formed
  <2>2. PICK isManaged \in BOOLEAN : isManaged = (act[p].kind = "account") OBVIOUS
  <2>3. NewSecret(isManaged) BY <1>3, <2>2
  <2>4. /\ made' \in Nat /\ made' <= MaxRefs /\ store' \subseteq 1 .. made' /\ managed' \subseteq 1 .. made'
        /\ made' \in Refs /\ made' \in store' /\ made' \notin managed /\ (made' \in managed' <=> isManaged)
        /\ ~Cited(made') /\ \A q \in Procs : ~Planned(q, made') /\ ~Remembers(q, made') /\ ~Commits(q, made')
        /\ \A r \in Refs : r # made' => (r \in store' <=> r \in store) /\ (r \in managed' <=> r \in managed)
        /\ \A r \in Refs : r <= made => r <= made'
        /\ store \subseteq store' /\ managed \subseteq managed'
        /\ AccountsOwn' BY <1>1, <2>3, SecretMade
  <2>5. PICK a \in Acts : /\ act' = [act EXCEPT ![p] = a]
                          /\ a.kind = act[p].kind /\ a.id = act[p].id /\ a.old = act[p].old /\ a.new.ref = made'
    <3>1. made' \in Refs \cup {NoRef} BY <2>4
    <3>2. PICK r \in Refs \cup {NoRef} : r = made' BY <3>1
    <3>3. act' = [act EXCEPT ![p].new.ref = r] BY <1>3, <3>2
    <3> QED BY <1>0, <2>1, <3>2, <3>3, ActWithRef
  <2>6. PICK s0 \in {"commit", "saveRow"} : s0 = step OBVIOUS
  <2>7. /\ pc'[p] = s0 /\ act'[p] = a /\ a # NoRow
        /\ \A q \in Procs : q # p => pc'[q] = pc[q] /\ act'[q] = act[q]
    BY <1>0, <1>3, <2>5, <2>6, Typed, Parts DEF Go
  <2>8. a.kind \in {"server", "account"} /\ (isManaged <=> a.kind = "account") /\ (s0 = "commit" <=> a.kind = "account")
    BY <2>1, <2>2, <2>5, <2>6, Parts DEF FormedAct, Kinds
  <2> HIDE DEF step
  <2>9. TypeOK'
    <3>1. /\ pc' \in [Procs -> Steps] /\ act' \in [Procs -> Maybe(Acts)]
          /\ \A q \in Procs : pc'[q] = "idle" <=> act'[q] = NoRow
      BY <1>3, <2>6, <1>0, <2>5, GoTyped DEF step, Steps
    <3> QED BY <1>0, <1>1, <1>3, <2>4, <3>1, Typed, TypedThen
  <2>10. Formed'
    <3>1. FormedAct(act[p], pc[p])' BY <2>1, <2>4, <2>5, <2>7, <2>8 DEF FormedAct, Has
    <3>2. \A q \in Procs : q # p /\ act'[q] # NoRow => FormedAct(act[q], pc[q])'
      BY <1>0, <2>4, <2>7 DEF Safe, Formed, FormedAct, Has
    <3> QED BY <3>1, <3>2 DEF Formed
  <2>11. Away' BY <1>0, <1>1, <2>4, <2>7 DEF Safe, Away
  <2>12. \A r \in Refs : (Cited(r)' <=> Cited(r)) BY <2>1, <2>5, <2>7, <1>1 DEF Has, Cited
  <2>13. \A q \in Procs, r \in Refs : /\ Planned(q, r)' <=> IF q = p THEN r = made' ELSE Planned(q, r)
                                      /\ Remembers(q, r)' <=> Remembers(q, r)
                                      /\ Commits(q, r)' => (q = p /\ r = made' /\ isManaged) \/ (q # p /\ Commits(q, r))
    BY <1>1, <2>5, <2>7, <2>8 DEF Planned, Remembers, Commits
  <2>14. Bounded' BY <1>0, <2>4, <2>12, <2>13 DEF Safe, Bounded
  <2>15. Own'
    <3>1. Own BY <1>0 DEF Safe
    <3> SUFFICES ASSUME NEW q \in Procs, NEW r \in Refs, Remembers(q, r)' \/ Commits(q, r)'
                 PROVE  /\ r \in store' /\ ~Cited(r)'
                        /\ \A o \in Procs : o # q => ~Planned(o, r)' /\ ~Remembers(o, r)'
                        /\ Remembers(q, r)' => ~Planned(q, r)' /\ r \notin managed' BY DEF Own
    <3>2. CASE r = made' BY <2>4, <2>12, <2>13, <3>2
    <3>3. CASE r # made' BY <2>13, <3>3, <3>1, <2>4, <2>12 DEF Own
    <3> QED BY <3>2, <3>3
  <2>16. \A q \in Procs, r \in Refs : Drops(q, r)' => Drops(q, r) BY <2>7 DEF Drops
  <2>17. Dropped' BY <1>0, <1>1, <2>16 DEF Safe, Dropped, Has
  <2>18. ASSUME ~together
         PROVE  Alone' /\ RowsBacked' /\ SideBacked' /\ ActBacked' /\ DroppedRows' /\ OneServer'
    <3>1. Alone /\ RowsBacked /\ SideBacked /\ ActBacked /\ DroppedRows /\ OneServer BY <2>18 DEF IInv, Orderly
    <3>2. /\ Alone' /\ RowsBacked'
          /\ \A q \in Procs, s \in Servers : side[q][s] # NoRow /\ Backed(side[q][s]) => Backed(side[q][s])'
      BY <1>1, <2>3, <2>18, SecretMade
    <3>3. SideBacked' BY <1>1, <2>7, <3>1, <3>2 DEF Leaving, SideBacked
    <3>4. ActBacked' BY <1>0, <1>1, <3>1, <2>4, <2>5, <2>7, <2>8, Typed DEF Safe, Away, Alone, Backed, ActBacked
    <3>5. DroppedRows' BY <1>1, <2>16, <3>1 DEF DroppedRows, Has
    <3>6. OneServer' BY <1>1, <2>1, <2>5, <2>7, <2>13, <2>4, <3>1 DEF Mentions, Has, Cited, OneServer
    <3> QED BY <3>2, <3>3, <3>4, <3>5, <3>6
  <2>19. Orderly' BY <1>1, <2>18 DEF Orderly
  <2> QED BY <2>4, <2>9, <2>10, <2>11, <2>14, <2>15, <2>17, <2>19 DEF IInv, Safe
<1> QED BY <1>2, <1>3 DEF Store

\* As long as processes run one after the other, the others do nothing.
LEMMA OthersIdle ==
    ASSUME IInv, ~together, NEW p \in running
    PROVE  \A q \in Procs : q # p =>
              /\ q \notin running /\ pc[q] = "idle" /\ act[q] = NoRow /\ side[q] = NoServers
              /\ pane[q] = NoRow /\ login[q] = NoRow
BY Typed DEF IInv, Orderly, Alone, Safe, Away

\* The row of a server is saved.
LEMMA SaveRowKeeps ==
    ASSUME IInv, NEW p \in Procs, SaveRow(p)
    PROVE  IInv'
<1>0. Safe /\ TypeOK BY DEF IInv, Safe
<1>1. /\ pc[p] = "saveRow" /\ Done(p)
      /\ UNCHANGED <<accounts, store, made, managed, running, together, list, login, acts>> BY DEF SaveRow
<1>2. CASE Fault /\ UNCHANGED <<rows, side, pane>> BY <1>1, <1>2, DoneKeeps
<1>3. CASE /\ rows' = [rows EXCEPT ![act[p].id] = act[p].new]
           /\ side' = [side EXCEPT ![p][act[p].id] = act[p].new]
           /\ pane' = Repaned(p, act[p].id, act[p].new)
           /\ UNCHANGED faults
  <2>1. act[p] \in Acts /\ act[p] # NoRow /\ FormedAct(act[p], "saveRow") BY <1>0, <1>1, Busy DEF Safe, Formed
  <2>2. act[p].kind = "server" /\ act[p].id \in Servers /\ act[p].new \in Rows /\ act[p].new # NoRow
    BY <2>1, Parts DEF FormedAct, Kinds
  <2>3. PICK s0 \in Servers, row \in Rows : s0 = act[p].id /\ row = act[p].new BY <2>2
  <2>4. p \in running BY <1>0, <1>1 DEF Safe, Away
  <2>5. /\ rows \in [Servers -> Maybe(Rows)] /\ side \in [Procs -> [Servers -> Maybe(Rows)]]
        /\ pc \in [Procs -> Steps] /\ act \in [Procs -> Maybe(Acts)] BY <1>0, Typed
  <2>6. /\ rows' \in [Servers -> Maybe(Rows)] /\ rows'[s0] = row /\ \A s \in Servers : s # s0 => rows'[s] = rows[s]
        /\ side' \in [Procs -> [Servers -> Maybe(Rows)]] /\ side'[p][s0] = row
        /\ \A s \in Servers : s # s0 => side'[p][s] = side[p][s]
        /\ \A q \in Procs : q # p => side'[q] = side[q] BY <1>3, <2>3, <2>5 DEF Maybe
  <2>7. pc'[p] = "idle" /\ act'[p] = NoRow /\ \A q \in Procs : q # p => pc'[q] = pc[q] /\ act'[q] = act[q]
    BY <1>1, <2>5 DEF Done, Go
  <2>8. /\ pane' \in [Procs -> Maybe(Panes)]
        /\ \A q \in Procs : pane[q] = NoRow => pane'[q] = NoRow
        /\ \A q \in Procs : pane'[q] # NoRow => pane[q] # NoRow /\ pane'[q].row \in {pane[q].row, row}
    BY <1>0, <1>3, <2>3, RepanedTyped
  <2>9. TypeOK' BY <1>0, <1>1, <1>3, <2>6, <2>8, GoTyped, Typed, TypedThen
  <2>10. Formed' BY <1>0, <1>1, <2>7 DEF Safe, Formed, FormedAct
  <2>11. Away' BY <1>0, <1>1, <2>4, <2>6, <2>7, <2>8 DEF Safe, Away
  <2>12. \A r \in Refs : row.ref = r => Planned(p, r) BY <2>1, <2>3 DEF Planned
  <2>13. \A r \in Refs : Cited(r)' => Cited(r) \/ row.ref = r
    <3>1. \A s \in Servers, r \in Refs : Has(rows'[s], r) => Has(rows[s], r) \/ row.ref = r BY <2>6 DEF Has
    <3>2. \A q \in Procs, s \in Servers, r \in Refs : Has(side'[q][s], r) => Has(side[q][s], r) \/ row.ref = r
      BY <2>6 DEF Has
    <3>3. \A q \in Procs, r \in Refs :
            pane'[q] # NoRow /\ pane'[q].row.ref = r => (pane[q] # NoRow /\ pane[q].row.ref = r) \/ row.ref = r
      BY <2>8
    <3>4. \A q \in Procs, r \in Refs :
            act'[q] # NoRow /\ Has(act'[q].old, r) => act[q] # NoRow /\ Has(act[q].old, r) BY <2>7
    <3> QED BY <1>1, <3>1, <3>2, <3>3, <3>4 DEF Cited
  <2>14. Own' /\ Bounded'
    <3>1. \A q \in Procs, r \in Refs : Planned(q, r)' => Planned(q, r) BY <2>7 DEF Planned
    <3>2. \A q \in Procs, r \in Refs : Remembers(q, r)' => Remembers(q, r) /\ r \in store'
      BY <1>0, <1>1 DEF Safe, Own, Remembers
    <3>3. \A q \in Procs, r \in Refs : Commits(q, r)' => Commits(q, r) /\ r \in store'
      BY <1>0, <1>1, <2>7 DEF Safe, Own, Commits
    <3>4. \A r \in Refs : ~Commits(p, r)' BY <2>7 DEF Commits
    <3>5. \A r \in Refs : Cited(r)' =>
            \/ Cited(r)
            \/ \E q \in Procs : \/ Planned(q, r) /\ ~Commits(q, r)'
                                \/ Remembers(q, r) /\ ~Remembers(q, r)' BY <2>12, <2>13, <3>4
    <3> QED BY <1>0, <1>1, <3>1, <3>2, <3>3, <3>5, OwnKept
  <2>15. AccountsOwn' BY <1>0, <1>1 DEF Safe, AccountsOwn
  <2>16. \A q \in Procs, r \in Refs : Drops(q, r)' => Drops(q, r) /\ q # p BY <2>7 DEF Drops
  <2>17. Dropped' BY <1>0, <1>1, <2>16 DEF Safe, Dropped, Has
  <2>18. ASSUME ~together
         PROVE  Alone' /\ RowsBacked' /\ SideBacked' /\ ActBacked' /\ DroppedRows' /\ OneServer'
    <3>1. Alone /\ RowsBacked /\ SideBacked /\ ActBacked /\ DroppedRows /\ OneServer BY <2>18 DEF IInv, Orderly
    <3>2. \A q \in Procs : q # p => q \notin running /\ pc[q] = "idle" /\ act[q] = NoRow /\ side[q] = NoServers
      BY <2>4, <2>18, OthersIdle
    <3>3. Backed(row) BY <1>1, <2>1, <2>2, <2>3, <3>1 DEF ActBacked
    <3>4. Alone' BY <1>1, <3>1 DEF Alone
    <3>5. RowsBacked' BY <1>1, <2>6, <3>1, <3>3 DEF RowsBacked, Backed
    <3>6. SideBacked'
      <4>1. \A q \in Procs, s \in Servers : ~Leaving(q, s)' /\ ~Leaving(q, s) BY <1>1, <2>7, <3>2 DEF Leaving
      <4>2. \A s \in Servers : side[p][s] # NoRow => Backed(side[p][s]) BY <1>1, <3>1 DEF SideBacked
      <4>3. \A s \in Servers : side'[p][s] # NoRow => Backed(side[p][s])' BY <1>1, <2>6, <3>3, <4>2 DEF Backed
      <4>4. \A q \in Procs, s \in Servers : side'[q][s] # NoRow => q = p BY <2>6, <3>2 DEF NoServers
      <4>5. \A s \in Servers : side'[p][s] = NoRow <=> rows'[s] = NoRow
        BY <2>3, <2>4, <2>6, <3>1, <4>1, Parts DEF SideBacked
      <4>6. \A q \in Procs, s \in Servers : q \in running' => (side'[q][s] = NoRow <=> rows'[s] = NoRow)
        BY <1>1, <3>2, <4>5
      <4> QED BY <4>1, <4>3, <4>4, <4>6 DEF SideBacked
    <3>7. ActBacked' BY <2>7, <3>2 DEF ActBacked
    <3>8. DroppedRows' BY <2>16, <3>2 DEF DroppedRows, Drops
    <3>9. OneServer'
      <4>1. \A r \in Refs : row.ref = r => Mentions(s0, r) BY <2>1, <2>2, <2>3, <2>12 DEF Mentions
      <4>2. \A s \in Servers, r \in Refs : Has(rows'[s], r) => Mentions(s, r) BY <2>6, <4>1 DEF Mentions, Has
      <4>3. \A q \in Procs, s \in Servers, r \in Refs : Has(side'[q][s], r) => Mentions(s, r)
        BY <2>6, <4>1 DEF Mentions, Has
      <4>4. \A q \in Procs : act'[q] = NoRow BY <2>7, <3>2
      <4>5. \A s \in Servers, r \in Refs : Mentions(s, r)' => Mentions(s, r) BY <4>2, <4>3, <4>4 DEF Mentions, Has
      <4> QED BY <1>1, <3>1, <4>5 DEF OneServer
    <3> QED BY <3>1, <3>4, <3>5, <3>6, <3>7, <3>8, <3>9
  <2>19. Orderly' BY <1>1, <2>18 DEF Orderly
  <2> QED BY <2>9, <2>10, <2>11, <2>14, <2>15, <2>17, <2>19 DEF IInv, Safe
<1> QED BY <1>2, <1>3 DEF SaveRow

\* The row of a server is deleted; its secret is still there.
LEMMA DeleteRowKeeps ==
    ASSUME IInv, NEW p \in Procs, DeleteRow(p)
    PROVE  IInv'
<1>0. Safe /\ TypeOK BY DEF IInv, Safe
<1>1. /\ pc[p] = "deleteRow"
      /\ UNCHANGED <<accounts, store, made, managed, running, together, side, list, pane, login, acts>>
  BY DEF DeleteRow, copies
<1>2. CASE Done(p) /\ UNCHANGED rows /\ (Fault \/ UNCHANGED faults) BY <1>1, <1>2, DoneKeeps
<1>3. CASE /\ rows[act[p].id] # NoRow
           /\ rows' = [rows EXCEPT ![act[p].id] = NoRow]
           /\ Go(p, "drop")
           /\ UNCHANGED <<act, faults>>
  <2>1. act[p] \in Acts /\ act[p] # NoRow /\ FormedAct(act[p], "deleteRow") BY <1>0, <1>1, Busy DEF Safe, Formed
  <2>2. act[p].kind = "deleteServer" /\ act[p].id \in Servers BY <2>1, Parts DEF FormedAct, Kinds
  <2>3. PICK s0 \in Servers : s0 = act[p].id BY <2>2
  <2>4. p \in running BY <1>0, <1>1 DEF Safe, Away
  <2>5. rows \in [Servers -> Maybe(Rows)] /\ pc \in [Procs -> Steps] BY <1>0, Typed
  <2>6. rows' \in [Servers -> Maybe(Rows)] /\ rows'[s0] = NoRow /\ \A s \in Servers : s # s0 => rows'[s] = rows[s]
    BY <1>3, <2>3, <2>5 DEF Maybe
  <2>7. pc'[p] = "drop" /\ \A q \in Procs : q # p => pc'[q] = pc[q] BY <1>3, <2>5 DEF Go
  <2>8. TypeOK' BY <1>0, <1>1, <1>3, <2>6, GoTyped, Typed, TypedThen DEF Steps
  <2>9. Formed' BY <1>1, <1>3, <2>1, <2>2, <2>7, <1>0 DEF FormedAct, Safe, Formed
  <2>10. Away' BY <1>0, <1>1, <2>4, <2>7 DEF Safe, Away
  <2>11. \A r \in Refs : Cited(r)' => Cited(r) BY <2>6, <1>1, <1>3 DEF Has, Cited
  <2>12. Own' /\ Bounded' BY <1>3, <1>0, <1>1, <2>7, <2>11, OwnKept DEF Planned, Safe, Own, Remembers, Commits
  <2>13. AccountsOwn' BY <1>0, <1>1 DEF Safe, AccountsOwn
  <2>14. \A q \in Procs, r \in Refs : Drops(q, r)' => Drops(q, r) BY <1>3, <2>2, <2>7 DEF Drops
  <2>15. Dropped' BY <1>0, <1>1, <2>14 DEF Safe, Dropped, Has
  <2>16. ASSUME ~together
         PROVE  Alone' /\ RowsBacked' /\ SideBacked' /\ ActBacked' /\ DroppedRows' /\ OneServer'
    <3>1. Alone /\ RowsBacked /\ SideBacked /\ ActBacked /\ DroppedRows /\ OneServer BY <2>16 DEF IInv, Orderly
    <3>2. \A q \in Procs : q # p => q \notin running /\ pc[q] = "idle" /\ act[q] = NoRow /\ side[q] = NoServers
      BY <2>4, <2>16, OthersIdle
    <3>3. Alone' BY <1>1, <3>1 DEF Alone
    <3>4. RowsBacked' BY <1>1, <2>6, <3>1 DEF RowsBacked, Backed
    <3>5. SideBacked'
      <4>1. \A q \in Procs, s \in Servers : /\ ~Leaving(q, s)
                                            /\ Leaving(q, s)' <=> (q = p /\ s = s0)
        BY <1>1, <1>3, <2>2, <2>3, <2>7, <3>2 DEF Leaving
      <4>2. \A q \in Procs, s \in Servers : side[q][s] # NoRow => Backed(side[q][s])
        BY <1>1, <3>1, <3>2 DEF SideBacked
      <4>3. \A q \in Procs, s \in Servers : side'[q][s] # NoRow => Backed(side[q][s])' BY <1>1, <4>2 DEF Backed
      <4>4. \A q \in Procs, s \in Servers :
              q \in running' /\ ~Leaving(q, s)' => (side'[q][s] = NoRow <=> rows'[s] = NoRow)
        BY <1>1, <2>6, <3>1, <3>2, <4>1 DEF SideBacked
      <4>5. \A q \in Procs, s \in Servers : Leaving(q, s)' => rows'[s] = NoRow BY <2>6, <4>1
      <4> QED BY <4>3, <4>4, <4>5 DEF SideBacked
    <3>6. ActBacked' BY <1>3, <2>2, <3>2 DEF ActBacked
    <3>7. DroppedRows' BY <1>3, <2>2, <2>7, <3>2 DEF Drops, DroppedRows
    <3>8. OneServer' BY <2>6, <1>1, <1>3, <3>1 DEF Has, Mentions, Planned, OneServer
    <3> QED BY <3>3, <3>4, <3>5, <3>6, <3>7, <3>8
  <2>17. Orderly' BY <1>1, <2>16 DEF Orderly
  <2> QED BY <2>8, <2>9, <2>10, <2>12, <2>13, <2>15, <2>17 DEF IInv, Safe
<1> QED BY <1>2, <1>3 DEF DeleteRow

\* The row of an account is deleted, which no server uses.
LEMMA DeleteAccountRowKeeps ==
    ASSUME IInv, NEW p \in Procs, DeleteAccountRow(p)
    PROVE  IInv'
<1>0. Safe /\ TypeOK BY DEF IInv, Safe
<1>1. /\ pc[p] = "deleteAccount"
      /\ UNCHANGED <<rows, store, made, managed, running, together, side, list, pane, login, acts>>
  BY DEF DeleteAccountRow, copies
<1>2. CASE Done(p) /\ UNCHANGED accounts /\ (Fault \/ UNCHANGED faults) BY <1>1, <1>2, DoneKeeps
<1>3. CASE /\ accounts[act[p].id] = act[p].old /\ Using(act[p].old.ref) = {}
           /\ accounts' = [accounts EXCEPT ![act[p].id] = NoRow]
           /\ Go(p, "drop")
           /\ UNCHANGED <<act, faults>>
  <2>1. act[p] \in Acts /\ act[p] # NoRow /\ FormedAct(act[p], "deleteAccount") BY <1>0, <1>1, Busy DEF Safe, Formed
  <2>2. act[p].kind = "deleteAccount" /\ act[p].id \in Accounts /\ act[p].old # NoRow
    BY <2>1, Parts DEF FormedAct, Kinds
  <2>3. PICK a0 \in Accounts : a0 = act[p].id BY <2>2
  <2>4. p \in running BY <1>0, <1>1 DEF Safe, Away
  <2>5. accounts \in [Accounts -> Maybe(Rows)] /\ pc \in [Procs -> Steps] BY <1>0, Typed
  <2>6. /\ accounts' \in [Accounts -> Maybe(Rows)] /\ accounts'[a0] = NoRow
        /\ \A a \in Accounts : a # a0 => accounts'[a] = accounts[a] BY <1>3, <2>3, <2>5 DEF Maybe
  <2>7. pc'[p] = "drop" /\ \A q \in Procs : q # p => pc'[q] = pc[q] BY <1>3, <2>5 DEF Go
  <2>8. TypeOK' BY <1>0, <1>1, <1>3, <2>6, GoTyped, Typed, TypedThen DEF Steps
  <2>9. Formed' BY <1>1, <1>3, <2>1, <2>2, <2>7, <1>0 DEF FormedAct, Safe, Formed
  <2>10. Away' BY <1>0, <1>1, <2>4, <2>7 DEF Safe, Away
  <2>11. \A a \in Accounts, r \in Refs : Has(accounts'[a], r) => Has(accounts[a], r) /\ a # a0 BY <2>6 DEF Has
  <2>12. \A r \in Refs : Cited(r)' => Cited(r) BY <1>1, <1>3, <2>11 DEF Cited, Has
  <2>13. Own' /\ Bounded' BY <1>3, <1>0, <1>1, <2>7, <2>12, OwnKept DEF Planned, Safe, Own, Remembers, Commits
  <2>14. AccountsOwn' BY <1>0, <1>1, <2>6 DEF Safe, AccountsOwn
  <2>15. \A q \in Procs, r \in Refs : Drops(q, r)' => Drops(q, r) \/ (q = p /\ r = act[p].old.ref)
    BY <1>3, <2>7 DEF Drops, Has
  <2>16. Dropped'
    <3> SUFFICES ASSUME NEW q \in Procs, NEW r \in Refs, NEW a \in Accounts, Drops(q, r)', Has(accounts'[a], r) PROVE FALSE
      BY DEF Dropped, Has
    <3>1. Has(accounts[a], r) /\ a # a0 BY <2>11
    <3>2. CASE Drops(q, r) BY <1>0, <3>1, <3>2 DEF Safe, Dropped
    <3>3. CASE r = act[p].old.ref BY <1>3, <2>2, <2>3, <3>3, <1>0, <3>1 DEF Has, Safe, AccountsOwn
    <3> QED BY <2>15, <3>2, <3>3
  <2>17. \A s \in Servers : rows[s] # NoRow => rows[s].ref # act[p].old.ref BY <1>3 DEF Using
  <2>18. ASSUME ~together
         PROVE  Alone' /\ RowsBacked' /\ SideBacked' /\ ActBacked' /\ DroppedRows' /\ OneServer'
    <3>1. Alone /\ RowsBacked /\ SideBacked /\ ActBacked /\ DroppedRows /\ OneServer BY <2>18 DEF IInv, Orderly
    <3>2. \A q \in Procs : q # p => q \notin running /\ pc[q] = "idle" /\ act[q] = NoRow /\ side[q] = NoServers
      BY <2>4, <2>18, OthersIdle
    <3>3. Alone' BY <1>1, <3>1 DEF Alone
    <3>4. RowsBacked'
      <4> SUFFICES ASSUME NEW s \in Servers, rows[s] # NoRow PROVE Backed(rows[s])' BY <1>1 DEF RowsBacked
      <4>1. Backed(rows[s]) BY <3>1 DEF RowsBacked
      <4>2. ASSUME rows[s].ref \in managed PROVE \E a \in Accounts : accounts'[a] = rows[s]
        <5>1. PICK a \in Accounts : accounts[a] = rows[s] BY <4>1, <4>2 DEF Backed
        <5>2. a # a0 BY <1>3, <2>3, <2>17, <5>1
        <5> QED BY <2>6, <5>1, <5>2
      <4> QED BY <1>1, <4>1, <4>2 DEF Backed
    <3>5. SideBacked' BY <1>1, <1>3, <2>2, <2>7, <3>2, <3>1 DEF Leaving, NoServers, SideBacked
    <3>6. ActBacked' BY <1>3, <2>2, <3>2 DEF ActBacked
    <3>7. DroppedRows' BY <1>1, <2>15, <2>17, <3>1 DEF DroppedRows, Has
    <3>8. OneServer' BY <1>1, <1>3, <3>1 DEF Mentions, Planned, Has, OneServer
    <3> QED BY <3>3, <3>4, <3>5, <3>6, <3>7, <3>8
  <2>19. Orderly' BY <1>1, <2>18 DEF Orderly
  <2> QED BY <2>8, <2>9, <2>10, <2>13, <2>14, <2>16, <2>19 DEF IInv, Safe
<1> QED BY <1>2, <1>3 DEF DeleteAccountRow

----
(* The transaction of an account, and what is removed at the end. *)

\* What an account gets is its own: it has it, or has made it for itself.
LEMMA CommitOwn ==
    ASSUME IInv, NEW p \in Procs, pc[p] = "commit"
    PROVE  /\ p \in running /\ act[p] \in Acts /\ act[p] # NoRow /\ act[p].kind = "account" /\ act[p].id \in Accounts
           /\ act[p].new \in Rows /\ act[p].new # NoRow /\ act[p].new.ref \in managed /\ act[p].new.ref \in Refs
           /\ act[p].old # NoRow => act[p].old \in Rows /\ act[p].old.ref \in managed
           /\ ~Has(act[p].old, act[p].new.ref) => Commits(p, act[p].new.ref)
           /\ \A r \in Refs : Commits(p, r) =>
                 /\ r \in store /\ ~Cited(r)
                 /\ \A q \in Procs : q # p => ~Planned(q, r) /\ ~Remembers(q, r) /\ ~Commits(q, r)
                 /\ ~Remembers(p, r)
<1>0. Safe /\ TypeOK BY DEF IInv, Safe
<1>1. act[p] \in Acts /\ act[p] # NoRow /\ FormedAct(act[p], "commit") /\ p \in running
  BY <1>0, Busy DEF Safe, Formed, Away
<1>2. act[p].kind = "account" /\ act[p].id \in Accounts /\ act[p].new \in Rows /\ act[p].new # NoRow
      /\ act[p].new.ref \in managed BY <1>1, Parts DEF FormedAct, Kinds
<1>3. act[p].new.ref \in Refs BY <1>0, <1>2, Typed, Parts DEF NoRef
<1>4. act[p].old # NoRow => act[p].old \in Rows /\ act[p].old.ref \in managed BY <1>1, <1>2, Parts DEF FormedAct
<1>5. \A r \in Refs : Commits(p, r) =>
         /\ r \in store /\ ~Cited(r)
         /\ \A q \in Procs : q # p => ~Planned(q, r) /\ ~Remembers(q, r)
         /\ ~Remembers(p, r) BY <1>0, <1>1 DEF Safe, Own, Commits, Planned
<1>6. \A q \in Procs, r \in Refs : Commits(q, r) => Planned(q, r) BY <1>0, Busy DEF Commits, Planned
<1>7. ~Has(act[p].old, act[p].new.ref) => Commits(p, act[p].new.ref) BY DEF Commits
<1> QED BY <1>1, <1>2, <1>3, <1>4, <1>5, <1>6, <1>7

\* The transaction is rolled back, and the new secret removed, or it stays.
LEMMA CommitFails ==
    ASSUME IInv, NEW p \in Procs, pc[p] = "commit", Go(p, "open"), Fault \/ UNCHANGED faults,
           UNCHANGED <<rows, accounts, made, managed, running, together, side, list, pane, login, acts>>,
           IF act[p].old # NoRow /\ act[p].new.ref = act[p].old.ref
           THEN UNCHANGED <<store, act>>
           ELSE /\ store' \in {store, store \ {act[p].new.ref}}
                /\ act' = [act EXCEPT ![p].new.ref = NoRef]
    PROVE  IInv'
<1>0. Safe /\ TypeOK BY DEF IInv, Safe
<1>1. /\ p \in running /\ act[p] \in Acts /\ act[p] # NoRow /\ act[p].kind = "account"
      /\ act[p].new.ref \in Refs
      /\ ~Has(act[p].old, act[p].new.ref) => Commits(p, act[p].new.ref)
      /\ \A r \in Refs : Commits(p, r) =>
            /\ ~Cited(r)
            /\ \A q \in Procs : q # p => ~Planned(q, r) /\ ~Remembers(q, r) /\ ~Commits(q, r)
            /\ ~Remembers(p, r) BY CommitOwn
<1>2. PICK a \in Acts : /\ act' = [act EXCEPT ![p] = a]
                        /\ a.kind = act[p].kind /\ a.id = act[p].id /\ a.old = act[p].old
                        /\ a.new.ref = NoRef \/ (a.new.ref = act[p].new.ref /\ Has(a.old, a.new.ref))
  <2>1. CASE act[p].old # NoRow /\ act[p].new.ref = act[p].old.ref BY <1>0, <2>1, <1>1, Typed DEF Has
  <2>2. CASE ~(act[p].old # NoRow /\ act[p].new.ref = act[p].old.ref)
    <3>1. NoRef \in Refs \cup {NoRef} OBVIOUS
    <3>2. \E a \in Acts : /\ [act EXCEPT ![p].new.ref = NoRef] = [act EXCEPT ![p] = a]
                          /\ a.kind = act[p].kind /\ a.id = act[p].id /\ a.old = act[p].old /\ a.new.ref = NoRef
      BY <1>0, <1>1, <3>1, ActWithRef
    <3> QED BY <2>2, <3>2
  <2> QED BY <2>1, <2>2
<1>3. /\ pc'[p] = "open" /\ act'[p] = a /\ a # NoRow
      /\ \A q \in Procs : q # p => pc'[q] = pc[q] /\ act'[q] = act[q] BY <1>0, <1>2, Typed, Parts DEF Go
<1>4. \A r \in Refs : r \in store => r \in store' \/ Commits(p, r) BY <1>1 DEF Has
<1>5. store' \subseteq store OBVIOUS
<1>6. TypeOK'
  <2>1. /\ pc' \in [Procs -> Steps] /\ act' \in [Procs -> Maybe(Acts)]
        /\ \A q \in Procs : pc'[q] = "idle" <=> act'[q] = NoRow BY <1>0, <1>2, GoTyped DEF Steps
  <2>2. faults' \in 0 .. MaxFaults BY <1>0, Typed, SizeAssumption DEF Fault
  <2>3. store' \subseteq 1 .. made BY <1>0, <1>5, Typed
  <2> QED BY <1>0, <2>1, <2>2, <2>3, Typed, TypedThen
<1>7. Formed' BY <1>0, <1>1, <1>2, <1>3 DEF Safe, Formed, FormedAct
<1>8. Away' BY <1>0, <1>1, <1>3 DEF Safe, Away
<1>9. \A r \in Refs : Cited(r)' => Cited(r) BY <1>1, <1>2, <1>3 DEF Cited, Has
<1>10. Own' /\ Bounded'
  <2>1. \A q \in Procs, r \in Refs : Planned(q, r)' => Planned(q, r)
    BY <1>1, <1>2, <1>3 DEF Planned, Refs, NoRef
  <2>2. \A q \in Procs, r \in Refs : Remembers(q, r)' => Remembers(q, r) /\ r \in store'
    BY <1>0, <1>1, <1>4 DEF Safe, Own, Remembers
  <2>3. \A q \in Procs, r \in Refs : Commits(q, r)' => Commits(q, r) /\ q # p BY <1>3 DEF Commits
  <2>4. \A q \in Procs, r \in Refs : Commits(q, r)' => Commits(q, r) /\ r \in store'
    BY <1>0, <1>1, <1>4, <2>3 DEF Safe, Own
  <2> QED BY <1>0, <1>9, <2>1, <2>2, <2>4, OwnKept
<1>11. AccountsOwn'
  <2>1. \A b \in Accounts : accounts[b] # NoRow => accounts[b].ref \in store'
    <3> SUFFICES ASSUME NEW b \in Accounts, accounts[b] # NoRow, accounts[b].ref \notin store' PROVE FALSE OBVIOUS
    <3>1. accounts[b].ref \in store BY <1>0 DEF Safe, AccountsOwn
    <3>2. store' = store \ {act[p].new.ref} /\ ~Has(act[p].old, act[p].new.ref) BY <3>1 DEF Has
    <3>3. accounts[b].ref = act[p].new.ref BY <3>1, <3>2
    <3>4. Cited(act[p].new.ref) BY <3>3 DEF Cited, Has
    <3> QED BY <1>1, <3>2, <3>4
  <2> QED BY <1>0, <2>1 DEF Safe, AccountsOwn
<1>12. \A q \in Procs, r \in Refs : Drops(q, r)' => Drops(q, r) BY <1>3 DEF Drops
<1>13. Dropped' BY <1>0, <1>12 DEF Safe, Dropped, Has
<1>14. ASSUME ~together
       PROVE  Alone' /\ RowsBacked' /\ SideBacked' /\ ActBacked' /\ DroppedRows' /\ OneServer'
  <2>1. Alone /\ RowsBacked /\ SideBacked /\ ActBacked /\ DroppedRows /\ OneServer BY <1>14 DEF IInv, Orderly
  <2>2. \A q \in Procs : q # p => q \notin running /\ pc[q] = "idle" /\ act[q] = NoRow /\ side[q] = NoServers
    BY <1>1, <1>14, OthersIdle
  <2>3. Alone' BY <2>1 DEF Alone
  <2>4. \A r : Has(act[p].old, act[p].new.ref) \/ r # act[p].new.ref => (r \in store => r \in store') BY DEF Has
  <2>5. ~Has(act[p].old, act[p].new.ref) => ~Cited(act[p].new.ref) BY <1>1
  <2>6. RowsBacked'
    <3> SUFFICES ASSUME NEW s \in Servers, rows[s] # NoRow PROVE Backed(rows[s])' BY DEF RowsBacked
    <3>1. Backed(rows[s]) BY <2>1 DEF RowsBacked
    <3>2. Cited(rows[s].ref) BY DEF Cited, Has
    <3>3. rows[s].ref \in store' BY <2>4, <2>5, <3>1, <3>2 DEF Backed
    <3> QED BY <3>1, <3>3 DEF Backed
  <2>7. SideBacked'
    <3>1. \A q \in Procs, s \in Servers : ~Leaving(q, s) /\ ~Leaving(q, s)' BY <1>3, <2>2 DEF Leaving
    <3>2. \A q \in Procs, s \in Servers : side[q][s] # NoRow => Backed(side[q][s]) /\ Cited(side[q][s].ref)
      BY <2>1, <2>2 DEF SideBacked, Cited, Has
    <3>3. \A q \in Procs, s \in Servers : side[q][s] # NoRow => side[q][s].ref \in store'
      BY <2>4, <2>5, <3>2 DEF Backed
    <3>4. \A q \in Procs, s \in Servers : side'[q][s] # NoRow => Backed(side[q][s])' BY <3>2, <3>3 DEF Backed
    <3>5. \A q \in Procs, s \in Servers : q \in running' => (side'[q][s] = NoRow <=> rows'[s] = NoRow)
      BY <2>1, <3>1 DEF SideBacked
    <3> QED BY <3>1, <3>4, <3>5 DEF SideBacked
  <2>8. ActBacked' BY <1>1, <1>2, <1>3, <2>2 DEF ActBacked
  <2>9. DroppedRows' BY <1>12, <2>1 DEF DroppedRows, Has
  <2>10. OneServer' BY <1>1, <1>2, <1>3, <2>2, <2>1 DEF Mentions, Has, OneServer
  <2> QED BY <2>3, <2>6, <2>7, <2>8, <2>9, <2>10
<1>15. Orderly' BY <1>14 DEF Orderly
<1> QED BY <1>6, <1>7, <1>8, <1>10, <1>11, <1>13, <1>15 DEF IInv, Safe

\* The transaction of an account and of the servers that use it.
LEMMA CommitChanges ==
    ASSUME IInv, NEW p \in Procs, pc[p] = "commit", Go(p, "drop"),
           NEW users, users = IF act[p].old = NoRow THEN {} ELSE Using(act[p].old.ref),
           accounts[act[p].id] = act[p].old,
           accounts' = [accounts EXCEPT ![act[p].id] = act[p].new],
           rows' = [s \in Servers |-> IF s \in users THEN act[p].new ELSE rows[s]],
           UNCHANGED <<store, faults, act, made, managed, running, together, side, list, pane, login, acts>>
    PROVE  IInv'
<1>0. Safe /\ TypeOK BY DEF IInv, Safe
<1>1. /\ p \in running /\ act[p] \in Acts /\ act[p] # NoRow /\ act[p].kind = "account" /\ act[p].id \in Accounts
      /\ act[p].new \in Rows /\ act[p].new # NoRow /\ act[p].new.ref \in managed /\ act[p].new.ref \in Refs
      /\ act[p].old # NoRow => act[p].old \in Rows /\ act[p].old.ref \in managed
      /\ ~Has(act[p].old, act[p].new.ref) => Commits(p, act[p].new.ref)
      /\ \A r \in Refs : Commits(p, r) =>
            /\ r \in store /\ ~Cited(r)
            /\ \A q \in Procs : q # p => ~Planned(q, r) /\ ~Remembers(q, r) /\ ~Commits(q, r)
            /\ ~Remembers(p, r) BY CommitOwn
<1>2. PICK a0 \in Accounts, old \in Maybe(Rows), new \in Rows :
        a0 = act[p].id /\ old = act[p].old /\ new = act[p].new /\ new # NoRow BY <1>1, Parts DEF Maybe
<1>3. rows \in [Servers -> Maybe(Rows)] /\ accounts \in [Accounts -> Maybe(Rows)] /\ pc \in [Procs -> Steps]
  BY <1>0, Typed
<1>4. users \subseteq Servers /\ \A s \in Servers : s \in users <=> (old # NoRow /\ rows[s] # NoRow /\ rows[s].ref = old.ref)
  BY <1>2 DEF Using
<1>5. /\ rows' \in [Servers -> Maybe(Rows)] /\ accounts' \in [Accounts -> Maybe(Rows)]
      /\ \A s \in Servers : rows'[s] = IF s \in users THEN new ELSE rows[s]
      /\ accounts'[a0] = new /\ accounts[a0] = old /\ \A a \in Accounts : a # a0 => accounts'[a] = accounts[a]
  BY <1>2, <1>3 DEF Maybe
<1>6. pc'[p] = "drop" /\ \A q \in Procs : q # p => pc'[q] = pc[q] BY <1>3 DEF Go
<1>7. /\ new.ref \in Refs /\ new.ref \in managed /\ new.ref \in store
      /\ Planned(p, new.ref)
      /\ Has(old, new.ref) \/ (Commits(p, new.ref) /\ ~Cited(new.ref))
  BY <1>0, <1>5, <1>1, <1>2 DEF Safe, AccountsOwn, Has, Planned
<1>8. TypeOK' BY <1>0, <1>5, GoTyped, Typed, TypedThen DEF Steps
<1>9. Formed' BY <1>0, <1>1, <1>6 DEF Safe, Formed, FormedAct
<1>10. Away' BY <1>0, <1>1, <1>6 DEF Safe, Away
<1>11. \A r \in Refs : Cited(r)' => Cited(r) \/ r = new.ref BY <1>5 DEF Has, Cited
<1>12. Own' /\ Bounded'
  <2>1. \A q \in Procs, r \in Refs : Planned(q, r)' => Planned(q, r) BY DEF Planned
  <2>2. \A q \in Procs, r \in Refs : Remembers(q, r)' => Remembers(q, r) /\ r \in store'
    BY <1>0 DEF Safe, Own, Remembers
  <2>3. \A q \in Procs, r \in Refs : Commits(q, r)' => Commits(q, r) /\ q # p BY <1>6 DEF Commits
  <2>4. \A q \in Procs, r \in Refs : Commits(q, r)' => Commits(q, r) /\ r \in store' BY <1>0, <2>3 DEF Safe, Own
  <2>5. \A r \in Refs : Cited(r)' =>
          \/ Cited(r)
          \/ \E q \in Procs : \/ Planned(q, r) /\ ~Commits(q, r)'
                              \/ Remembers(q, r) /\ ~Remembers(q, r)' BY <1>7, <1>11, <2>3
  <2> QED BY <1>0, <2>1, <2>2, <2>4, <2>5, OwnKept
<1>13. \A a \in Accounts, r \in Refs : Has(accounts[a], r) => Cited(r) BY DEF Cited
<1>14. \A a \in Accounts : accounts[a] # NoRow => accounts[a].ref \in store /\ accounts[a].ref \in managed /\ accounts[a].ref \in Refs
  BY <1>0, SavedKnown DEF Saved
<1>15. \A a \in Accounts : a # a0 /\ accounts[a] # NoRow => accounts[a].ref # new.ref
  <2> SUFFICES ASSUME NEW a \in Accounts, a # a0, accounts[a] # NoRow, accounts[a].ref = new.ref PROVE FALSE OBVIOUS
  <2>1. Has(accounts[a], new.ref) BY DEF Has
  <2>2. Has(old, new.ref) BY <1>7, <1>13, <2>1
  <2> QED BY <1>0, <1>5, <2>1, <2>2 DEF Safe, AccountsOwn, Has
<1>16. AccountsOwn' BY <1>5, <1>7, <1>14, <1>0, <1>15 DEF Safe, AccountsOwn
<1>17. \A q \in Procs, r \in Refs : Drops(q, r)' => (q # p /\ Drops(q, r)) \/ (q = p /\ Has(old, r) /\ r # new.ref)
  BY <1>1, <1>2, <1>6 DEF Drops
<1>18. Dropped'
  <2> SUFFICES ASSUME NEW q \in Procs, NEW r \in Refs, NEW a \in Accounts, Drops(q, r)', Has(accounts'[a], r) PROVE FALSE
    BY DEF Dropped, Has
  <2>1. CASE q # p /\ Drops(q, r)
    <3>1. ~Has(accounts[a], r) BY <1>0, <2>1 DEF Safe, Dropped
    <3>2. a = a0 /\ r = new.ref BY <1>5, <3>1 DEF Has
    <3>3. ~Has(old, r) BY <1>0, <1>5, <2>1 DEF Safe, Dropped
    <3>4. act[q] # NoRow /\ Has(act[q].old, r) BY <1>0, <2>1, Busy DEF Drops
    <3>5. Cited(r) BY <3>4 DEF Cited
    <3> QED BY <1>7, <3>2, <3>3, <3>5
  <2>2. CASE q = p /\ Has(old, r) /\ r # new.ref BY <1>5, <2>2, <1>0 DEF Has, Safe, AccountsOwn
  <2> QED BY <1>17, <2>1, <2>2
<1>19. ASSUME ~together
       PROVE  Alone' /\ RowsBacked' /\ SideBacked' /\ ActBacked' /\ DroppedRows' /\ OneServer'
  <2>1. Alone /\ RowsBacked /\ SideBacked /\ ActBacked /\ DroppedRows /\ OneServer BY <1>19 DEF IInv, Orderly
  <2>2. \A q \in Procs : q # p => q \notin running /\ pc[q] = "idle" /\ act[q] = NoRow /\ side[q] = NoServers
    BY <1>1, <1>19, OthersIdle
  <2>3. Alone' BY <2>1 DEF Alone
  <2>4. RowsBacked'
    <3> SUFFICES ASSUME NEW s \in Servers, rows'[s] # NoRow PROVE Backed(rows[s])' BY DEF RowsBacked
    <3>1. CASE s \in users BY <1>5, <3>1, <1>7 DEF Backed
    <3>2. CASE s \notin users
      <4>1. rows'[s] = rows[s] /\ rows[s] # NoRow BY <1>5, <3>2
      <4>2. Backed(rows[s]) BY <2>1, <4>1 DEF RowsBacked
      <4>3. ASSUME rows[s].ref \in managed PROVE \E a \in Accounts : accounts'[a] = rows[s]
        <5>1. PICK a \in Accounts : accounts[a] = rows[s] BY <4>2, <4>3 DEF Backed
        <5>2. a # a0 BY <1>4, <1>5, <3>2, <4>1, <5>1
        <5> QED BY <1>5, <5>1, <5>2
      <4> QED BY <4>1, <4>2, <4>3 DEF Backed
    <3> QED BY <3>1, <3>2
  <2>5. SideBacked' BY <1>1, <1>6, <2>2, <1>2, <1>4, <1>5, <2>1 DEF Leaving, NoServers, SideBacked
  <2>6. ActBacked' BY <1>1, <2>2 DEF ActBacked
  <2>7. DroppedRows'
    <3> SUFFICES ASSUME NEW q \in Procs, NEW r \in Refs, NEW s \in Servers, Drops(q, r)', Has(rows'[s], r) PROVE FALSE
      BY DEF DroppedRows, Has
    <3>1. Has(old, r) /\ r # new.ref BY <1>17, <2>2 DEF Drops
    <3> QED BY <1>4, <1>5, <3>1 DEF Has
  <2>8. OneServer' BY <1>5, <1>7, <2>1 DEF Has, Mentions, Planned, OneServer
  <2> QED BY <2>3, <2>4, <2>5, <2>6, <2>7, <2>8
<1>20. Orderly' BY <1>19 DEF Orderly
<1> QED BY <1>8, <1>9, <1>10, <1>12, <1>16, <1>18, <1>20 DEF IInv, Safe

\* The transaction, whether it succeeds or not.
LEMMA CommitKeeps ==
    ASSUME IInv, NEW p \in Procs, Commit(p)
    PROVE  IInv'
<1> DEFINE a == act[p]
           users == IF a.old = NoRow THEN {} ELSE Using(a.old.ref)
<1>1. pc[p] = "commit" /\ UNCHANGED <<made, managed, running, together, side, list, pane, login, acts>>
  BY DEF Commit, copies
<1>2. CASE /\ accounts[a.id] = a.old
           /\ accounts' = [accounts EXCEPT ![a.id] = a.new]
           /\ rows' = [s \in Servers |-> IF s \in users THEN a.new ELSE rows[s]]
           /\ Go(p, "drop")
           /\ UNCHANGED <<store, faults, act>> BY <1>1, <1>2, CommitChanges
<1>3. CASE /\ IF a.old # NoRow /\ a.new.ref = a.old.ref
              THEN UNCHANGED <<store, act>>
              ELSE /\ store' \in {store, store \ {a.new.ref}}
                   /\ act' = [act EXCEPT ![p].new.ref = NoRef]
           /\ Go(p, "open")
           /\ UNCHANGED <<rows, accounts>>
           /\ Fault \/ UNCHANGED faults BY <1>1, <1>3, CommitFails
<1> QED BY <1>2, <1>3 DEF Commit

\* What the sidebar, the list and the pane are after savedCredentialsChanged.
LEMMA RefreshedEffect ==
    ASSUME TypeOK, NEW p \in Procs, Refreshed(p)
    PROVE  /\ list' \in [Procs -> [Accounts -> Maybe(Rows)]] /\ list'[p] = accounts
           /\ side' \in [Procs -> [Servers -> Maybe(Rows)]]
           /\ \/ side'[p] = rows
              \/ /\ side'[p] = side[p]
                 /\ \A s \in Servers : side[p][s] # NoRow /\ rows[s] # NoRow => side[p][s] = rows[s]
           /\ \A q \in Procs : q # p => side'[q] = side[q] /\ list'[q] = list[q] /\ pane'[q] = pane[q]
           /\ pane' \in [Procs -> Maybe(Panes)]
           /\ pane'[p] # NoRow => /\ pane[p] # NoRow
                                  /\ \/ pane'[p].row = pane[p].row
                                     \/ \E s \in Servers : rows[s] # NoRow /\ pane'[p].row = rows[s]
<1> DEFINE shown == {s \in Servers : rows[s] # NoRow /\ side[p][s] # NoRow}
           stale == {s \in shown : side[p][s] # rows[s]}
<1>1. /\ list' = [list EXCEPT ![p] = accounts]
      /\ side' = IF stale = {} THEN side ELSE [side EXCEPT ![p] = rows]
      /\ pane' = IF pane[p] # NoRow /\ pane[p].server \in stale
                 THEN Repaned(p, pane[p].server, rows[pane[p].server]) ELSE pane BY DEF Refreshed
<1>2. /\ rows \in [Servers -> Maybe(Rows)] /\ accounts \in [Accounts -> Maybe(Rows)]
      /\ side \in [Procs -> [Servers -> Maybe(Rows)]] /\ list \in [Procs -> [Accounts -> Maybe(Rows)]]
      /\ pane \in [Procs -> Maybe(Panes)] BY Typed
<1>3. /\ list' \in [Procs -> [Accounts -> Maybe(Rows)]] /\ list'[p] = accounts
      /\ \A q \in Procs : q # p => list'[q] = list[q] BY <1>1, <1>2
<1>4. CASE stale = {} BY <1>1, <1>4, <1>2, <1>3
<1>5. CASE stale # {}
  <2>1. side' \in [Procs -> [Servers -> Maybe(Rows)]] /\ side'[p] = rows /\ \A q \in Procs : q # p => side'[q] = side[q]
    BY <1>1, <1>2, <1>5
  <2>2. CASE pane[p] # NoRow /\ pane[p].server \in stale
    <3>1. PICK s \in Servers, row \in Rows : s = pane[p].server /\ row = rows[s] /\ rows[s] # NoRow
      BY <1>2, <2>2 DEF Maybe
    <3>2. pane' = Repaned(p, s, row) BY <1>1, <2>2, <3>1
    <3>3. /\ pane' \in [Procs -> Maybe(Panes)]
          /\ \A q \in Procs : pane'[q] # NoRow =>
               /\ pane[q] # NoRow /\ pane'[q].row \in {pane[q].row, row}
               /\ q # p => pane'[q] = pane[q]
          /\ \A q \in Procs : pane[q] = NoRow => pane'[q] = NoRow BY <3>2, RepanedTyped
    <3>4. \A q \in Procs : q # p => pane'[q] = pane[q] BY <1>2, <3>2 DEF Repaned
    <3> QED BY <1>3, <2>1, <3>1, <3>3, <3>4
  <2>3. CASE ~(pane[p] # NoRow /\ pane[p].server \in stale) BY <1>1, <2>3, <1>2, <1>3, <2>1
  <2> QED BY <2>2, <2>3
<1> QED BY <1>4, <1>5

\* The secret that nothing refers to any more is removed.
LEMMA DropKeeps ==
    ASSUME IInv, NEW p \in Procs, Drop(p)
    PROVE  IInv'
<1>0. Safe /\ TypeOK BY DEF IInv, Safe
<1> DEFINE a == act[p]
           dropped == CASE a.kind = "deleteServer" -> IF Owned(a.old.ref) THEN a.old.ref ELSE NoRef
                        [] a.kind = "deleteAccount" -> a.old.ref
                        [] OTHER -> IF a.old # NoRow /\ a.old.ref # a.new.ref THEN a.old.ref ELSE NoRef
<1>1. /\ pc[p] = "drop" /\ Forget(dropped) /\ Done(p)
      /\ IF a.kind = "deleteServer"
         THEN side' = [side EXCEPT ![p][a.id] = NoRow] /\ UNCHANGED <<list, pane>>
         ELSE Refreshed(p)
      /\ UNCHANGED <<rows, accounts, made, managed, running, together, login, acts>> BY DEF Drop
<1>2. a \in Acts /\ a # NoRow /\ FormedAct(a, "drop") /\ p \in running BY <1>0, <1>1, Busy DEF Safe, Formed, Away
<1>3. a.kind \in {"deleteServer", "deleteAccount", "account"} BY <1>2, Parts DEF FormedAct, Kinds
<1>4. PICK d : /\ store' = store \/ store' = store \ {d}
               /\ d # NoRef => /\ Has(a.old, d)
                               /\ a.kind = "deleteServer" => d \notin managed
                               /\ a.kind = "account" => a.new.ref # d
  BY <1>1, <1>2, <1>3 DEF Forget, FormedAct, Owned, Has
<1> HIDE DEF dropped
<1>5. d # NoRef => d \in Refs /\ Cited(d) /\ (a.kind # "deleteServer" => Drops(p, d))
  <2> SUFFICES ASSUME d # NoRef PROVE d \in Refs /\ Cited(d) /\ (a.kind # "deleteServer" => Drops(p, d)) OBVIOUS
  <2>1. Has(a.old, d) BY <1>4
  <2>2. a.old \in Rows BY <1>2, <2>1, Parts DEF Has
  <2>3. d \in Refs BY <2>1, <2>2, Parts DEF Has
  <2>4. Cited(d) BY <1>2, <2>1 DEF Cited
  <2> QED BY <1>1, <1>4, <2>1, <2>3, <2>4 DEF Drops
<1>6. \A r \in Refs : r \in store /\ (d = NoRef \/ r # d) => r \in store' BY <1>4 DEF Refs, NoRef
<1>7. faults' \in 0 .. MaxFaults BY <1>0, <1>1, Typed, SizeAssumption DEF Forget, Fault
<1>8. pc'[p] = "idle" /\ act'[p] = NoRow /\ \A q \in Procs : q # p => pc'[q] = pc[q] /\ act'[q] = act[q]
  BY <1>0, <1>1, Typed DEF Done, Go
<1>9. /\ list' \in [Procs -> [Accounts -> Maybe(Rows)]] /\ side' \in [Procs -> [Servers -> Maybe(Rows)]]
      /\ pane' \in [Procs -> Maybe(Panes)]
      /\ list'[p] \in {list[p], accounts}
      /\ \A q \in Procs : q # p => side'[q] = side[q] /\ list'[q] = list[q] /\ pane'[q] = pane[q]
      /\ \A s \in Servers : side'[p][s] \in {side[p][s], rows[s], NoRow}
      /\ pane'[p] # NoRow => /\ pane[p] # NoRow
                             /\ \/ pane'[p].row = pane[p].row
                                \/ \E s \in Servers : rows[s] # NoRow /\ pane'[p].row = rows[s]
  <2>1. CASE a.kind = "deleteServer"
    <3>1. side' = [side EXCEPT ![p][a.id] = NoRow] /\ UNCHANGED <<list, pane>> BY <1>1, <2>1
    <3>2. /\ side \in [Procs -> [Servers -> Maybe(Rows)]] /\ list \in [Procs -> [Accounts -> Maybe(Rows)]]
          /\ pane \in [Procs -> Maybe(Panes)] BY <1>0, Typed
    <3>3. side' \in [Procs -> [Servers -> Maybe(Rows)]] BY <3>1, <3>2 DEF Maybe
    <3> QED BY <3>1, <3>2, <3>3
  <2>2. CASE a.kind # "deleteServer" BY <1>1, <2>2, <1>0, RefreshedEffect
  <2> QED BY <2>1, <2>2
<1>10. TypeOK' BY <1>0, <1>1, <1>4, <1>7, <1>9, GoTyped, Typed, TypedThen
<1>11. Formed' BY <1>0, <1>1, <1>8 DEF Safe, Formed, FormedAct
<1>12. Away' BY <1>0, <1>1, <1>2, <1>8, <1>9 DEF Safe, AccountsOwn, Away
<1>13. \A r \in Refs : Cited(r)' => Cited(r)
  <2>1. \A q \in Procs, s \in Servers, r \in Refs : Has(side'[q][s], r) => Has(side[q][s], r) \/ Has(rows[s], r)
    BY <1>9 DEF Has
  <2>2. \A q \in Procs, b \in Accounts, r \in Refs : Has(list'[q][b], r) => Has(list[q][b], r) \/ Has(accounts[b], r)
    BY <1>9 DEF Has
  <2>3. \A q \in Procs, r \in Refs :
          pane'[q] # NoRow /\ pane'[q].row.ref = r =>
             (pane[q] # NoRow /\ pane[q].row.ref = r) \/ (\E s \in Servers : Has(rows[s], r)) BY <1>9 DEF Has
  <2>4. \A q \in Procs, r \in Refs :
          act'[q] # NoRow /\ Has(act'[q].old, r) => act[q] # NoRow /\ Has(act[q].old, r) BY <1>8
  <2> QED BY <1>1, <2>1, <2>2, <2>3, <2>4 DEF Cited, Has
<1>14. Own' /\ Bounded' BY <1>8, <1>0, <1>1, <1>5, <1>6, <1>13, OwnKept DEF Planned, Safe, Own, Remembers, Commits
<1>15. AccountsOwn' BY <1>0, <1>4, <1>5, <1>6, <1>1, SavedKnown DEF Saved, Safe, Dropped, Has, AccountsOwn
<1>16. \A q \in Procs, r \in Refs : Drops(q, r)' => Drops(q, r) /\ q # p BY <1>8 DEF Drops
<1>17. Dropped' BY <1>0, <1>1, <1>16 DEF Safe, Dropped, Has
<1>18. ASSUME ~together
       PROVE  Alone' /\ RowsBacked' /\ SideBacked' /\ ActBacked' /\ DroppedRows' /\ OneServer'
  <2>1. Alone /\ RowsBacked /\ SideBacked /\ ActBacked /\ DroppedRows /\ OneServer BY <1>18 DEF IInv, Orderly
  <2>2. \A q \in Procs : q # p => q \notin running /\ pc[q] = "idle" /\ act[q] = NoRow /\ side[q] = NoServers
    BY <1>2, <1>18, OthersIdle
  <2>3. Alone' BY <1>1, <2>1 DEF Alone
  <2>4. a.kind = "deleteServer" => a.id \in Servers /\ Leaving(p, a.id) /\ rows[a.id] = NoRow
    BY <1>1, <1>2, <2>1 DEF Leaving, FormedAct, SideBacked
  <2>5. a.kind = "deleteServer" /\ d # NoRef => \A s \in Servers : Mentions(s, d) => s = a.id
    <3> SUFFICES ASSUME a.kind = "deleteServer", d # NoRef, NEW s \in Servers, Mentions(s, d) PROVE s = a.id OBVIOUS
    <3>1. Mentions(a.id, d) BY <1>2, <1>4 DEF Mentions
    <3> QED BY <1>4, <1>5, <2>1, <2>4, <3>1 DEF OneServer
  <2>6. \A s \in Servers : rows[s] # NoRow => Backed(rows[s])'
    <3> SUFFICES ASSUME NEW s \in Servers, rows[s] # NoRow PROVE Backed(rows[s])' OBVIOUS
    <3>1. Backed(rows[s]) BY <2>1 DEF RowsBacked
    <3>2. d # NoRef => rows[s].ref # d BY <2>4, <2>5, <1>5, <2>1 DEF Mentions, Has, DroppedRows
    <3>3. rows[s].ref \in Refs BY <1>0, <3>1, Typed, Parts DEF Maybe, Backed, NoRef
    <3> QED BY <1>1, <1>6, <3>1, <3>2, <3>3 DEF Backed
  <2>7. RowsBacked' BY <1>1, <2>6 DEF RowsBacked, Backed
  <2>8. \A s \in Servers : side'[p][s] # NoRow => Backed(side[p][s])'
    <3>1. CASE a.kind = "deleteServer"
      <4> SUFFICES ASSUME NEW s \in Servers, side'[p][s] # NoRow PROVE Backed(side[p][s])' OBVIOUS
      <4>1. side \in [Procs -> [Servers -> Maybe(Rows)]] BY <1>0, Typed
      <4>2. s # a.id /\ side'[p][s] = side[p][s] BY <1>1, <2>4, <3>1, <4>1
      <4>3. Backed(side[p][s]) BY <2>1, <3>1, <4>2 DEF SideBacked, Leaving
      <4>4. d # NoRef => side[p][s].ref # d BY <2>5, <3>1, <4>2 DEF Mentions, Has
      <4>5. side[p][s].ref \in Refs BY <1>0, <4>1, <4>2, <4>3, Typed, Parts DEF Maybe, Backed, NoRef
      <4> QED BY <1>1, <1>6, <4>2, <4>3, <4>4, <4>5 DEF Backed
    <3>2. CASE a.kind # "deleteServer"
      BY <1>0, <1>1, <3>2, <1>2, <2>1, <2>6, RefreshedEffect DEF SideBacked, Leaving, Backed
    <3> QED BY <3>1, <3>2
  <2>9. \A s \in Servers : side'[p][s] = NoRow <=> rows[s] = NoRow
    <3>1. CASE a.kind = "deleteServer" BY <1>0, <1>1, <2>4, <3>1, <1>2, <2>1, Typed DEF SideBacked, Leaving
    <3>2. CASE a.kind # "deleteServer" BY <1>0, <1>1, <3>2, <1>2, <2>1, RefreshedEffect DEF SideBacked, Leaving
    <3> QED BY <3>1, <3>2
  <2>10. \A q \in Procs : pc'[q] = "idle" /\ act'[q] = NoRow BY <1>8, <2>2
  <2>11. SideBacked' BY <2>10, <1>9, <2>2, <1>1, <2>9, <2>8 DEF Leaving, NoServers, SideBacked
  <2>12. ActBacked' /\ DroppedRows' BY <2>10 DEF ActBacked, DroppedRows, Drops
  <2>13. OneServer'
    <3>1. \A q \in Procs, s \in Servers, r \in Refs : Has(side'[q][s], r) => Has(side[q][s], r) \/ Has(rows[s], r)
      BY <1>9 DEF Has
    <3>2. \A s \in Servers, r \in Refs : Mentions(s, r)' => Mentions(s, r) BY <1>1, <2>10, <3>1 DEF Mentions, Has
    <3> QED BY <1>1, <2>1, <3>2 DEF OneServer
  <2> QED BY <2>3, <2>7, <2>11, <2>12, <2>13
<1>19. Orderly' BY <1>1, <1>18 DEF Orderly
<1> QED BY <1>10, <1>11, <1>12, <1>14, <1>15, <1>17, <1>19 DEF IInv, Safe

\* A remembered password is stored, or the login ends without.
LEMMA RememberKeeps ==
    ASSUME IInv, NEW p \in Procs, Remember(p)
    PROVE  IInv'
<1>0. Safe /\ TypeOK BY DEF IInv, Safe
<1>1. /\ p \in running /\ login[p] # NoRow
      /\ UNCHANGED <<rows, accounts, running, together, side, list, pane, pc, act, acts>>
  BY DEF Remember, Waits, control
<1>2. login[p] \in Logins /\ login \in [Procs -> Maybe(Logins)] BY <1>0, <1>1, Busy, Typed
<1>3. CASE /\ (rows[login[p].server] # login[p].row /\ UNCHANGED faults) \/ Fault
           /\ login' = [login EXCEPT ![p] = NoRow]
           /\ UNCHANGED <<store, made, managed>>
  <2>1. /\ login' \in [Procs -> Maybe(Logins)] /\ login'[p] = NoRow
        /\ \A q \in Procs : q # p => login'[q] = login[q] BY <1>2, <1>3 DEF Maybe
  <2>2. faults' \in 0 .. MaxFaults BY <1>0, <1>3, Typed, SizeAssumption DEF Fault
  <2>3. TypeOK' BY <1>0, <1>1, <1>3, <2>1, <2>2, Typed, TypedThen
  <2>4. \A r \in Refs : pane'[p] # NoRow /\ pane'[p].row.ref = r => Cited(r) BY <1>1 DEF Cited
  <2>5. \A r \in Refs : Remembers(p, r)' => Remembers(p, r) BY <2>1 DEF Remembers
  <2> QED BY <1>1, <1>3, <2>1, <2>3, <2>4, <2>5, PaneKeeps
<1>4. CASE NewSecret(FALSE) /\ login' = [login EXCEPT ![p].ref = made'] /\ UNCHANGED faults
  <2>1. /\ made' \in Nat /\ made' <= MaxRefs /\ store' \subseteq 1 .. made' /\ managed' \subseteq 1 .. made'
        /\ made' \in Refs /\ made' \in store' /\ made' \notin managed'
        /\ ~Cited(made') /\ \A q \in Procs : ~Planned(q, made') /\ ~Remembers(q, made') /\ ~Commits(q, made')
        /\ \A r \in Refs : r # made' => (r \in store' <=> r \in store)
        /\ \A r \in Refs : r <= made => r <= made'
        /\ store \subseteq store' /\ managed' = managed /\ AccountsOwn' BY <1>4, <1>1, SecretMade DEF NewSecret
  <2>2. PICK l \in Logins : login' = [login EXCEPT ![p] = l] /\ l.row = login[p].row /\ l.ref = made'
    <3>1. PICK r \in Refs \cup {NoRef} : r = made' BY <2>1
    <3>2. login' = [login EXCEPT ![p].ref = r] BY <1>4, <3>1
    <3>3. \E l \in Logins : /\ login' = [login EXCEPT ![p] = l]
                            /\ l.server = login[p].server /\ l.row = login[p].row /\ l.ref = r
      BY <1>2, <3>2, LoginWith
    <3> QED BY <3>1, <3>3
  <2>3. /\ login' \in [Procs -> Maybe(Logins)] /\ login'[p] = l /\ l # NoRow
        /\ \A q \in Procs : q # p => login'[q] = login[q] BY <1>2, <2>2, Parts DEF Maybe
  <2>4. TypeOK' BY <1>0, <1>1, <1>4, <2>1, <2>3, Typed, TypedThen
  <2>5. Formed' BY <1>0, <1>1, <2>1 DEF Safe, Formed, FormedAct
  <2>6. Away' BY <1>0, <1>1, <2>1, <2>3 DEF Safe, Away
  <2>7. \A r \in Refs : Cited(r)' <=> Cited(r) BY <1>1, <2>2, <2>3 DEF Cited, Has
  <2>8. \A q \in Procs, r \in Refs : /\ Planned(q, r)' <=> Planned(q, r)
                                     /\ Remembers(q, r)' => (q = p /\ r = made') \/ (q # p /\ Remembers(q, r))
                                     /\ Commits(q, r)' <=> Commits(q, r)
    BY <1>1, <2>2, <2>3 DEF Planned, Remembers, Commits
  <2>9. Bounded' BY <1>0, <2>1, <2>7, <2>8 DEF Safe, Bounded
  <2>10. Own'
    <3>1. Own BY <1>0 DEF Safe
    <3> SUFFICES ASSUME NEW q \in Procs, NEW r \in Refs, Remembers(q, r)' \/ Commits(q, r)'
                 PROVE  /\ r \in store' /\ ~Cited(r)'
                        /\ \A o \in Procs : o # q => ~Planned(o, r)' /\ ~Remembers(o, r)'
                        /\ Remembers(q, r)' => ~Planned(q, r)' /\ r \notin managed' BY DEF Own
    <3>2. CASE r = made' BY <2>1, <2>7, <2>8, <3>2
    <3>3. CASE r # made' BY <2>8, <3>3, <3>1, <2>1, <2>7 DEF Own
    <3> QED BY <3>2, <3>3
  <2>11. Dropped' BY <1>0, <1>1 DEF Safe, Dropped, Drops, Has
  <2>12. ASSUME ~together
         PROVE  Alone' /\ RowsBacked' /\ SideBacked' /\ ActBacked' /\ DroppedRows' /\ OneServer'
    <3>1. Alone /\ RowsBacked /\ SideBacked /\ ActBacked /\ DroppedRows /\ OneServer BY <2>12 DEF IInv, Orderly
    <3>2. Alone' /\ RowsBacked' BY <1>1, <2>1, <3>1 DEF Alone, RowsBacked, Backed
    <3>3. SideBacked' BY <1>1, <2>1, <3>1 DEF SideBacked, Backed, Leaving
    <3>4. ActBacked' BY <1>1, <2>1, <3>1 DEF ActBacked, Backed
    <3>5. DroppedRows' BY <1>1, <3>1 DEF DroppedRows, Drops, Has
    <3>6. OneServer' BY <1>1, <2>1, <3>1 DEF OneServer, Mentions, Planned, Has
    <3> QED BY <3>2, <3>3, <3>4, <3>5, <3>6
  <2>13. Orderly' BY <1>1, <2>12 DEF Orderly
  <2> QED BY <2>1, <2>4, <2>5, <2>6, <2>9, <2>10, <2>11, <2>13 DEF IInv, Safe
<1> QED BY <1>3, <1>4 DEF Remember

\* A login that ends without its new secret, which may be removed again.
LEMMA SwapFails ==
    ASSUME IInv, NEW p \in Procs, login[p] # NoRow, login[p].ref # NoRef,
           store' \in {store, store \ {login[p].ref}}, faults' \in 0 .. MaxFaults,
           login' = [login EXCEPT ![p] = NoRow],
           UNCHANGED <<rows, accounts, made, managed, running, together, side, list, pane, pc, act, acts>>
    PROVE  IInv'
<1>0. Safe /\ TypeOK BY DEF IInv, Safe
<1>1. login[p] \in Logins /\ login \in [Procs -> Maybe(Logins)] BY <1>0, Busy, Typed
<1>2. PICK d \in Refs : d = login[p].ref BY <1>1, Parts
<1>3. /\ d \in store /\ ~Cited(d) /\ d \notin managed /\ \A q \in Procs : ~Planned(q, d)
      /\ \A q \in Procs : q # p => ~Remembers(q, d) BY <1>2, <1>0 DEF Remembers, Safe, Own
<1>4. \A r \in Refs : r \in store /\ r # d => r \in store' BY <1>2
<1>5. login' \in [Procs -> Maybe(Logins)] /\ login'[p] = NoRow /\ \A q \in Procs : q # p => login'[q] = login[q]
  BY <1>1 DEF Maybe
<1>6. store' \subseteq 1 .. made BY <1>0, Typed
<1>7. TypeOK' BY <1>0, <1>5, <1>6, Typed, TypedThen
<1>8. Formed' BY <1>0 DEF Safe, Formed, FormedAct
<1>9. Away' BY <1>0, <1>5 DEF Safe, Away
<1>10. \A r \in Refs : Cited(r)' => Cited(r) BY <1>5 DEF Cited, Has
<1>11. Own' /\ Bounded' BY <1>0, <1>3, <1>4, <1>5, <1>10, Busy, OwnKept DEF Planned, Safe, Own, Remembers, Commits
<1>12. AccountsOwn' BY <1>0, <1>3, <1>4, SavedKnown DEF Saved, Safe, AccountsOwn
<1>13. Dropped' BY <1>0 DEF Safe, Dropped, Drops, Has
<1>14. ASSUME ~together
       PROVE  Alone' /\ RowsBacked' /\ SideBacked' /\ ActBacked' /\ DroppedRows' /\ OneServer'
  <2>1. Alone /\ RowsBacked /\ SideBacked /\ ActBacked /\ DroppedRows /\ OneServer BY <1>14 DEF IInv, Orderly
  <2>2. \A row : Backed(row) /\ row.ref # d => Backed(row)' BY <1>2 DEF Backed
  <2>3. \A s \in Servers : /\ rows[s] # NoRow => rows[s].ref # d
                           /\ \A q \in Procs : side[q][s] # NoRow => side[q][s].ref # d BY <1>3 DEF Cited, Has
  <2>4. \A q \in Procs : act[q] # NoRow => act[q].new.ref # d BY <1>3 DEF Planned
  <2>5. RowsBacked' BY <2>1, <2>3, <1>2 DEF RowsBacked, Backed
  <2>6. SideBacked' BY <1>2, <2>1, <2>3 DEF SideBacked, Backed, Leaving
  <2>7. ActBacked' BY <1>2, <2>4, <2>1 DEF ActBacked, Backed
  <2>8. DroppedRows' BY <2>1 DEF DroppedRows, Drops, Has
  <2>9. OneServer' BY <2>1 DEF OneServer, Mentions, Planned, Has
  <2>10. Alone' BY <2>1 DEF Alone
  <2> QED BY <2>5, <2>6, <2>7, <2>8, <2>9, <2>10
<1>15. Orderly' BY <1>14 DEF Orderly
<1> QED BY <1>7, <1>8, <1>9, <1>11, <1>12, <1>13, <1>15 DEF IInv, Safe

\* A remembered password is put in the row of the server it was typed for.
LEMMA SwapChanges ==
    ASSUME IInv, NEW p \in Procs, NEW s0 \in Servers, NEW saved \in Rows,
           login[p] # NoRow, pane[p] # NoRow, saved.ref = login[p].ref, saved.ref \in Refs,
           rows[s0] # NoRow, rows' = [rows EXCEPT ![s0] = saved],
           pane' = [pane EXCEPT ![p].row = IF pane[p].edited THEN @ ELSE saved],
           side' = IF pane[p].bound /\ side[p][s0] # NoRow THEN [side EXCEPT ![p][s0] = saved] ELSE side,
           login' = [login EXCEPT ![p] = NoRow],
           UNCHANGED <<accounts, store, made, managed, running, together, list, pc, act, acts, faults>>
    PROVE  IInv'
<1>0. Safe /\ TypeOK BY DEF IInv, Safe
<1>1. p \in running BY <1>0 DEF Safe, Away
<1>2. PICK d \in Refs : d = saved.ref OBVIOUS
<1>3. /\ Remembers(p, d) /\ d \in store /\ ~Cited(d) /\ d \notin managed /\ \A q \in Procs : ~Planned(q, d)
      /\ \A q \in Procs : q # p => ~Remembers(q, d) BY <1>2, <1>0 DEF Remembers, Safe, Own
<1>4. /\ rows \in [Servers -> Maybe(Rows)] /\ side \in [Procs -> [Servers -> Maybe(Rows)]]
      /\ login \in [Procs -> Maybe(Logins)] /\ pane \in [Procs -> Maybe(Panes)] BY <1>0, Typed
<1>5. saved # NoRow /\ saved \in Maybe(Rows) BY Parts DEF Maybe
<1>6. rows' \in [Servers -> Maybe(Rows)] /\ rows'[s0] = saved /\ \A s \in Servers : s # s0 => rows'[s] = rows[s]
  BY <1>4, <1>5
<1>7. login' \in [Procs -> Maybe(Logins)] /\ login'[p] = NoRow /\ \A q \in Procs : q # p => login'[q] = login[q]
  BY <1>4 DEF Maybe
<1>8. /\ side' \in [Procs -> [Servers -> Maybe(Rows)]] /\ \A q \in Procs : q # p => side'[q] = side[q]
      /\ \A s \in Servers : /\ s # s0 => side'[p][s] = side[p][s]
                            /\ side'[p][s0] = side[p][s0] \/ (side'[p][s0] = saved /\ side[p][s0] # NoRow)
  BY <1>4, <1>5
<1>9. PICK v \in Panes : pane' = [pane EXCEPT ![p] = v] /\ v.row \in {pane[p].row, saved}
  <2>1. pane[p] \in Panes BY <1>0, Busy
  <2>2. PICK row \in Rows : row = IF pane[p].edited THEN pane[p].row ELSE saved BY <2>1, Parts
  <2>3. pane' = [pane EXCEPT ![p].row = row] BY <1>4, <2>2
  <2>4. PICK v \in Panes : [pane EXCEPT ![p].row = row] = [pane EXCEPT ![p] = v] /\ v.row = row BY <1>0, <2>1, PaneWith
  <2> QED BY <2>2, <2>3, <2>4
<1>10. pane' \in [Procs -> Maybe(Panes)] /\ pane'[p] = v /\ \A q \in Procs : q # p => pane'[q] = pane[q]
  BY <1>4, <1>9 DEF Maybe
<1>11. TypeOK' BY <1>0, <1>6, <1>7, <1>8, <1>10, Typed, TypedThen
<1>12. Formed' BY <1>0 DEF Safe, Formed, FormedAct
<1>13. Away' BY <1>0, <1>1, <1>7, <1>8, <1>10 DEF Safe, Away
<1>14. \A r \in Refs : Cited(r)' => Cited(r) \/ r = d BY <1>2, <1>6, <1>8, <1>9, <1>10, <1>7 DEF Has, Cited
<1>15. Own' /\ Bounded'
  <2>1. \A q \in Procs, r \in Refs : Planned(q, r)' => Planned(q, r) BY DEF Planned
  <2>2. \A q \in Procs, r \in Refs : Remembers(q, r) \/ Commits(q, r) => r \in store BY <1>0 DEF Safe, Own
  <2>3. \A q \in Procs, r \in Refs : Remembers(q, r)' => Remembers(q, r) /\ r \in store'
    BY <1>7, <2>2 DEF Remembers
  <2>4. \A q \in Procs, r \in Refs : Commits(q, r)' => Commits(q, r) /\ r \in store' BY <2>2 DEF Commits
  <2>5. ~Remembers(p, d)' BY <1>7 DEF Remembers
  <2>6. \A r \in Refs : Cited(r)' =>
          \/ Cited(r)
          \/ \E q \in Procs : \/ Planned(q, r) /\ ~Commits(q, r)'
                              \/ Remembers(q, r) /\ ~Remembers(q, r)' BY <1>3, <1>14, <2>5
  <2> QED BY <1>0, <2>1, <2>3, <2>4, <2>6, OwnKept
<1>16. AccountsOwn' BY <1>0 DEF Safe, AccountsOwn
<1>17. Dropped' BY <1>0 DEF Safe, Dropped, Drops, Has
<1>18. ASSUME ~together
       PROVE  Alone' /\ RowsBacked' /\ SideBacked' /\ ActBacked' /\ DroppedRows' /\ OneServer'
  <2>1. Alone /\ RowsBacked /\ SideBacked /\ ActBacked /\ DroppedRows /\ OneServer BY <1>18 DEF IInv, Orderly
  <2>2. \A q \in Procs : q # p => q \notin running /\ pc[q] = "idle" /\ act[q] = NoRow /\ side[q] = NoServers
    BY <1>1, <1>18, OthersIdle
  <2>3. Backed(saved) BY <1>2, <1>3 DEF Backed
  <2>4. Alone' BY <2>1 DEF Alone
  <2>5. RowsBacked' BY <1>6, <2>1, <2>3 DEF RowsBacked, Backed
  <2>6. SideBacked'
    <3>1. \A q \in Procs, s \in Servers : Leaving(q, s)' <=> Leaving(q, s) BY DEF Leaving
    <3>2. \A q \in Procs, s \in Servers :
            side'[q][s] # NoRow /\ (pc[q] = "drop" => act[q].kind = "deleteServer" /\ ~Leaving(q, s)) => Backed(side'[q][s])
      BY <1>8, <2>1, <2>3 DEF SideBacked
    <3>3. \A q \in Procs, s \in Servers :
            side'[q][s] # NoRow /\ (pc'[q] = "drop" => act'[q].kind = "deleteServer" /\ ~Leaving(q, s)') => Backed(side[q][s])'
      BY <3>1, <3>2 DEF Backed
    <3>4. \A s \in Servers : ~Leaving(p, s) => (side'[p][s] = NoRow <=> rows'[s] = NoRow)
      BY <1>1, <1>5, <1>6, <1>8, <2>1 DEF SideBacked
    <3>5. \A q \in Procs, s \in Servers : q \in running' /\ ~Leaving(q, s)' => (side'[q][s] = NoRow <=> rows'[s] = NoRow)
      BY <2>2, <3>1, <3>4
    <3>6. \A q \in Procs, s \in Servers : Leaving(q, s)' => rows'[s] = NoRow BY <1>6, <2>1, <3>1 DEF SideBacked
    <3> QED BY <3>3, <3>5, <3>6 DEF SideBacked
  <2>7. ActBacked' BY <2>1 DEF ActBacked, Backed
  <2>8. DroppedRows' BY <1>0, <1>3, <1>2, <1>6, <2>1, Busy DEF Drops, Cited, Has, DroppedRows
  <2>9. OneServer' BY <1>2, <1>6, <1>8, <1>3, <2>1 DEF Has, Mentions, Planned, Cited, OneServer
  <2> QED BY <2>4, <2>5, <2>6, <2>7, <2>8, <2>9
<1>19. Orderly' BY <1>18 DEF Orderly
<1> QED BY <1>11, <1>12, <1>13, <1>15, <1>16, <1>17, <1>19 DEF IInv, Safe

\* A login is that of a pane.
Attended == \A p \in Procs : login[p] # NoRow => pane[p] # NoRow

\* The row of the login gets the new reference, or the login ends without.
LEMMA SwapKeeps ==
    ASSUME IInv, Attended, NEW p \in Procs, Swap(p)
    PROVE  IInv'
<1>0. TypeOK BY DEF IInv, Safe
<1>1. /\ login[p] # NoRow /\ login[p].ref # NoRef /\ login' = [login EXCEPT ![p] = NoRow]
      /\ UNCHANGED <<accounts, made, managed, running, together, list, pc, act, acts>> BY DEF Swap, control
<1>2. login[p] \in Logins /\ pane[p] # NoRow BY <1>0, <1>1, Busy DEF Attended
<1>3. PICK s0 \in Servers, d \in Refs : s0 = login[p].server /\ d = login[p].ref BY <1>1, <1>2, Parts
<1>4. login[p].row \in Rows /\ d \in Refs \cup {NoRef} BY <1>2, Parts
<1>5. PICK saved \in Rows : saved = [login[p].row EXCEPT !.ref = d] /\ saved.ref = d BY <1>4, RowWith
<1>6. CASE /\ rows[s0] = login[p].row
           /\ rows' = [rows EXCEPT ![s0] = saved]
           /\ pane' = [pane EXCEPT ![p].row = IF pane[p].edited THEN @ ELSE saved]
           /\ side' = IF pane[p].bound /\ side[p][s0] # NoRow THEN [side EXCEPT ![p][s0] = saved] ELSE side
           /\ UNCHANGED <<store, faults>> BY <1>4, <1>6, <1>1, <1>2, <1>3, <1>5, Parts, SwapChanges
<1>7. CASE /\ (rows[s0] # login[p].row /\ UNCHANGED faults) \/ Fault
           /\ store' \in {store, store \ {login[p].ref}}
           /\ UNCHANGED <<rows, side, pane>>
  <2>1. faults' \in 0 .. MaxFaults BY <1>0, <1>7, Typed, SizeAssumption DEF Fault
  <2> QED BY <1>1, <1>7, <2>1, SwapFails
<1> QED BY <1>3, <1>5, <1>6, <1>7 DEF Swap

----
(* The theorems. *)

\* What a process does next, one case for each operation.
Begins(p) ==
    \/ EditServer(p) \/ AddServer(p) \/ DuplicateServer(p) \/ DeleteServer(p) \/ MoveServer(p)
    \/ EditAccount(p) \/ AddAccount(p) \/ DeleteAccount(p)

\* A pane that is told of another row is still there.
LEMMA RepanedStays ==
    ASSUME TypeOK, NEW p \in Procs, NEW s, NEW row \in Rows
    PROVE  \A q \in Procs : pane[q] # NoRow => Repaned(p, s, row)[q] # NoRow
<1>1. pane \in [Procs -> Maybe(Panes)] BY Typed
<1>2. CASE pane[p] # NoRow /\ pane[p].server = s
  <2> DEFINE v == [server |-> s, row |-> row, edited |-> TRUE, bound |-> pane[p].bound]
  <2>1. v \in Panes BY <1>2, Busy DEF Panes
  <2>2. Repaned(p, s, row) = [pane EXCEPT ![p] = v] BY <1>2 DEF Repaned
  <2> HIDE DEF v
  <2> QED BY <1>1, <2>1, <2>2, Parts
<1>3. CASE ~(pane[p] # NoRow /\ pane[p].server = s) BY <1>3 DEF Repaned
<1> QED BY <1>2, <1>3

\* No pane goes before its login.
LEMMA AttendedStep ==
    ASSUME IInv, TypeOK', Attended, NEW p \in Procs,
           \/ Launch(p) \/ Kill(p) \/ Begins(p) \/ ChangeGroup(p) \/ Answer(p)
           \/ Store(p) \/ Look(p) \/ SaveRow(p) \/ DeleteRow(p) \/ Commit(p) \/ DeleteAccountRow(p) \/ Drop(p)
           \/ OpenPane(p) \/ TypePassword(p) \/ Remember(p) \/ Swap(p)
    PROVE  Attended'
<1>0. Safe /\ TypeOK BY DEF IInv, Safe
<1>1. pane \in [Procs -> Maybe(Panes)] /\ login \in [Procs -> Maybe(Logins)] BY <1>0, Typed
<1>2. CASE UNCHANGED <<pane, login>> BY <1>2 DEF Attended
<1>3. CASE UNCHANGED login /\ \A q \in Procs : pane[q] # NoRow => pane'[q] # NoRow BY <1>3 DEF Attended
<1>4. CASE \/ pane' = [pane EXCEPT ![p] = NoRow] /\ login' = [login EXCEPT ![p] = NoRow]
           \/ pane' = pane /\ login' = [login EXCEPT ![p] = NoRow] BY <1>1, <1>4 DEF Attended
<1>5. CASE Launch(p) BY <1>2, <1>5 DEF Launch
<1>6. CASE Kill(p) BY <1>4, <1>6 DEF Kill
<1>7. CASE Begins(p)
  <2>1. UNCHANGED <<pane, login>>
    BY <1>7 DEF Begins, EditServer, AddServer, DuplicateServer, DeleteServer, MoveServer,
                EditAccount, AddAccount, DeleteAccount, Begin, copies
  <2> QED BY <1>2, <2>1
<1>8. CASE ChangeGroup(p)
  <2>1. /\ pane[p] # NoRow /\ side[p][pane[p].server] # NoRow /\ UNCHANGED login
        /\ pane' = Repaned(p, pane[p].server, side[p][pane[p].server]) BY <1>8 DEF ChangeGroup
  <2>2. PICK s \in Servers, row \in Rows : s = pane[p].server /\ row = side[p][s] BY <1>0, <2>1, Busy, Parts
  <2> QED BY <1>0, <1>3, <2>1, <2>2, RepanedStays
<1>9. CASE Answer(p) BY <1>9, <1>2, <1>4 DEF Answer
<1>10. CASE Store(p) \/ Look(p) \/ DeleteRow(p) \/ Commit(p) \/ DeleteAccountRow(p)
  BY <1>2, <1>10 DEF Store, Look, DeleteRow, Commit, DeleteAccountRow, copies
<1>11. CASE SaveRow(p) BY <1>11, <1>0, <1>2, <1>3, Busy, Parts, RepanedStays DEF SaveRow
<1>12. CASE Drop(p)
  <2>1. UNCHANGED login /\ (UNCHANGED pane \/ Refreshed(p)) BY <1>12 DEF Drop
  <2>2. ASSUME Refreshed(p), pane' # pane
        PROVE  \E s \in Servers : rows[s] # NoRow /\ pane' = Repaned(p, s, rows[s])
    <3> DEFINE shown == {s \in Servers : rows[s] # NoRow /\ side[p][s] # NoRow}
               stale == {s \in shown : side[p][s] # rows[s]}
    <3>1. pane' = IF pane[p] # NoRow /\ pane[p].server \in stale
                  THEN Repaned(p, pane[p].server, rows[pane[p].server]) ELSE pane BY <2>2 DEF Refreshed
    <3> QED BY <2>2, <3>1
  <2>3. \A s \in Servers : rows[s] # NoRow => rows[s] \in Rows BY <1>0, Typed DEF Maybe
  <2> QED BY <1>0, <1>2, <1>3, <2>1, <2>2, <2>3, RepanedStays
<1>13. CASE OpenPane(p)
  <2>1. PICK s \in Servers, bound \in BOOLEAN :
          /\ pane[p] = NoRow /\ UNCHANGED login
          /\ pane' = [pane EXCEPT ![p] = [server |-> s, row |-> side[p][s], edited |-> FALSE, bound |-> bound]]
    BY <1>13 DEF OpenPane
  <2>2. \A q \in Procs : pane[q] # NoRow => pane'[q] # NoRow BY <1>1, <2>1
  <2> QED BY <1>3, <2>1, <2>2
<1>14. CASE TypePassword(p)
  <2>1. /\ pane[p] # NoRow /\ pane' = [pane EXCEPT ![p].edited = FALSE]
        /\ \A q \in Procs : q # p => login'[q] = login[q] BY <1>1, <1>14 DEF TypePassword
  <2>2. \A q \in Procs : q # p => pane'[q] = pane[q] BY <1>1, <2>1
  <2>3. pane'[p] # NoRow
    <3>1. pane[p] \in Panes BY <1>0, <2>1, Busy
    <3>2. pane[p].row \in Rows /\ FALSE \in BOOLEAN BY <3>1, Parts
    <3>3. PICK v \in Panes : [pane EXCEPT ![p].edited = FALSE] = [pane EXCEPT ![p] = v]
      BY <1>0, <3>1, <3>2, PaneWith
    <3> QED BY <1>1, <2>1, <3>3, Parts
  <2> QED BY <2>1, <2>2, <2>3 DEF Attended
<1>15. CASE Remember(p) BY <1>1, <1>15 DEF Remember, Attended
<1>16. CASE Swap(p) BY <1>1, <1>16 DEF Swap, Attended
<1> QED BY <1>5, <1>6, <1>7, <1>8, <1>9, <1>10, <1>11, <1>12, <1>13, <1>14, <1>15, <1>16

\* Each step keeps the invariant.
LEMMA InvStep == IInv /\ Attended /\ [Next]_vars => (IInv /\ Attended)'
<1> SUFFICES ASSUME IInv, Attended, [Next]_vars PROVE (IInv /\ Attended)' OBVIOUS
<1>1. CASE UNCHANGED vars
  <2>1. UNCHANGED <<rows, accounts, store, made, managed, running, together, side, list, pane, login, pc, act, acts, faults>>
    BY <1>1 DEF vars, disk, copies, control
  <2>2. TypeOK' /\ Formed' /\ Away' /\ AccountsOwn' BY <2>1 DEF IInv, Safe, TypeOK, Formed, FormedAct, Has, Away, AccountsOwn
  <2>3. Dropped' BY <2>1 DEF IInv, Safe, Dropped, Drops, Has
  <2>4. \A r \in Refs : Cited(r)' <=> Cited(r) BY <2>1 DEF Cited, Has
  <2>5. \A p \in Procs, r \in Refs : /\ Planned(p, r)' <=> Planned(p, r)
                                     /\ Remembers(p, r)' <=> Remembers(p, r)
                                     /\ Commits(p, r)' <=> Commits(p, r)
    BY <2>1 DEF Planned, Remembers, Commits, Has
  <2>6. Own /\ Bounded BY DEF IInv, Safe
  <2>7. Own' BY <2>1, <2>4, <2>5, <2>6 DEF Own
  <2>8. Bounded' BY <2>1, <2>4, <2>5, <2>6 DEF Bounded
  <2>9. Orderly' BY <2>1, SameOrder DEF IInv
  <2>10. Attended' BY <2>1 DEF Attended
  <2> QED BY <2>2, <2>3, <2>7, <2>8, <2>9, <2>10 DEF IInv, Safe
<1>2. CASE Next
  <2>1. PICK p \in Procs :
          \/ Launch(p) \/ Kill(p) \/ Begins(p) \/ ChangeGroup(p) \/ Answer(p)
          \/ Store(p) \/ Look(p) \/ SaveRow(p) \/ DeleteRow(p) \/ Commit(p) \/ DeleteAccountRow(p) \/ Drop(p)
          \/ OpenPane(p) \/ TypePassword(p) \/ Remember(p) \/ Swap(p) BY <1>2 DEF Next, Begins
  <2>2. CASE Begins(p)
    <3>1. PICK step, a : Begin(p, step, a) /\ Fitting(p, step, a) BY <2>2, Beginnings DEF Begins
    <3>2. IInv' BY <3>1, BeginKeeps
    <3> QED BY <2>2, <3>2, AttendedStep DEF IInv, Safe
  <2>3. IInv'
    <3>1. CASE Begins(p) BY <2>2, <3>1
    <3> QED BY <2>1, <3>1, LaunchKeeps, KillKeeps, ChangeGroupKeeps, AnswerKeeps, StoreKeeps, LookKeeps, SaveRowKeeps,
               DeleteRowKeeps, CommitKeeps, DeleteAccountRowKeeps, DropKeeps, OpenPaneKeeps, TypePasswordKeeps,
               RememberKeeps, SwapKeeps
  <2>4. TypeOK' BY <2>3 DEF IInv, Safe
  <2>5. Attended' BY <2>1, <2>4, AttendedStep
  <2> QED BY <2>3, <2>5
<1> QED BY <1>1, <1>2

\* The invariant of SavedCredentials: references, and who knows of them.
THEOREM Invariance == Spec => [](IInv /\ Attended)
<1>1. Init => IInv /\ Attended BY InvInit DEF Init, Attended
<1> QED BY <1>1, InvStep, PTL DEF Spec

\* A fresh reference gets into a row only by the swap of its own login.
LEMMA FitsStep ==
    ASSUME IInv, [Next]_vars, NEW p \in Procs, NEW s \in Servers,
           login[p] # NoRow, login[p].ref # NoRef, rows'[s] # rows[s], rows'[s] # NoRow, rows'[s].ref = login[p].ref
    PROVE  rows[s] # NoRow /\ rows'[s].user = rows[s].user
<1>0. Safe /\ TypeOK BY DEF IInv, Safe
<1>1. login[p] \in Logins /\ rows \in [Servers -> Maybe(Rows)] BY <1>0, Busy, Typed
<1>2. PICK r \in Refs : r = login[p].ref BY <1>1, Parts
<1>3. ~Cited(r) /\ \A q \in Procs : ~Planned(q, r) /\ (q # p => ~Remembers(q, r)) BY <1>2, <1>0 DEF Remembers, Safe, Own
<1>4. PICK q \in Procs : SaveRow(q) \/ DeleteRow(q) \/ Commit(q) \/ Swap(q)
  <2>1. rows' # rows OBVIOUS
  <2>2. Next BY <2>1 DEF vars, disk
  <2>3. PICK q \in Procs :
          \/ Launch(q) \/ Kill(q) \/ Begins(q) \/ ChangeGroup(q) \/ Answer(q)
          \/ Store(q) \/ Look(q) \/ SaveRow(q) \/ DeleteRow(q) \/ Commit(q) \/ DeleteAccountRow(q) \/ Drop(q)
          \/ OpenPane(q) \/ TypePassword(q) \/ Remember(q) \/ Swap(q) BY <2>2 DEF Next, Begins
  <2>4. ~Begins(q) BY <2>1 DEF Begins, EditServer, AddServer, DuplicateServer, DeleteServer, MoveServer,
                EditAccount, AddAccount, DeleteAccount, Begin, disk
  <2>5. ~(Launch(q) \/ Kill(q) \/ ChangeGroup(q) \/ Answer(q) \/ OpenPane(q) \/ TypePassword(q))
    BY <2>1 DEF Launch, Kill, ChangeGroup, Answer, OpenPane, TypePassword, disk
  <2>6. ~(Store(q) \/ Look(q) \/ DeleteAccountRow(q) \/ Drop(q) \/ Remember(q))
    BY <2>1 DEF Store, Look, DeleteAccountRow, Drop, Remember, disk
  <2> QED BY <2>3, <2>4, <2>5, <2>6
<1>5. CASE SaveRow(q) BY <1>5, <1>0, <1>1, <1>2, <1>3, Busy DEF SaveRow, Planned
<1>6. CASE DeleteRow(q) BY <1>1, <1>6 DEF DeleteRow
<1>7. CASE Commit(q) BY <1>7, <1>0, <1>2, <1>3, Busy DEF Commit, Planned
<1>8. CASE Swap(q)
  <2>1. /\ login[q] # NoRow /\ login[q].ref # NoRef /\ rows[login[q].server] = login[q].row
        /\ rows' = [rows EXCEPT ![login[q].server] = [login[q].row EXCEPT !.ref = login[q].ref]]
    BY <1>8 DEF Swap
  <2>2. login[q] \in Logins BY <1>0, <2>1, Busy
  <2>3. PICK d \in Refs \cup {NoRef}, row \in Rows : d = login[q].ref /\ row = login[q].row BY <2>2, Parts
  <2>4. s = login[q].server /\ rows[s] = row /\ rows'[s] = [row EXCEPT !.ref = d] BY <1>1, <2>1, <2>3
  <2> QED BY <2>3, <2>4, RowWith, Parts
<1> QED BY <1>4, <1>5, <1>6, <1>7, <1>8

\* However many processes edit and delete accounts and servers from stale
\* copies, and whatever fails: references are right (SavedCredentialManager).
THEOREM ReferencesCorrect == Spec => ReferencesAreRight
<1> DEFINE Fits ==
      \A p \in Procs, s \in Servers :
        login[p] # NoRow /\ login[p].ref # NoRef /\ rows'[s] # rows[s]
            /\ rows'[s] # NoRow /\ rows'[s].ref = login[p].ref
          => rows[s] # NoRow /\ rows'[s].user = rows[s].user
<1>1. IInv => TypeOK /\ AccountsAreStored /\ ServersAreStored
  <2> SUFFICES ASSUME IInv PROVE TypeOK /\ AccountsAreStored /\ ServersAreStored OBVIOUS
  <2>1. TypeOK /\ AccountsAreStored BY DEF IInv, Safe, AccountsOwn, AccountsAreStored
  <2>2. ServersAreStored BY DEF IInv, Orderly, RowsBacked, Backed, ServersAreStored
  <2> QED BY <2>1, <2>2
<1>2. IInv /\ [Next]_vars => [Fits]_vars BY FitsStep
<1>3. Spec => [](TypeOK /\ AccountsAreStored /\ ServersAreStored) BY <1>1, Invariance, PTL
<1>4. Spec => [][Fits]_vars
  <2> HIDE DEF Fits
  <2> QED BY <1>2, Invariance, PTL DEF Spec
<1>5. Spec => RememberedFits BY <1>4 DEF RememberedFits
<1> QED BY <1>3, <1>5 DEF ReferencesAreRight

====
