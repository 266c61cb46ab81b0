---------------------------- MODULE LocalVault_proofs ----------------------------
(* Proofs about LocalVault, for any processes, references, secrets and keys:    *)
(* the two files and their disk copies implement the store of SecretStore.      *)
EXTENDS LocalVault, TLAPS

----
(* The inductive invariant. *)

\* What a reader of a data file finds.
Opened(d) == IF d = NoFile THEN Empty ELSE d.entries

\* Every data file that the disk may hold has a key, which then is alone there.
Fits ==
    \/ dataDisk = {NoFile}
    \/ /\ keyFile # NoFile /\ keyDisk = {keyFile} /\ keyFile.links = 1
       /\ \A d \in dataDisk : d = NoFile \/ d.key = keyFile.key

\* It holds what was promised, or what is being written.
Accounted == \A d \in dataDisk, r \in Refs : Opened(d)[r] \in Store!Possible(r)

\* A change has the value it was called with.
JobsKnown ==
    \A p \in Procs :
        /\ job[p].op = "save" => job[p].value \in Payloads
        /\ job[p].op = "remove" => job[p].value = Removed
        /\ job[p].op = "import" => job[p].value = Legacy[job[p].ref]

\* A change under way has promised nothing yet, and its key is where its next
\* system call expects it.
KeyIs(p, links) == keyFile = [key |-> tx[p].key, links |-> links]

Meant(p) ==
    /\ tx[p].key \in Keys
    /\ job[p].value \in pending[job[p].ref] /\ tx[p].entries[job[p].ref] = job[p].value
    /\ \A r \in Refs : tx[p].entries[r] \in Store!Possible(r)

Underway ==
    \A p \in Procs :
        /\ pc[p] \notin {"idle", "begin"} => Meant(p)
        /\ pc[p] = "link" => keyFile = NoFile
        /\ pc[p] = "unlink" => KeyIs(p, 2)
        /\ pc[p] = "syncKey" => KeyIs(p, 1) /\ dataDisk = {NoFile}
        /\ pc[p] \in {"rename", "syncData"} => KeyIs(p, 1) /\ keyDisk = {keyFile}
        /\ pc[p] = "syncData" => dataFile = tx[p]

IInv == TypeOK /\ Fits /\ Accounted /\ JobsKnown /\ Underway

----
(* Types. *)

\* A file is told from no file, and its parts are what they should be.
LEMMA FileParts ==
    /\ \A f \in KeyFiles : f # NoFile => f.key \in Keys /\ f.links \in {1, 2} /\ f = [key |-> f.key, links |-> f.links]
    /\ \A k \in Keys, l \in {1, 2} : [key |-> k, links |-> l] \in KeyFiles /\ [key |-> k, links |-> l] # NoFile
    /\ \A d \in DataFiles : d # NoFile => d.key \in Keys /\ d.entries \in [Refs -> Entries]
    /\ \A d \in [key : Keys, entries : [Refs -> Entries]] : d \in DataFiles /\ d # NoFile
    /\ NoFile \in KeyFiles /\ NoFile \in DataFiles BY FileAssumption DEF KeyFiles, DataFiles

\* The entries there may be, here and in the store.
LEMMA EntryKinds ==
    /\ Payloads \subseteq Entries /\ Missing \in Entries /\ Removed \in Entries /\ \A r \in Refs : Legacy[r] \in Entries
    /\ Store!Entries = Entries /\ Payloads \subseteq Store!Written /\ Removed \in Store!Written
    /\ Empty \in [Refs -> Entries] BY DEF Entries, Imported, Store!Entries, Store!Written, Store!Imported, Empty

\* What readers find has the type of the store.
LEMMA VisibleTyped == TypeOK => Visible \in [Refs -> Entries] BY EntryKinds, FileParts DEF TypeOK, Visible

\* The invariant at the start.
LEMMA InvInit == Init => IInv
<1> SUFFICES ASSUME Init PROVE IInv OBVIOUS
<1>1. TypeOK
  <2>1. \A r \in Refs : [op |-> "load", ref |-> r, value |-> Missing] \in Jobs BY EntryKinds DEF Jobs
  <2>2. job \in [Procs -> Jobs] BY <2>1 DEF Init
  <2>3. [key |-> NoFile, entries |-> Empty] \in [key : Keys \cup {NoFile}, entries : [Refs -> Entries]] BY EntryKinds
  <2>4. tx \in [Procs -> [key : Keys \cup {NoFile}, entries : [Refs -> Entries]]] BY <2>3 DEF Init
  <2>5. \A p \in Procs : lock = p <=> pc[p] \notin {"idle", "begin"} BY VaultAssumption DEF Init
  <2>6. jobs \in 0 .. MaxJobs /\ faults \in 0 .. MaxFaults BY BoundAssumption DEF Init
  <2>7. promised \in [Refs -> Entries] /\ pending \in [Refs -> SUBSET Entries] BY EntryKinds DEF Init
  <2> QED BY <2>2, <2>4, <2>5, <2>6, <2>7, FileParts DEF Init, TypeOK, Steps
<1>2. Fits /\ JobsKnown /\ Underway BY DEF Init, Fits, JobsKnown, Underway
<1>3. Accounted BY DEF Init, Accounted, Opened, Store!Possible, Empty
<1> QED BY <1>1, <1>2, <1>3 DEF IInv

\* One process at a time is beyond the begin of its call.
LEMMA OneUnderway ==
    ASSUME TypeOK
    PROVE  /\ \A p, q \in Procs : pc[p] \notin {"idle", "begin"} /\ pc[q] \notin {"idle", "begin"} => p = q
           /\ lock = NoProc => \A p \in Procs : pc[p] \in {"idle", "begin"} BY VaultAssumption DEF TypeOK

----
(* Steps that leave the files alone. *)

\* A call begins, or comes to an end, and the files are what they were.
LEMMA OthersGoOn ==
    ASSUME IInv, NEW p \in Procs, NEW s \in {"idle", "begin"}, Go(p, s), UNCHANGED <<files, tx, promised, pending>>,
           \A q \in Procs : q # p => job'[q] = job[q]
    PROVE  Fits' /\ Accounted' /\ Underway'
<1> USE DEF files
<1>1. Fits' BY DEF IInv, Fits
<1>2. Accounted' BY DEF Store!Possible, Opened, Empty, IInv, Accounted
<1>3. Underway'
  <2> SUFFICES ASSUME NEW q \in Procs, pc'[q] \notin {"idle", "begin"}
               PROVE  /\ Meant(q)'
                      /\ pc'[q] = "link" => keyFile' = NoFile
                      /\ pc'[q] = "unlink" => KeyIs(q, 2)'
                      /\ pc'[q] = "syncKey" => KeyIs(q, 1)' /\ dataDisk' = {NoFile}
                      /\ pc'[q] \in {"rename", "syncData"} => KeyIs(q, 1)' /\ keyDisk' = {keyFile'}
                      /\ pc'[q] = "syncData" => dataFile' = tx'[q] BY DEF Underway
  <2>1. q # p /\ pc'[q] = pc[q] /\ job'[q] = job[q] BY DEF Go, IInv, TypeOK
  <2>2. Meant(q) BY <2>1 DEF IInv, Underway
  <2>3. Meant(q)' BY <2>1, <2>2 DEF Meant, Store!Possible
  <2>4. KeyIs(q, 2)' = KeyIs(q, 2) /\ KeyIs(q, 1)' = KeyIs(q, 1) BY DEF KeyIs
  <2> QED BY <2>1, <2>3, <2>4 DEF IInv, Underway
<1> QED BY <1>1, <1>2, <1>3

\* The types of what a call changes.
LEMMA GoTyped ==
    ASSUME TypeOK, NEW p \in Procs, NEW s \in Steps, Go(p, s)
    PROVE  pc' \in [Procs -> Steps] /\ pc'[p] = s /\ \A q \in Procs : q # p => pc'[q] = pc[q] BY DEF TypeOK, Go

\* A call ends with the lock given back.
LEMMA GivenUp ==
    ASSUME TypeOK, NEW p \in Procs, GiveUp(p)
    PROVE  /\ pc' \in [Procs -> Steps] /\ lock' \in Procs \cup {NoProc}
           /\ \A q \in Procs : lock' = q <=> pc'[q] \notin {"idle", "begin"}
           /\ Go(p, "idle") /\ UNCHANGED <<job, tx>>
BY GoTyped, VaultAssumption DEF GiveUp, Unlocked, Steps, TypeOK

\* A failure is counted.
LEMMA FaultTyped == ASSUME TypeOK, Fault PROVE faults' \in 0 .. MaxFaults BY BoundAssumption DEF TypeOK, Fault

\* The calls of the program.
LEMMA CallKeeps ==
    ASSUME IInv, Calls
    PROVE  IInv' /\ UNCHANGED <<files, promised, pending>>
<1>1. ASSUME NEW p \in Procs, NEW j \in Jobs, Call(p, j),
             /\ j.op = "save" => j.value \in Payloads
             /\ j.op = "remove" => j.value = Removed
             /\ j.op # "import"
      PROVE  IInv' /\ UNCHANGED <<files, promised, pending>>
  <2>0. TypeOK /\ JobsKnown BY DEF IInv
  <2>1. /\ Go(p, "begin") /\ UNCHANGED <<files, tx, promised, pending, lock, used, faults>> /\ pc[p] = "idle"
        /\ job' = [job EXCEPT ![p] = j] /\ got' = [got EXCEPT ![p] = NoResult] /\ jobs < MaxJobs /\ jobs' = jobs + 1
    BY <1>1 DEF Call
  <2>2. pc' \in [Procs -> Steps] /\ pc'[p] = "begin" /\ \A q \in Procs : q # p => pc'[q] = pc[q]
    BY <2>0, <2>1, GoTyped DEF Steps
  <2>3. job' \in [Procs -> Jobs] /\ job'[p] = j /\ \A q \in Procs : q # p => job'[q] = job[q] BY <2>0, <2>1 DEF TypeOK
  <2>4. \A q \in Procs : lock' = q <=> pc'[q] \notin {"idle", "begin"} BY <2>0, <2>1, <2>2 DEF TypeOK
  <2>5. jobs' \in 0 .. MaxJobs BY <2>0, <2>1, BoundAssumption DEF TypeOK
  <2>6. got' \in [Procs -> [ref : Refs, value : Entries] \cup {NoResult}] BY <2>0, <2>1 DEF TypeOK
  <2>7. TypeOK' BY <2>0, <2>1, <2>2, <2>3, <2>4, <2>5, <2>6 DEF TypeOK, files
  <2>8. JobsKnown' BY <1>1, <2>0, <2>3 DEF JobsKnown
  <2> QED BY <2>1, <2>3, <2>7, <2>8, OthersGoOn DEF IInv
<1>2. ASSUME NEW p \in Procs, NEW r \in Refs, NEW v \in Payloads, Call(p, [op |-> "save", ref |-> r, value |-> v])
      PROVE  IInv' /\ UNCHANGED <<files, promised, pending>> BY <1>1, <1>2, EntryKinds DEF Jobs
<1>3. ASSUME NEW p \in Procs, NEW r \in Refs, Call(p, [op |-> "remove", ref |-> r, value |-> Removed])
      PROVE  IInv' /\ UNCHANGED <<files, promised, pending>> BY <1>1, <1>3, EntryKinds DEF Jobs
<1>4. ASSUME NEW p \in Procs, NEW r \in Refs, Call(p, [op |-> "load", ref |-> r, value |-> Missing])
      PROVE  IInv' /\ UNCHANGED <<files, promised, pending>> BY <1>1, <1>4, EntryKinds DEF Jobs
<1> QED BY <1>2, <1>3, <1>4 DEF Calls

\* A Transaction that fails, a system call that fails with nothing done, a kill.
LEMMA GiveUpKeeps ==
    ASSUME IInv, NEW p \in Procs, GiveUp(p), UNCHANGED <<files, used, got, promised, pending, jobs>>,
           Fault \/ UNCHANGED faults
    PROVE  IInv'
<1>0. TypeOK /\ JobsKnown BY DEF IInv
<1>1. /\ pc' \in [Procs -> Steps] /\ lock' \in Procs \cup {NoProc}
      /\ \A q \in Procs : lock' = q <=> pc'[q] \notin {"idle", "begin"}
      /\ Go(p, "idle") /\ UNCHANGED <<job, tx>> BY <1>0, GivenUp
<1>2. faults' \in 0 .. MaxFaults BY <1>0, FaultTyped DEF TypeOK
<1>3. TypeOK' BY <1>0, <1>1, <1>2 DEF TypeOK, files
<1>4. JobsKnown' BY <1>0, <1>1 DEF JobsKnown
<1> QED BY <1>1, <1>3, <1>4, OthersGoOn DEF IInv

\* A reader finds what the data file holds.
LEMMA VisibleIs ==
    ASSUME TypeOK, Fits
    PROVE  Visible = Opened(dataFile)
<1>1. dataFile \in dataDisk BY DEF TypeOK
<1>2. CASE dataFile = NoFile BY <1>2 DEF Visible, Opened
<1>3. CASE dataFile # NoFile BY <1>1, <1>3 DEF Fits, Visible, Opened, Usable
<1> QED BY <1>2, <1>3

\* And that was promised, or is being written.
LEMMA VisibleIsPossible ==
    ASSUME IInv
    PROVE  Visible = Opened(dataFile) /\ \A r \in Refs : Visible[r] \in Store!Possible(r)
BY VisibleIs DEF IInv, TypeOK, Accounted

\* A Transaction that reads.
LEMMA LoadKeeps ==
    ASSUME IInv, NEW p \in Procs, Load(p) \/ ImportIsLate(p)
    PROVE  /\ IInv' /\ UNCHANGED <<files, promised, pending>>
           /\ \A q \in Procs : got'[q] # got[q] => got'[q].value \in Store!Possible(got'[q].ref)
<1>0. TypeOK /\ JobsKnown /\ job[p] \in Jobs /\ pc[p] = "begin" /\ lock = NoProc /\ Visible \in [Refs -> Entries]
  BY VisibleTyped DEF IInv, TypeOK, Load, ImportIsLate
<1>1. UNCHANGED <<files, used, lock, tx, promised, pending, jobs, faults>> BY DEF Load, ImportIsLate
<1>2. PICK s \in {"idle", "begin"} : Go(p, s)
  <2>1. ASSUME UNCHANGED pc PROVE Go(p, "begin") BY <1>0, <2>1 DEF Go, TypeOK
  <2> QED BY <2>1 DEF Load, ImportIsLate, Returned
<1>3. pc' \in [Procs -> Steps] /\ pc'[p] = s /\ \A q \in Procs : q # p => pc'[q] = pc[q]
  BY <1>0, <1>2, GoTyped DEF Steps
<1>4. /\ job' \in [Procs -> Jobs] /\ \A q \in Procs : q # p => job'[q] = job[q]
      /\ job'[p] = job[p] \/ (job'[p].op = "import" /\ job'[p].value = Legacy[job'[p].ref]) \/ job'[p].op = "reload"
  <2>0. job \in [Procs -> Jobs] BY <1>0 DEF TypeOK
  <2>1. CASE UNCHANGED job BY <2>0, <2>1
  <2>2. CASE job' = [job EXCEPT ![p].op = "import", ![p].value = Legacy[job[p].ref]]
    <3>1. job' = [job EXCEPT ![p] = [job[p] EXCEPT !.op = "import", !.value = Legacy[job[p].ref]]] BY <2>2
    <3>2. job[p].ref \in Refs /\ Legacy[job[p].ref] \in Entries BY <1>0, EntryKinds DEF Jobs
    <3> DEFINE j == [job[p] EXCEPT !.op = "import", !.value = Legacy[job[p].ref]]
    <3>3. j \in Jobs /\ j.op = "import" /\ j.ref = job[p].ref /\ j.value = Legacy[j.ref] BY <1>0, <3>2 DEF Jobs
    <3> HIDE DEF j
    <3>4. job' = [job EXCEPT ![p] = j] BY <3>1 DEF j
    <3> QED BY <2>0, <3>3, <3>4
  <2>3. CASE job' = [job EXCEPT ![p].op = "reload", ![p].value = Missing]
    <3> DEFINE j == [job[p] EXCEPT !.op = "reload", !.value = Missing]
    <3>1. job' = [job EXCEPT ![p] = j] BY <2>3
    <3>2. j \in Jobs /\ j.op = "reload" BY <1>0, EntryKinds DEF Jobs
    <3> HIDE DEF j
    <3> QED BY <2>0, <3>1, <3>2
  <2> QED BY <2>1, <2>2, <2>3 DEF Load, ImportIsLate, Returned
<1>5. /\ got' \in [Procs -> [ref : Refs, value : Entries] \cup {NoResult}]
      /\ \A q \in Procs : got'[q] # got[q] => got'[q].value \in Store!Possible(got'[q].ref)
  <2>0. got \in [Procs -> [ref : Refs, value : Entries] \cup {NoResult}] /\ job[p].ref \in Refs BY <1>0 DEF TypeOK, Jobs
  <2>1. CASE UNCHANGED got BY <2>0, <2>1
  <2>2. CASE got' = [got EXCEPT ![p] = [ref |-> job[p].ref, value |-> Visible[job[p].ref]]]
    <3> DEFINE g == [ref |-> job[p].ref, value |-> Visible[job[p].ref]]
    <3>1. g \in [ref : Refs, value : Entries] BY <1>0, <2>0
    <3>2. Visible[job[p].ref] \in Store!Possible(job[p].ref) BY <2>0, VisibleIsPossible
    <3>3. g.value \in Store!Possible(g.ref) BY <3>2
    <3> HIDE DEF g
    <3>4. got' = [got EXCEPT ![p] = g] BY <2>2 DEF g
    <3> QED BY <2>0, <3>1, <3>3, <3>4
  <2> QED BY <2>1, <2>2 DEF Load, ImportIsLate
<1>6. \A q \in Procs : lock' = q <=> pc'[q] \notin {"idle", "begin"} BY <1>0, <1>1, <1>3 DEF TypeOK
<1>7. TypeOK' BY <1>0, <1>1, <1>3, <1>4, <1>5, <1>6 DEF TypeOK, files
<1>8. JobsKnown' BY <1>0, <1>4 DEF JobsKnown
<1> QED BY <1>1, <1>2, <1>4, <1>5, <1>7, <1>8, OthersGoOn DEF IInv

----
(* The steps of a change. *)

\* Only the holder of the lock has anything under way.
LEMMA HolderAlone ==
    ASSUME TypeOK', NEW p \in Procs, pc'[p] \notin {"idle", "begin"}, Meant(p)',
           pc'[p] = "link" => keyFile' = NoFile,
           pc'[p] = "unlink" => KeyIs(p, 2)',
           pc'[p] = "syncKey" => KeyIs(p, 1)' /\ dataDisk' = {NoFile},
           pc'[p] \in {"rename", "syncData"} => KeyIs(p, 1)' /\ keyDisk' = {keyFile'},
           pc'[p] = "syncData" => dataFile' = tx'[p]
    PROVE  Underway'
BY DEF TypeOK, Underway

\* A change begins: what it writes is added to what may be found.
LEMMA ChangeKeeps ==
    ASSUME IInv, NEW p \in Procs, Change(p)
    PROVE  /\ IInv' /\ UNCHANGED <<files, promised>>
           /\ \E r \in Refs, v \in Entries :
                 /\ pending' = [pending EXCEPT ![r] = @ \cup {v}]
                 /\ v \in Payloads \cup {Removed} \/ (v = Legacy[r] /\ Visible[r] = Missing)
<1> DEFINE r0 == job[p].ref  v0 == job[p].value
<1>0. /\ TypeOK /\ JobsKnown /\ Fits /\ Accounted /\ job[p] \in Jobs /\ pc[p] = "begin" /\ lock = NoProc /\ Usable
      /\ Visible \in [Refs -> Entries] /\ r0 \in Refs /\ v0 \in Entries
      /\ dataFile \in dataDisk /\ keyFile \in KeyFiles BY VisibleTyped DEF IInv, TypeOK, Change, Jobs
<1>1. /\ UNCHANGED <<files, job, got, promised, jobs, faults>> /\ lock' = p
      /\ pending' = [pending EXCEPT ![r0] = @ \cup {v0}]
      /\ Go(p, IF keyFile = NoFile THEN "link" ELSE "rename")
      /\ job[p].op \in {"save", "remove"} \/ (job[p].op = "import" /\ Visible[r0] = Missing) BY DEF Change
<1>2. PICK k \in IF keyFile = NoFile THEN Keys \ used ELSE {keyFile.key} :
         /\ tx' = [tx EXCEPT ![p] = [key |-> k, entries |-> [Visible EXCEPT ![r0] = v0]]]
         /\ used' = used \cup {k} BY DEF Change
<1>3. k \in Keys BY <1>0, <1>2, FileParts
<1>4. pc' \in [Procs -> Steps] /\ pc'[p] = (IF keyFile = NoFile THEN "link" ELSE "rename")
      /\ \A q \in Procs : q # p => pc'[q] = pc[q] BY <1>0, <1>1, GoTyped DEF Steps
<1> HIDE DEF r0, v0
<1> DEFINE t == [key |-> k, entries |-> [Visible EXCEPT ![r0] = v0]]
<1>5. t \in [key : Keys, entries : [Refs -> Entries]] /\ t.key = k /\ t.entries[r0] = v0
      /\ \A r \in Refs : r # r0 => t.entries[r] = Visible[r] BY <1>0, <1>3
<1>6. tx' = [tx EXCEPT ![p] = t] BY <1>2
<1> HIDE DEF t
<1>7. tx' \in [Procs -> [key : Keys \cup {NoFile}, entries : [Refs -> Entries]]] /\ tx'[p] = t
  BY <1>0, <1>5, <1>6 DEF TypeOK
<1>8. /\ pending' \in [Refs -> SUBSET Entries] /\ v0 \in pending'[r0] /\ \A r \in Refs : pending[r] \subseteq pending'[r]
  BY <1>0, <1>1 DEF TypeOK
<1>9. \A q \in Procs : lock' = q <=> pc'[q] \notin {"idle", "begin"} BY <1>0, <1>1, <1>4, OneUnderway
<1>10. used' \in SUBSET Keys BY <1>0, <1>2, <1>3 DEF TypeOK
<1>11. TypeOK' BY <1>0, <1>1, <1>4, <1>7, <1>8, <1>9, <1>10 DEF TypeOK, files
<1>12. \A r \in Refs : Store!Possible(r) \subseteq Store!Possible(r)' BY <1>1, <1>8 DEF Store!Possible
<1>13. Fits' BY <1>0, <1>1 DEF Fits, files
<1>14. Accounted' BY <1>0, <1>1, <1>12 DEF Opened, Empty, Accounted, files
<1>15. JobsKnown' BY <1>0, <1>1 DEF JobsKnown
<1>16. Meant(p)'
  <2>1. job'[p].value \in pending'[job'[p].ref] /\ tx'[p].entries[job'[p].ref] = job'[p].value
    BY <1>1, <1>5, <1>7, <1>8 DEF r0, v0
  <2>2. ASSUME NEW r \in Refs PROVE t.entries[r] \in Store!Possible(r)'
    BY <1>5, <1>8, <1>12, VisibleIsPossible DEF Store!Possible
  <2> QED BY <1>3, <1>5, <1>7, <2>1, <2>2 DEF Meant
<1>17. Underway'
  <2>1. CASE keyFile = NoFile BY <1>4, <2>1, <1>1, <1>11, <1>16, HolderAlone DEF files
  <2>2. CASE keyFile # NoFile
    <3>1. pc'[p] = "rename" /\ k = keyFile.key BY <1>2, <1>4, <2>2
    <3>2. dataFile # NoFile BY <1>0, <2>2 DEF Usable
    <3>3. keyDisk = {keyFile} /\ keyFile.links = 1 BY <1>0, <3>2 DEF Fits
    <3>4. keyFile = [key |-> keyFile.key, links |-> 1] BY <1>0, <2>2, <3>3, FileParts
    <3>5. KeyIs(p, 1)' BY <1>1, <1>5, <1>7, <3>1, <3>4 DEF KeyIs, files
    <3>6. keyDisk' = {keyFile'} BY <1>1, <3>3 DEF files
    <3> QED BY <1>11, <1>16, <3>1, <3>5, <3>6, HolderAlone
  <2> QED BY <2>1, <2>2
<1>18. v0 \in Payloads \cup {Removed} \/ (v0 = Legacy[r0] /\ Visible[r0] = Missing)
  BY <1>0, <1>1 DEF JobsKnown, r0, v0
<1> QED BY <1>0, <1>1, <1>11, <1>13, <1>14, <1>15, <1>17, <1>18 DEF IInv

\* What the holder of the lock is about to write is accounted for.
LEMMA MeantStays ==
    ASSUME NEW p \in Procs, Meant(p), UNCHANGED <<tx, job, promised, pending>>
    PROVE  Meant(p)' BY DEF Meant, Store!Possible

\* A system call changes the key file, and no data file is there yet.
LEMMA KeyKeeps ==
    ASSUME IInv, NEW p \in Procs, LinkKey(p) \/ UnlinkTemp(p)
    PROVE  IInv' /\ UNCHANGED <<dataFile, promised, pending>>
<1>0. /\ TypeOK /\ JobsKnown /\ Fits /\ Accounted /\ Meant(p) /\ keyFile \in KeyFiles /\ tx[p].key \in Keys
      /\ pc[p] \in {"link", "unlink"} BY DEF IInv, TypeOK, LinkKey, UnlinkTemp, Underway, Meant
<1>1. UNCHANGED <<used, lock, job, tx, got, promised, pending, jobs, faults, dataFile, dataDisk>>
  BY DEF LinkKey, UnlinkTemp, KeyBecomes
<1>2. PICK l \in {1, 2}, s \in {"unlink", "syncKey"} :
         /\ keyFile' = [key |-> tx[p].key, links |-> l] /\ keyDisk' = keyDisk \cup {keyFile'}
         /\ Go(p, s) /\ (s = "unlink" => l = 2) /\ (s = "syncKey" => l = 1)
  <2>1. CASE LinkKey(p) BY <2>1 DEF LinkKey, KeyBecomes
  <2>2. CASE UnlinkTemp(p) BY <2>2 DEF IInv, Underway, UnlinkTemp, KeyIs, KeyBecomes
  <2> QED BY <2>1, <2>2
<1>3. dataDisk = {NoFile} BY <1>0 DEF IInv, Underway, KeyIs, Fits
<1>4. pc' \in [Procs -> Steps] /\ pc'[p] = s /\ \A q \in Procs : q # p => pc'[q] = pc[q]
  BY <1>0, <1>2, GoTyped DEF Steps
<1>5. keyFile' \in KeyFiles BY <1>0, <1>2, FileParts
<1>6. \A q \in Procs : lock' = q <=> pc'[q] \notin {"idle", "begin"} BY <1>0, <1>1, <1>4 DEF TypeOK
<1>7. TypeOK' BY <1>0, <1>1, <1>2, <1>4, <1>5, <1>6 DEF TypeOK
<1>8. Fits' BY <1>1, <1>3 DEF Fits
<1>9. Accounted' BY <1>0, <1>1 DEF Accounted, Opened, Empty, Store!Possible
<1>10. JobsKnown' BY <1>0, <1>1 DEF JobsKnown
<1>11. Meant(p)' BY <1>0, <1>1, MeantStays
<1>12. KeyIs(p, l)' BY <1>1, <1>2 DEF KeyIs
<1>13. Underway' BY <1>1, <1>2, <1>3, <1>4, <1>7, <1>11, <1>12, HolderAlone
<1> QED BY <1>1, <1>7, <1>8, <1>9, <1>10, <1>13 DEF IInv

\* A refused unlinkat, after which the scope guard removes the temporary file.
LEMMA UnlinkFailKeeps ==
    ASSUME IInv, NEW p \in Procs, pc[p] = "unlink", keyFile' = [keyFile EXCEPT !.links = 1],
           keyDisk' = keyDisk \cup {keyFile'}, UNCHANGED <<dataFile, dataDisk>>,
           GiveUp(p), Fault, UNCHANGED <<used, got, promised, pending, jobs>>
    PROVE  IInv'
<1>0. TypeOK /\ JobsKnown /\ Fits /\ Accounted /\ Meant(p) /\ keyFile \in KeyFiles /\ tx[p].key \in Keys
      /\ KeyIs(p, 2) BY DEF IInv, TypeOK, Underway, Meant
<1>1. /\ pc' \in [Procs -> Steps] /\ lock' \in Procs \cup {NoProc}
      /\ \A q \in Procs : lock' = q <=> pc'[q] \notin {"idle", "begin"}
      /\ Go(p, "idle") /\ UNCHANGED <<job, tx>> BY <1>0, GivenUp
<1>2. faults' \in 0 .. MaxFaults BY <1>0, FaultTyped
<1>3. keyFile' = [key |-> tx[p].key, links |-> 1] BY <1>0 DEF KeyIs
<1>4. keyFile' \in KeyFiles BY <1>0, <1>3, FileParts
<1>5. dataDisk = {NoFile} BY <1>0 DEF KeyIs, Fits
<1>6. TypeOK' BY <1>0, <1>1, <1>2, <1>4 DEF TypeOK
<1>7. Fits' BY <1>5 DEF Fits
<1>8. Accounted' BY <1>0 DEF Accounted, Opened, Empty, Store!Possible
<1>9. JobsKnown' BY <1>0, <1>1 DEF JobsKnown
<1>10. Underway'
  <2>1. \A q \in Procs : pc'[q] \in {"idle", "begin"} BY <1>0, <1>1, GoTyped, OneUnderway DEF Steps
  <2> QED BY <2>1 DEF Underway
<1> QED BY <1>6, <1>7, <1>8, <1>9, <1>10 DEF IInv

\* The directory is synced after the key was made.
LEMMA SyncKeyKeeps ==
    ASSUME IInv, NEW p \in Procs, SyncKey(p)
    PROVE  IInv' /\ UNCHANGED <<dataFile, promised, pending>>
<1>0. /\ TypeOK /\ JobsKnown /\ Accounted /\ Meant(p) /\ KeyIs(p, 1) /\ dataDisk = {NoFile} /\ pc[p] = "syncKey"
      /\ keyFile \in KeyFiles /\ dataFile \in DataFiles /\ dataFile \in dataDisk
  BY DEF IInv, TypeOK, SyncKey, Underway
<1>1. /\ UNCHANGED <<used, lock, job, tx, got, promised, pending, jobs, faults, keyFile, dataFile>>
      /\ keyDisk' = {keyFile} /\ dataDisk' = {dataFile} /\ Go(p, "rename") BY DEF SyncKey, Synced
<1>2. dataDisk' = {NoFile} BY <1>0, <1>1
<1>4. pc' \in [Procs -> Steps] /\ pc'[p] = "rename" /\ \A q \in Procs : q # p => pc'[q] = pc[q]
  BY <1>0, <1>1, GoTyped DEF Steps
<1>6. \A q \in Procs : lock' = q <=> pc'[q] \notin {"idle", "begin"} BY <1>0, <1>1, <1>4 DEF TypeOK
<1>7. TypeOK' BY <1>0, <1>1, <1>4, <1>6 DEF TypeOK
<1>8. Fits' BY <1>2 DEF Fits
<1>9. Accounted' BY <1>0, <1>1 DEF Accounted, Opened, Empty, Store!Possible
<1>10. JobsKnown' BY <1>0, <1>1 DEF JobsKnown
<1>11. Meant(p)' BY <1>0, <1>1, MeantStays
<1>12. KeyIs(p, 1)' BY <1>0, <1>1 DEF KeyIs
<1>13. Underway' BY <1>1, <1>4, <1>7, <1>11, <1>12, HolderAlone
<1> QED BY <1>1, <1>7, <1>8, <1>9, <1>10, <1>13 DEF IInv

\* The data file is replaced by what the change has written.
LEMMA ReplaceKeeps ==
    ASSUME IInv, NEW p \in Procs, ReplaceData(p)
    PROVE  IInv' /\ UNCHANGED <<promised, pending>>
<1>0. /\ TypeOK /\ JobsKnown /\ Fits /\ Accounted /\ Meant(p) /\ KeyIs(p, 1) /\ keyDisk = {keyFile} /\ pc[p] = "rename"
      /\ keyFile \in KeyFiles /\ dataDisk \in SUBSET DataFiles
      /\ tx[p] \in [key : Keys \cup {NoFile}, entries : [Refs -> Entries]] /\ tx[p].key \in Keys
  BY DEF IInv, TypeOK, ReplaceData, Underway, Meant
<1>1. /\ UNCHANGED <<used, lock, job, tx, got, promised, pending, jobs, faults, keyFile, keyDisk>>
      /\ dataFile' = tx[p] /\ dataDisk' = dataDisk \cup {tx[p]} /\ Go(p, "syncData") BY DEF ReplaceData
<1>2. tx[p] \in DataFiles /\ tx[p] # NoFile BY <1>0, FileParts
<1>3. keyFile # NoFile /\ keyFile.links = 1 /\ keyFile.key = tx[p].key BY <1>0, FileParts DEF KeyIs
<1>4. pc' \in [Procs -> Steps] /\ pc'[p] = "syncData" /\ \A q \in Procs : q # p => pc'[q] = pc[q]
  BY <1>0, <1>1, GoTyped DEF Steps
<1>6. \A q \in Procs : lock' = q <=> pc'[q] \notin {"idle", "begin"} BY <1>0, <1>1, <1>4 DEF TypeOK
<1>7. TypeOK' BY <1>0, <1>1, <1>2, <1>4, <1>6 DEF TypeOK
<1>8. Fits' BY <1>0, <1>1, <1>3 DEF Fits
<1>9. Accounted' BY <1>1, <1>0, <1>2 DEF Opened, Empty, Store!Possible, Meant, Accounted
<1>10. JobsKnown' BY <1>0, <1>1 DEF JobsKnown
<1>11. Meant(p)' BY <1>0, <1>1, MeantStays
<1>12. KeyIs(p, 1)' /\ keyDisk' = {keyFile'} /\ dataFile' = tx'[p] BY <1>0, <1>1 DEF KeyIs
<1>13. Underway' BY <1>1, <1>4, <1>7, <1>11, <1>12, HolderAlone
<1> QED BY <1>1, <1>7, <1>8, <1>9, <1>10, <1>13 DEF IInv

\* The directory is synced again and the change acknowledged.
LEMMA SyncDataKeeps ==
    ASSUME IInv, NEW p \in Procs, SyncData(p)
    PROVE  /\ IInv' /\ UNCHANGED dataFile
           /\ \E r \in Refs : /\ Visible[r] \in pending[r]
                              /\ promised' = [promised EXCEPT ![r] = Visible[r]]
                              /\ pending' = [pending EXCEPT ![r] = {}]
<1> DEFINE r0 == job[p].ref  v0 == job[p].value
<1>0. /\ TypeOK /\ JobsKnown /\ Fits /\ Accounted /\ Meant(p) /\ KeyIs(p, 1) /\ keyDisk = {keyFile} /\ dataFile = tx[p]
      /\ keyFile \in KeyFiles /\ dataFile \in DataFiles /\ dataFile \in dataDisk /\ pc[p] = "syncData"
      /\ tx[p].key \in Keys /\ tx[p] \in [key : Keys \cup {NoFile}, entries : [Refs -> Entries]]
      /\ job[p] \in Jobs /\ r0 \in Refs /\ v0 \in Entries BY DEF IInv, TypeOK, SyncData, Underway, Meant, Jobs
<1>1. /\ UNCHANGED <<used, tx, got, jobs, faults, keyFile, dataFile>>
      /\ keyDisk' = {keyFile} /\ dataDisk' = {dataFile}
      /\ promised' = [promised EXCEPT ![r0] = v0] /\ pending' = [pending EXCEPT ![r0] = {}]
      /\ lock' = IF lock = p THEN NoProc ELSE lock BY DEF SyncData, Synced, Unlocked
<1>2. dataFile # NoFile BY <1>0, FileParts
<1>3. Visible[r0] = v0 /\ v0 \in pending[r0] BY <1>0, <1>2, VisibleIs DEF Opened, Meant
<1>4. PICK s \in {"idle", "begin"} : Go(p, s) BY DEF SyncData, Returned
<1>5. pc' \in [Procs -> Steps] /\ pc'[p] = s /\ \A q \in Procs : q # p => pc'[q] = pc[q]
  BY <1>0, <1>4, GoTyped DEF Steps
<1>6. /\ job' \in [Procs -> Jobs] /\ \A q \in Procs : q # p => job'[q] = job[q]
      /\ job'[p] = job[p] \/ job'[p].op = "reload"
  <2>0. job \in [Procs -> Jobs] BY <1>0 DEF TypeOK
  <2>1. CASE UNCHANGED job BY <2>0, <2>1
  <2>3. CASE job' = [job EXCEPT ![p].op = "reload", ![p].value = Missing]
    <3> DEFINE j == [job[p] EXCEPT !.op = "reload", !.value = Missing]
    <3>1. job' = [job EXCEPT ![p] = j] BY <2>3
    <3>2. j \in Jobs /\ j.op = "reload" BY <1>0, EntryKinds DEF Jobs
    <3> HIDE DEF j
    <3> QED BY <2>0, <3>1, <3>2
  <2> QED BY <2>1, <2>3 DEF SyncData, Returned
<1>7. \A q \in Procs : pc'[q] \in {"idle", "begin"} BY <1>0, <1>5, OneUnderway
<1>8. \A q \in Procs : lock' = q <=> pc'[q] \notin {"idle", "begin"} BY <1>0, <1>1, <1>7, VaultAssumption DEF TypeOK
<1> HIDE DEF r0, v0
<1>9. promised' \in [Refs -> Entries] /\ pending' \in [Refs -> SUBSET Entries]
      /\ promised'[r0] = v0 /\ \A r \in Refs : r # r0 => promised'[r] = promised[r] /\ pending'[r] = pending[r]
  BY <1>0, <1>1 DEF TypeOK
<1>10. lock' \in Procs \cup {NoProc} BY <1>0, <1>1 DEF TypeOK
<1>11. TypeOK' BY <1>0, <1>1, <1>5, <1>6, <1>8, <1>9, <1>10 DEF TypeOK
<1>12. Fits' BY <1>0, <1>1, FileParts DEF KeyIs, Fits
<1>13. Accounted'
  <2> SUFFICES ASSUME NEW r \in Refs PROVE Opened(dataFile)[r] \in Store!Possible(r)'
    <3>1. \A d : Opened(d)' = Opened(d) BY DEF Opened, Empty
    <3> QED BY <1>1, <3>1 DEF Accounted
  <2>1. CASE r = r0 BY <1>0, <1>2, <1>9, <2>1 DEF Opened, Meant, r0, v0, Store!Possible
  <2>2. CASE r # r0 BY <1>0, <1>9, <2>2 DEF Accounted, Store!Possible
  <2> QED BY <2>1, <2>2
<1>14. JobsKnown' BY <1>0, <1>6 DEF JobsKnown
<1>15. Underway' BY <1>7 DEF Underway
<1> QED BY <1>0, <1>1, <1>3, <1>11, <1>12, <1>13, <1>14, <1>15 DEF IInv

\* The machine stops: some of what the disk may hold is found afterwards.
LEMMA StopKeeps ==
    ASSUME IInv, Stop
    PROVE  IInv' /\ UNCHANGED <<promised, pending>> /\ dataFile' \in dataDisk
<1>0. /\ TypeOK /\ JobsKnown /\ Fits /\ Accounted /\ keyDisk \in SUBSET KeyFiles /\ dataDisk \in SUBSET DataFiles
  BY DEF IInv, TypeOK
<1>1. /\ keyFile' \in keyDisk /\ dataFile' \in dataDisk /\ keyDisk' = {keyFile'} /\ dataDisk' = {dataFile'}
      /\ pc' = [p \in Procs |-> "idle"] /\ lock' = NoProc /\ Fault
      /\ UNCHANGED <<used, job, tx, got, promised, pending, jobs>> BY DEF Stop
<1>2. faults' \in 0 .. MaxFaults BY <1>0, <1>1, FaultTyped
<1>3. \A q \in Procs : lock' = q <=> pc'[q] \notin {"idle", "begin"} BY <1>1, VaultAssumption
<1>4. TypeOK' BY <1>0, <1>1, <1>2, <1>3 DEF TypeOK, Steps
<1>5. Fits'
  <2>1. CASE dataFile' = NoFile BY <1>1, <2>1 DEF Fits
  <2>2. CASE dataFile' # NoFile BY <1>0, <1>1, <2>2 DEF Fits
  <2> QED BY <2>1, <2>2
<1>6. Accounted' BY <1>1, <1>0 DEF Opened, Empty, Store!Possible, Accounted
<1>7. JobsKnown' BY <1>0, <1>1 DEF JobsKnown
<1>8. Underway' BY <1>1 DEF Underway
<1> QED BY <1>1, <1>4, <1>5, <1>6, <1>7, <1>8 DEF IInv

----
(* The invariant, and the store it implements. *)

\* What a step does to the files, to what was promised and to what is written.
Quietly == UNCHANGED <<dataFile, promised, pending>>
Trying ==
    /\ UNCHANGED <<dataFile, promised>>
    /\ \E r \in Refs, v \in Entries :
          /\ pending' = [pending EXCEPT ![r] = @ \cup {v}]
          /\ v \in Payloads \cup {Removed} \/ (v = Legacy[r] /\ Visible[r] = Missing)
Acknowledging ==
    /\ UNCHANGED dataFile
    /\ \E r \in Refs : /\ Visible[r] \in pending[r]
                       /\ promised' = [promised EXCEPT ![r] = Visible[r]]
                       /\ pending' = [pending EXCEPT ![r] = {}]

\* Every step keeps the invariant and is one of these.
LEMMA InvStep ==
    ASSUME IInv, [Next]_vars
    PROVE  IInv' /\ (Quietly \/ Trying \/ Acknowledging \/ UNCHANGED <<promised, pending>>)
<1>1. CASE Calls BY <1>1, CallKeeps DEF Quietly
<1>2. ASSUME NEW p \in Procs, Refused(p) \/ Kill(p) PROVE IInv' /\ UNCHANGED <<promised, pending>>
  BY <1>2, GiveUpKeeps DEF Refused, Kill
<1>3. ASSUME NEW p \in Procs, StepFails(p) PROVE IInv' /\ UNCHANGED <<promised, pending>>
  <2>1. GiveUp(p) /\ Fault /\ UNCHANGED <<used, got, promised, pending, jobs>> BY <1>3 DEF StepFails
  <2>2. CASE UNCHANGED files BY <2>1, <2>2, GiveUpKeeps
  <2>3. CASE ~UNCHANGED files BY <1>3, <2>3, <2>1, UnlinkFailKeeps DEF StepFails
  <2> QED BY <2>2, <2>3
<1>4. ASSUME NEW p \in Procs, Load(p) \/ ImportIsLate(p) PROVE IInv' /\ UNCHANGED <<promised, pending>> BY <1>4, LoadKeeps
<1>5. ASSUME NEW p \in Procs, Change(p) PROVE IInv' /\ Trying BY <1>5, ChangeKeeps DEF Trying, files
<1>6. ASSUME NEW p \in Procs, LinkKey(p) \/ UnlinkTemp(p) \/ SyncKey(p) \/ ReplaceData(p)
      PROVE  IInv' /\ UNCHANGED <<promised, pending>> BY <1>6, KeyKeeps, SyncKeyKeeps, ReplaceKeeps
<1>7. ASSUME NEW p \in Procs, SyncData(p) PROVE IInv' /\ Acknowledging BY <1>7, SyncDataKeeps DEF Acknowledging
<1>8. CASE Stop BY <1>8, StopKeeps
<1>9. CASE UNCHANGED vars
  BY <1>9 DEF vars, files, procs, IInv, TypeOK, Fits, Accounted, JobsKnown, Underway, Meant, KeyIs, Opened, Empty,
              Store!Possible
<1> QED BY <1>1, <1>2, <1>3, <1>4, <1>5, <1>6, <1>7, <1>8, <1>9 DEF Next

\* For any processes, references, secrets and keys, and any failures: the
\* invariant of the two files and of what the disk may hold of them.
THEOREM Invariance == Spec => []IInv
<1>1. IInv /\ [Next]_vars => IInv' BY InvStep
<1> QED BY <1>1, InvInit, PTL DEF Spec

\* The store at the start.
LEMMA StoreInit == Init => Store!Init BY DEF Init, Store!Init, Visible, Empty

\* What readers find after a step.
LEMMA VisibleThen ==
    (TypeOK /\ Fits => Visible = Opened(dataFile) /\ Visible \in [Refs -> Entries])'
<1>1. TypeOK /\ Fits => Visible = Opened(dataFile) /\ Visible \in [Refs -> Entries] BY VisibleIs, VisibleTyped
<1> QED BY <1>1, PTL

\* Every step is one of the store, or leaves it alone.
LEMMA StoreStep == IInv /\ IInv' /\ [Next]_vars => [Store!Next]_(Store!vars)
<1> SUFFICES ASSUME IInv, IInv', [Next]_vars PROVE [Store!Next]_(Store!vars) OBVIOUS
<1>1. Visible = Opened(dataFile) /\ \A r \in Refs : Visible[r] \in Store!Possible(r) BY VisibleIsPossible
<1>2. Visible' = Opened(dataFile)' /\ Visible' \in [Refs -> Entries] BY VisibleThen DEF IInv
<1>3. UNCHANGED dataFile => Visible' = Visible BY <1>1, <1>2 DEF Opened, Empty
<1>4. CASE Quietly BY <1>3, <1>4 DEF Quietly, Store!vars
<1>5. CASE Trying
  <2>1. UNCHANGED promised /\ Visible' = Visible BY <1>3, <1>5 DEF Trying
  <2>2. PICK r \in Refs, v \in Entries :
          /\ pending' = [pending EXCEPT ![r] = @ \cup {v}]
          /\ v \in Payloads \cup {Removed} \/ (v = Legacy[r] /\ Visible[r] = Missing) BY <1>5 DEF Trying
  <2>3. CASE v \in Payloads \cup {Removed} BY <2>3, <2>1, <2>2, EntryKinds DEF Store!Try, Store!Next
  <2>4. CASE v = Legacy[r] /\ Visible[r] = Missing BY <2>1, <2>2, <2>4 DEF Store!Import, Store!Next
  <2> QED BY <2>2, <2>3, <2>4
<1>6. CASE Acknowledging BY <1>3, <1>6 DEF Acknowledging, Store!Acknowledge, Store!Next
<1>7. CASE UNCHANGED <<promised, pending>>
  <2>1. Visible' \in [Refs -> Store!Entries] BY <1>2, EntryKinds
  <2>2. \A r \in Refs : Visible'[r] \in Store!Possible(r)
    BY <1>7, <1>2 DEF IInv, TypeOK, Accounted, Opened, Empty, Store!Possible
  <2>3. Store!Settle BY <1>7, <2>1, <2>2 DEF Store!Settle
  <2> QED BY <2>3 DEF Store!Next
<1> QED BY <1>4, <1>5, <1>6, <1>7, InvStep

\* For any processes, references, secrets and keys, any failures of calls, kills
\* and stops of the machine, the vault is the store of SecretStore.
THEOREM StoreImplemented == Spec => ImplementsSecretStore
<1>1. IInv /\ IInv' /\ [Next]_vars => [Store!Next]_(Store!vars) BY StoreStep
<1> QED BY <1>1, StoreInit, Invariance, PTL DEF Spec, ImplementsSecretStore, Store!Spec

\* What a load returns was promised or is being written.
LEMMA LoadStep ==
    IInv /\ [Next]_vars =>
        [\A p \in Procs : got'[p] # got[p] /\ got'[p] # NoResult
            => got'[p].value \in Store!Possible(got'[p].ref)]_vars
<1> SUFFICES ASSUME IInv, Next, NEW p \in Procs, got'[p] # got[p], got'[p] # NoResult
             PROVE  got'[p].value \in Store!Possible(got'[p].ref) OBVIOUS
<1>1. CASE Calls BY <1>1 DEF Calls, Call, IInv, TypeOK
<1>2. ASSUME NEW q \in Procs, Load(q) \/ ImportIsLate(q) PROVE got'[p].value \in Store!Possible(got'[p].ref)
  BY <1>2, LoadKeeps
<1>3. ASSUME NEW q \in Procs,
             \/ Refused(q) \/ Change(q) \/ LinkKey(q) \/ UnlinkTemp(q) \/ SyncKey(q) \/ ReplaceData(q) \/ SyncData(q)
             \/ StepFails(q) \/ Kill(q) \/ Stop
      PROVE  got' = got
  BY <1>3 DEF Refused, Change, LinkKey, UnlinkTemp, SyncKey, ReplaceData, SyncData, StepFails, Kill, Stop
<1>4. CASE Stop BY <1>4 DEF Stop
<1> QED BY <1>1, <1>2, <1>3, <1>4 DEF Next

\* A load returns what was last acknowledged for its reference, or what is being
\* written to it, for any processes, references, secrets, keys and failures.
THEOREM LoadsAreCurrent == Spec => LoadsCurrent
<1>1. IInv => TypeOK BY DEF IInv
<1> QED BY <1>1, LoadStep, Invariance, PTL DEF Spec, LoadsCurrent

====
