------------------------------ MODULE LocalVault ------------------------------
(***************************************************************************)
(* The credential vault of macOS builds (LocalCredentialVault) and the     *)
(* store on top of it (CredentialStore): one directory with a key file and *)
(* an encrypted data file, rewritten as a whole by every change.           *)
(*                                                                         *)
(* Nothing keeps a second NoxShell from starting, so several processes     *)
(* share the directory under a lock they never wait for.  Any system call  *)
(* may fail, a process may be killed between two of them, and the machine  *)
(* may stop: then a name that was not synced has its old or its new file.  *)
(* Temporary files have random names and are not modelled, except as the   *)
(* second link of a key that was cut off between linkat and unlinkat.      *)
(***************************************************************************)
EXTENDS Naturals

CONSTANTS
    Procs, Refs, Payloads, Legacy, Missing, Removed,
    NoFile,      \* no file of that name
    NoProc,      \* nobody holds the lock
    NoResult,    \* a load that has not returned, or returned an error
    Keys,        \* master keys, as random as they are in the program: used once
    MaxJobs,     \* bound on the calls of the program
    MaxFaults    \* bound on failures, kills and stops of the machine

ASSUME VaultAssumption ==
    /\ Missing # Removed /\ {Missing, Removed} \cap Payloads = {}
    /\ NoProc \notin Procs /\ NoFile \notin Keys
    /\ \A r \in Refs : Legacy[r] \notin {Missing, Removed}
ASSUME BoundAssumption == MaxJobs \in Nat /\ MaxFaults \in Nat

Imported == {Legacy[r] : r \in Refs}
Entries == Payloads \cup Imported \cup {Missing, Removed}
KeyFiles == [key : Keys, links : {1, 2}] \cup {NoFile}
DataFiles == [key : Keys, entries : [Refs -> Entries]] \cup {NoFile}
\* No file is not a file.
ASSUME FileAssumption == NoFile \notin [key : Keys, links : {1, 2}] \cup [key : Keys, entries : [Refs -> Entries]]

Jobs == [op : {"save", "remove", "load", "import", "reload"}, ref : Refs, value : Entries]
Steps == {"idle", "begin", "link", "unlink", "syncKey", "rename", "syncData"}

VARIABLES
    keyFile,     \* master.key as the processes see it
    dataFile,    \* credentials.enc, decrypted
    keyDisk,     \* what a stop of the machine may leave of master.key
    dataDisk,    \* ... and of credentials.enc
    used,        \* keys generated so far
    lock,        \* holder of vault.lock
    pc,          \* [Procs -> Steps], the system call a process makes next
    job,         \* [Procs -> Jobs], the call it serves
    tx,          \* [Procs -> what its Transaction holds: key and entries]
    got,         \* what the last load of a process returned, and for which reference
    promised,    \* history: what the last acknowledged change of a reference left
    pending,     \* history: the changes since whose outcome nobody was told
    jobs,        \* calls so far
    faults       \* failures so far

files == <<keyFile, dataFile, keyDisk, dataDisk>>
procs == <<lock, pc, job, tx>>
vars == <<files, used, procs, got, promised, pending, jobs, faults>>

Empty == [r \in Refs |-> Missing]

Init ==
    /\ keyFile = NoFile /\ dataFile = NoFile
    /\ keyDisk = {NoFile} /\ dataDisk = {NoFile}
    /\ used = {}
    /\ lock = NoProc
    /\ pc = [p \in Procs |-> "idle"]
    /\ \E r \in Refs : job = [p \in Procs |-> [op |-> "load", ref |-> r, value |-> Missing]]
    /\ tx = [p \in Procs |-> [key |-> NoFile, entries |-> Empty]]
    /\ got = [p \in Procs |-> NoResult]
    /\ promised = Empty
    /\ pending = [r \in Refs |-> {}]
    /\ jobs = 0 /\ faults = 0

\* What a Transaction can open: two files that fit together and a key with one
\* link, or neither file.
Usable ==
    \/ keyFile = NoFile /\ dataFile = NoFile
    \/ /\ keyFile # NoFile /\ dataFile # NoFile
       /\ keyFile.links = 1 /\ dataFile.key = keyFile.key

Visible == IF dataFile # NoFile /\ Usable THEN dataFile.entries ELSE Empty

Go(p, step) == pc' = [pc EXCEPT ![p] = step]
Unlocked(p) == lock' = IF lock = p THEN NoProc ELSE lock

Fault == faults < MaxFaults /\ faults' = faults + 1

\* The call of p returns an error (to connect, the password is asked for).
GiveUp(p) == Go(p, "idle") /\ Unlocked(p) /\ UNCHANGED <<job, tx>>

\* ------------------------------------------------------------------------
\* Calls of the program.

\* CredentialStore::save, remove and load.
Call(p, j) ==
    /\ pc[p] = "idle" /\ jobs < MaxJobs
    /\ jobs' = jobs + 1
    /\ job' = [job EXCEPT ![p] = j]
    /\ got' = [got EXCEPT ![p] = NoResult]
    /\ Go(p, "begin")
    /\ UNCHANGED <<files, used, lock, tx, promised, pending, faults>>

Calls ==
    \E p \in Procs, r \in Refs :
        \/ \E v \in Payloads : Call(p, [op |-> "save", ref |-> r, value |-> v])
        \/ Call(p, [op |-> "remove", ref |-> r, value |-> Removed])
        \/ Call(p, [op |-> "load", ref |-> r, value |-> Missing])

\* The Transaction fails: another process holds the lock, the files do not fit
\* together, or the directory or a file cannot be opened or read.
Refused(p) ==
    /\ pc[p] = "begin"
    /\ \/ (lock # NoProc \/ ~Usable) /\ UNCHANGED faults
       \/ Fault
    /\ GiveUp(p)
    /\ UNCHANGED <<files, used, got, promised, pending, jobs>>

\* The Transaction of a load, before or after the migration: the lock is held
\* for the reading alone.
Load(p) ==
    /\ pc[p] = "begin" /\ lock = NoProc /\ Usable
    /\ job[p].op \in {"load", "reload"}
    /\ IF Visible[job[p].ref] = Missing /\ job[p].op = "load"
       THEN \* The legacy reader finds a secret, which is to be taken over, or not.
            /\ \/ /\ job' = [job EXCEPT ![p].op = "import", ![p].value = Legacy[job[p].ref]]
                  /\ UNCHANGED pc
               \/ Go(p, "idle") /\ UNCHANGED job
            /\ UNCHANGED got
       ELSE /\ got' = [got EXCEPT ![p] = [ref |-> job[p].ref, value |-> Visible[job[p].ref]]]
            /\ Go(p, "idle")
            /\ UNCHANGED job
    /\ UNCHANGED <<files, used, lock, tx, promised, pending, jobs, faults>>

\* After a change was acknowledged; a migration reads its result again.
Returned(p) ==
    IF job[p].op = "import"
    THEN job' = [job EXCEPT ![p].op = "reload", ![p].value = Missing] /\ Go(p, "begin")
    ELSE Go(p, "idle") /\ UNCHANGED job

\* Faulty: the migration returns what it read from the keychain.
ImportTrusted(p) ==
    /\ pc[p] = "begin" /\ lock = NoProc /\ Usable
    /\ job[p].op = "import" /\ Visible[job[p].ref] # Missing
    /\ got' = [got EXCEPT ![p] = [ref |-> job[p].ref, value |-> job[p].value]]
    /\ Go(p, "idle")
    /\ UNCHANGED <<files, used, lock, job, tx, promised, pending, jobs, faults>>

\* A migration finds an entry that was made since: nothing to do.
ImportIsLate(p) ==
    /\ pc[p] = "begin" /\ lock = NoProc /\ Usable
    /\ job[p].op = "import" /\ Visible[job[p].ref] # Missing
    /\ Returned(p)
    /\ UNCHANGED <<files, used, lock, tx, got, promised, pending, jobs, faults>>

\* The Transaction of a change: the entries are read, changed in memory and
\* committed under the lock; the first commit creates the key.
Change(p) ==
    /\ pc[p] = "begin" /\ lock = NoProc /\ Usable
    /\ \/ job[p].op \in {"save", "remove"}
       \/ job[p].op = "import" /\ Visible[job[p].ref] = Missing
    /\ lock' = p
    /\ pending' = [pending EXCEPT ![job[p].ref] = @ \cup {job[p].value}]
    /\ \E k \in IF keyFile = NoFile THEN Keys \ used ELSE {keyFile.key} :
        /\ tx' = [tx EXCEPT ![p] = [key |-> k, entries |-> [Visible EXCEPT ![job[p].ref] = job[p].value]]]
        /\ used' = used \cup {k}
    /\ Go(p, IF keyFile = NoFile THEN "link" ELSE "rename")
    /\ UNCHANGED <<files, job, got, promised, jobs, faults>>

\* ------------------------------------------------------------------------
\* The system calls of commit and atomicWrite.

\* A call is refused (also the ones before it that write the temporary file).
StepFails(p) ==
    /\ pc[p] \in {"link", "unlink", "syncKey", "rename", "syncData"}
    /\ Fault
    /\ \/ UNCHANGED files
       \* The scope guard unlinks the temporary file where the call did not.
       \/ /\ pc[p] = "unlink"
          /\ keyFile' = [keyFile EXCEPT !.links = 1]
          /\ keyDisk' = keyDisk \cup {keyFile'}
          /\ UNCHANGED <<dataFile, dataDisk>>
    /\ GiveUp(p)
    /\ UNCHANGED <<used, got, promised, pending, jobs>>

KeyBecomes(file) ==
    /\ keyFile' = file
    /\ keyDisk' = keyDisk \cup {file}
    /\ UNCHANGED <<dataFile, dataDisk>>

\* linkat creates the key only where there is none.
LinkKey(p) ==
    /\ pc[p] = "link" /\ keyFile = NoFile
    /\ KeyBecomes([key |-> tx[p].key, links |-> 2])
    /\ Go(p, "unlink")
    /\ UNCHANGED <<used, lock, job, tx, got, promised, pending, jobs, faults>>

UnlinkTemp(p) ==
    /\ pc[p] = "unlink"
    /\ KeyBecomes([keyFile EXCEPT !.links = 1])
    /\ Go(p, "syncKey")
    /\ UNCHANGED <<used, lock, job, tx, got, promised, pending, jobs, faults>>

\* Faulty: the directory is not synced.
NotSynced == UNCHANGED files

Synced ==
    /\ keyDisk' = {keyFile} /\ dataDisk' = {dataFile}
    /\ UNCHANGED <<keyFile, dataFile>>

SyncKey(p) ==
    /\ pc[p] = "syncKey"
    /\ Synced
    /\ Go(p, "rename")
    /\ UNCHANGED <<used, lock, job, tx, got, promised, pending, jobs, faults>>

ReplaceData(p) ==
    /\ pc[p] = "rename"
    /\ dataFile' = tx[p]
    /\ dataDisk' = dataDisk \cup {dataFile'}
    /\ Go(p, "syncData")
    /\ UNCHANGED <<keyFile, keyDisk, used, lock, job, tx, got, promised, pending, jobs, faults>>

\* The last sync: the change is acknowledged and the Transaction ends.
SyncData(p) ==
    /\ pc[p] = "syncData"
    /\ Synced
    /\ promised' = [promised EXCEPT ![job[p].ref] = job[p].value]
    /\ pending' = [pending EXCEPT ![job[p].ref] = {}]
    /\ Returned(p)
    /\ Unlocked(p)
    /\ UNCHANGED <<used, tx, got, jobs, faults>>

\* ------------------------------------------------------------------------
\* The environment.

\* A process is killed; the kernel drops its lock.
Kill(p) ==
    /\ pc[p] # "idle" /\ Fault
    /\ GiveUp(p)
    /\ UNCHANGED <<files, used, got, promised, pending, jobs>>

\* The machine stops, with every process.
Stop ==
    /\ Fault
    /\ keyFile' \in keyDisk /\ dataFile' \in dataDisk
    /\ keyDisk' = {keyFile'} /\ dataDisk' = {dataFile'}
    /\ pc' = [p \in Procs |-> "idle"]
    /\ lock' = NoProc
    /\ UNCHANGED <<used, job, tx, got, promised, pending, jobs>>

Next ==
    \/ Calls
    \/ \E p \in Procs :
        \/ Refused(p) \/ Load(p) \/ ImportIsLate(p) \/ Change(p)
        \/ LinkKey(p) \/ UnlinkTemp(p) \/ SyncKey(p) \/ ReplaceData(p) \/ SyncData(p)
        \/ StepFails(p) \/ Kill(p)
    \/ Stop

Spec == Init /\ [][Next]_vars

\* ------------------------------------------------------------------------
\* Properties.

\* Types; between its first read and its last sync a change holds the lock.
TypeOK ==
    /\ keyFile \in KeyFiles /\ dataFile \in DataFiles
    /\ keyDisk \in SUBSET KeyFiles /\ dataDisk \in SUBSET DataFiles
    /\ keyFile \in keyDisk /\ dataFile \in dataDisk
    /\ used \in SUBSET Keys
    /\ lock \in Procs \cup {NoProc}
    /\ pc \in [Procs -> Steps]
    /\ \A p \in Procs : lock = p <=> pc[p] \notin {"idle", "begin"}
    /\ job \in [Procs -> Jobs]
    /\ tx \in [Procs -> [key : Keys \cup {NoFile}, entries : [Refs -> Entries]]]
    /\ got \in [Procs -> [ref : Refs, value : Entries] \cup {NoResult}]
    /\ promised \in [Refs -> Entries]
    /\ pending \in [Refs -> SUBSET Entries]
    /\ jobs \in 0 .. MaxJobs /\ faults \in 0 .. MaxFaults

\* The vault is the store that SecretStore describes: what was acknowledged is
\* found by every process, after any failure of a call, a kill or a stop; a
\* vault that cannot be opened never held anything acknowledged; a migration
\* neither replaces a newer secret nor brings a removed one back.
Store == INSTANCE SecretStore WITH stored <- Visible
ImplementsSecretStore == Store!Spec

\* A load returns what was last acknowledged for its reference or what is being
\* written to it at that moment, also when it began with a migration and the
\* reference was saved or removed by another process meanwhile.
LoadsCurrent ==
    /\ []TypeOK
    /\ [][\A p \in Procs :
        got'[p] # got[p] /\ got'[p] # NoResult
            => got'[p].value \in Store!Possible(got'[p].ref)]_vars
=============================================================================
