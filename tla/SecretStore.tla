----------------------------- MODULE SecretStore -----------------------------
(***************************************************************************)
(* What the credential store promises its callers: a map from references   *)
(* to secrets.  A save or removal that was acknowledged stays, whatever    *)
(* fails later; one that failed or was cut off may have happened or not.   *)
(* A secret of the system keychain ("legacy") is taken over only where the *)
(* store has never had an entry, so that it cannot undo a save or removal. *)
(***************************************************************************)
CONSTANTS
    Refs,       \* credential references
    Payloads,   \* secrets a caller may save
    Legacy,     \* [Refs -> payload], what the system keychain still holds
    Missing,    \* no entry
    Removed     \* the tombstone of a removed entry

Imported == {Legacy[r] : r \in Refs}
Written == Payloads \cup {Removed}
Entries == Written \cup Imported \cup {Missing}

VARIABLES
    stored,     \* what a reader finds
    promised,   \* what the last acknowledged change of each reference left
    pending     \* changes since then whose outcome nobody was told

vars == <<stored, promised, pending>>

Init ==
    /\ stored = [r \in Refs |-> Missing]
    /\ promised = stored
    /\ pending = [r \in Refs |-> {}]

Possible(r) == {promised[r]} \cup pending[r]

\* save or remove begins.
Try(r, v) ==
    /\ v \in Written
    /\ pending' = [pending EXCEPT ![r] = @ \cup {v}]
    /\ UNCHANGED <<stored, promised>>

\* The migration of a secret begins, where there is no entry.
Import(r) ==
    /\ stored[r] = Missing
    /\ pending' = [pending EXCEPT ![r] = @ \cup {Legacy[r]}]
    /\ UNCHANGED <<stored, promised>>

\* Changes take effect, or are undone by a failure, before anybody was told.
Settle ==
    /\ stored' \in [Refs -> Entries]
    /\ \A r \in Refs : stored'[r] \in Possible(r)
    /\ UNCHANGED <<promised, pending>>

\* A change is acknowledged.
Acknowledge(r) ==
    /\ stored[r] \in pending[r]
    /\ promised' = [promised EXCEPT ![r] = stored[r]]
    /\ pending' = [pending EXCEPT ![r] = {}]
    /\ UNCHANGED stored

Next ==
    \/ \E r \in Refs : Import(r) \/ Acknowledge(r) \/ \E v \in Written : Try(r, v)
    \/ Settle

Spec == Init /\ [][Next]_vars
=============================================================================
