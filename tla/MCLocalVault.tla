---------------------------- MODULE MCLocalVault ----------------------------
(***************************************************************************)
(* An instance of LocalVault for TLC: two processes, two references, one   *)
(* of which the system keychain still holds an older secret of.            *)
(***************************************************************************)
EXTENDS LocalVault, TLC

OldSecrets == [r \in Refs |-> "old"]
ProcsAlike == Permutations(Procs)
=============================================================================
