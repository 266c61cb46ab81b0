--------------------------- MODULE MCSshConnection ---------------------------
(***************************************************************************)
(* An instance of SshConnection for TLC: two addresses with a key and a    *)
(* password each, so that the password of one is a mistyped one for the    *)
(* other.  The profile starts with the first: the second is its mirror     *)
(* image.                                                                  *)
(***************************************************************************)
EXTENDS SshConnection

\* Each address answers with the key, and accepts the password, of its name.
TwoHosts == {"east", "west"}
OneHost == {"east"}
TwoKeys == {"east", "west"}
OwnName == [h \in Hosts |-> h]
=============================================================================
