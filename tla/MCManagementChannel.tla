------------------------- MODULE MCManagementChannel -------------------------
(***************************************************************************)
(* Instances of ManagementChannel for TLC.                                 *)
(***************************************************************************)
EXTENDS ManagementChannel

AllWindows == {"tools", "install", "bridge"}
AllOps == {"metrics", "files"}
=============================================================================
