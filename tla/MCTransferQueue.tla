---------------------------- MODULE MCTransferQueue ----------------------------
(* Instances of TransferQueue for TLC; the constants are numbers given in the *)
(* configurations.                                                            *)
EXTENDS TransferQueue
=============================================================================
